---------------------------- MODULE CircuitTuner ----------------------------
(***************************************************************************)
(* The CircuitBreakerTuner of autonomy/circuit_tuner.py, attached to one   *)
(* circuit breaker whose caller reports each failure and success to both.  *)
(* Reading the breaker's state may change it, and applying a recommendation*)
(* changes its settings while it counts.  A tick is ten seconds, so that   *)
(* the limits of a recommended timeout, 10 and 300, are 1 and 30.          *)
(***************************************************************************)
EXTENDS Lists

CONSTANTS HistorySize, MinFailures,   \* history_size and min_failures_to_tune
          MaxRecoveries,              \* the maxlen of _recovery_times, 100 in the code
          BurstWindow,                \* burst_window, in ticks
          FirstThreshold, FirstTimeout,   \* the settings of the breaker at first
          MaxCalls, MaxTicks          \* bounds on the calls and the clock

TuningAssumption ==
  /\ {HistorySize, MinFailures, MaxRecoveries, FirstThreshold, FirstTimeout}
       \subseteq Nat \ {0}
  /\ {BurstWindow, MaxCalls, MaxTicks} \subseteq Nat

VARIABLES
  settings,     \* failure_threshold and recovery_timeout of the breaker
  cb,           \* the breaker's other fields
  clockNow,     \* time.time()
  owing,        \* the times at which callers told the breaker what they have not yet
                \* told the tuner
  failed,       \* _failures
  trips,        \* _trip_times
  recoveries,   \* _recovery_times
  recovered,    \* history: every recovery time there ever was
  advice,       \* what was recommended and is not applied yet, at most one
  opens,        \* history: reports of a failure that found the circuit open
  highest,      \* history: the highest threshold the breaker has had
  calls         \* history: the number of calls

tuningVars == <<settings, cb, clockNow, owing, failed, trips, recoveries, recovered,
                advice, opens, highest, calls>>

CB(s) == INSTANCE CircuitBreaker
  WITH FailureThreshold <- s.threshold, RecoveryTimeout <- s.timeout

Times == 0..MaxTicks

Settings == [threshold : 3..20 \cup {FirstThreshold}, timeout : 1..30 \cup {FirstTimeout}]

TypeOK ==
  /\ settings \in Settings /\ advice \subseteq Settings /\ Cardinality(advice) <= 1
  /\ cb \in CB(settings)!Breaker /\ clockNow \in Times
  /\ owing \in [failure : [Times -> Nat], success : [Times -> Nat]]
  /\ failed \in Seq(Times) /\ Len(failed) <= HistorySize
  /\ trips \in Seq(Times) /\ {recoveries, recovered} \subseteq Seq(Int)

Init ==
  /\ settings = [threshold |-> FirstThreshold, timeout |-> FirstTimeout]
  /\ cb = CB(settings)!NewBreaker /\ clockNow = 0
  /\ owing = [failure |-> [t \in Times |-> 0], success |-> [t \in Times |-> 0]]
  /\ failed = <<>> /\ trips = <<>> /\ recoveries = <<>> /\ recovered = <<>>
  /\ advice = {} /\ opens = 0 /\ highest = FirstThreshold /\ calls = 0

\* A call that was let through ends, whatever the circuit has come to since.
Call(end) ==
  /\ calls < MaxCalls /\ calls' = calls + 1
  /\ owing' = [owing EXCEPT ![end][clockNow] = @ + 1]
  /\ cb' = IF end = "failure" THEN CB(settings)!RecordFailure(cb, clockNow)
                              ELSE CB(settings)!RecordSuccess(cb)
  /\ UNCHANGED <<settings, clockNow, failed, trips, recoveries, recovered, advice, opens,
                 highest>>

\* allow_request().
Ask ==
  /\ cb' = CB(settings)!Observe(cb, clockNow)
  /\ UNCHANGED <<settings, clockNow, owing, failed, trips, recoveries, recovered, advice,
                 opens, highest, calls>>

\* A caller that ended its call at t0 reads the clock at t, before it takes the lock of
\* the tuner: stamps are recorded in any order.
Stamped(end, t0, t) ==
  /\ owing[end][t0] > 0 /\ t \in t0..clockNow
  /\ owing' = [owing EXCEPT ![end][t0] = @ - 1]

\* A deque that holds n drops its oldest member for one more.
Bounded(s, n) == IF Len(s) > n THEN Tail(s) ELSE s

\* record_failure(): a failure that finds the circuit open counts as a trip.
TellFailure(t0, t) ==
  LET seen == CB(settings)!Observe(cb, clockNow) IN
  /\ Stamped("failure", t0, t) /\ cb' = seen
  /\ failed' = Bounded(Append(failed, t), HistorySize)
  /\ IF seen.state = "open"
       THEN trips' = Append(trips, t) /\ opens' = opens + 1
       ELSE UNCHANGED <<trips, opens>>
  /\ UNCHANGED <<settings, clockNow, recoveries, recovered, advice, highest, calls>>

\* Faulty: the trip is not taken off the list.
Recovered_Kept == trips

Recovered == SubSeq(trips, 1, Len(trips) - 1)

\* record_success(): the time since the trip recorded last is one more recovery time, in
\* a deque that holds MaxRecoveries.
TellSuccess(t0, t) ==
  /\ Stamped("success", t0, t)
  /\ IF trips = <<>> THEN UNCHANGED <<trips, recoveries, recovered>>
     ELSE LET time == t - trips[Len(trips)] IN
          /\ recoveries' = Bounded(Append(recoveries, time), MaxRecoveries)
          /\ recovered' = Append(recovered, time) /\ trips' = Recovered
  /\ UNCHANGED <<settings, cb, clockNow, failed, advice, opens, highest, calls>>

-----------------------------------------------------------------------------
\* _count_bursts(): the sizes of the runs of failures at most BurstWindow apart.
Bursts ==
  LET near(i) == failed[i] - failed[i - 1] <= BurstWindow
      starts  == {i \in DOMAIN failed : i = 1 \/ ~near(i)}
      size(i) == Cardinality({j \in DOMAIN failed :
                                j >= i /\ \A k \in i + 1..j : k \notin starts})
  IN  [n \in 1..Cardinality(starts) |->
         size(CHOOSE i \in starts : Cardinality({j \in starts : j <= i}) = n)]

\* get_recommendation(): the middle burst and one more, within 3 and 20; one and a
\* half times the third quartile of the recovery times, or 60 seconds.
Threshold == Max({3, Min({Ascending(Bursts)[Len(Bursts) \div 2 + 1] + 1, 20})})

Timeout ==
  LET n == Len(recoveries) IN
  IF n = 0 THEN 6
  ELSE LET p75 == Ascending(recoveries)[Min({(3 * n) \div 4, n - 1}) + 1]
       IN  Max({1, Min({(3 * p75 + 1) \div 2, 30})})

\* apply_recommendation() asks for the recommendation, and goes on from a confidence
\* of 0.3.
Recommend ==
  /\ Len(failed) >= MinFailures /\ 10 * Len(failed) >= 3 * 5 * MinFailures
  /\ advice = {} /\ advice' = {[threshold |-> Threshold, timeout |-> Timeout]}
  /\ UNCHANGED <<settings, cb, clockNow, owing, failed, trips, recoveries, recovered, opens,
                 highest, calls>>

\* Then it sets both settings; the failures that the circuit has counted stay.
Apply ==
  \E s \in advice :
    /\ settings' = s /\ advice' = {} /\ highest' = Max({highest, s.threshold})
    /\ UNCHANGED <<cb, clockNow, owing, failed, trips, recoveries, recovered, opens, calls>>

Tick ==
  /\ clockNow < MaxTicks /\ clockNow' = clockNow + 1
  /\ UNCHANGED <<settings, cb, owing, failed, trips, recoveries, recovered, advice, opens,
                 highest, calls>>

Next == \/ \E end \in {"failure", "success"} : Call(end)
        \/ \E t0, t \in Times : TellFailure(t0, t) \/ TellSuccess(t0, t)
        \/ Ask \/ Recommend \/ Apply \/ Tick

-----------------------------------------------------------------------------
\* The n last of s.
Latest(s, n) == SubSeq(s, IF Len(s) > n THEN Len(s) - n + 1 ELSE 1, Len(s))

\* Every failure that found the circuit open is waiting for its recovery or has had one
\* recovery time, in whatever order callers get the lock, and a recommendation sees the
\* latest of these, as many as the deque holds; the bursts count each failure once; and
\* whatever is applied while the circuit counts, it does not stay closed through as many
\* failures as its highest threshold (circuit_tuner.py:65-182).
TuningInv ==
  /\ TypeOK
  /\ opens = Len(trips) + Len(recovered)
  /\ recoveries = Latest(recovered, MaxRecoveries)
  /\ SumFunction(Bursts) = Len(failed)
  /\ cb.state = "closed" => cb.failures < highest
=============================================================================
