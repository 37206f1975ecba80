-------------------------- MODULE AdaptiveTimeout --------------------------
(***************************************************************************)
(* The AdaptiveTimeout of resilience/adaptive_timeout.py: threads record   *)
(* latencies, which they stamp before they take the lock, and read a       *)
(* timeout computed from the samples that are not too old.                 *)
(***************************************************************************)
EXTENDS Percentiles

CONSTANTS Threads, Durations,
          WindowSize, WindowSeconds,     \* window_size and window_seconds
          Percentage, Multiplier,        \* percentile and multiplier
          MinTimeout, MaxTimeout,        \* min_timeout and max_timeout
          InitialTimeout, MinSamples,    \* initial_timeout and min_samples
          MaxSamples, MaxTime            \* bounds on the samples and the clock

TimeoutAssumption ==
  /\ Durations \subseteq Nat /\ WindowSize \in Nat \ {0} /\ WindowSeconds \in Nat
  /\ Percentage \in 0..100 /\ Multiplier \in Nat /\ MinTimeout \in Nat
  /\ MaxTimeout \in Nat /\ MinTimeout <= MaxTimeout /\ InitialTimeout \in Nat
  /\ MinSamples \in Nat /\ MaxSamples \in Nat /\ MaxTime \in Nat

VARIABLES samples,   \* _samples
          now,       \* time.monotonic()
          sample,    \* the sample each thread has made and not yet appended, or None
          total,     \* _total_samples
          history    \* history: all the samples, in the order of their appending

timeoutVars == <<samples, now, sample, total, history>>

None   == [duration |-> 0, stamp |-> -1]
Sample == [duration : Durations, stamp : 0..MaxTime]

TypeOK ==
  /\ samples \in Seq(Sample) /\ Len(samples) <= WindowSize /\ now \in 0..MaxTime
  /\ sample \in [Threads -> Sample \cup {None}] /\ total \in 0..MaxSamples
  /\ history \in Seq(Sample)

Init == /\ samples = <<>> /\ now = 0 /\ sample = [t \in Threads |-> None]
        /\ total = 0 /\ history = <<>>

\* Faulty: a full deque loses the sample that was just added.
Appended_DropsNewest(s, x) == IF Len(s) < WindowSize THEN Append(s, x) ELSE s

Appended(s, x) == LET t == Append(s, x) IN IF Len(t) > WindowSize THEN Tail(t) ELSE t

\* record(): the sample is made, with its time, and then appended under the lock.
Make(t, d) ==
  /\ sample[t] = None /\ sample' = [sample EXCEPT ![t] = [duration |-> d, stamp |-> now]]
  /\ UNCHANGED <<samples, now, total, history>>

Record(t) ==
  /\ sample[t] # None /\ total < MaxSamples
  /\ samples' = Appended(samples, sample[t]) /\ total' = total + 1
  /\ history' = Append(history, sample[t]) /\ sample' = [sample EXCEPT ![t] = None]
  /\ UNCHANGED now

\* reset() keeps the total.
Reset == samples' = <<>> /\ history' = <<>> /\ UNCHANGED <<now, sample, total>>

Tick == now < MaxTime /\ now' = now + 1 /\ UNCHANGED <<samples, sample, total, history>>

Next == \/ \E t \in Threads : Record(t) \/ \E d \in Durations : Make(t, d)
        \/ Reset \/ Tick

\* _get_valid_samples().
Valid == Keeping(samples, {s \in Sample : s.stamp >= now - WindowSeconds})
ValidDurations == [i \in DOMAIN Valid |-> Valid[i].duration]

\* get_timeout(), in hundredths.
Timeout ==
  IF Len(Valid) < MinSamples THEN 100 * InitialTimeout
  ELSE LET p == Interpolated(ValidDurations, Percentage) * Multiplier
       IN  Max({100 * MinTimeout, Min({100 * MaxTimeout, p})})

-----------------------------------------------------------------------------
Newest == SubSeq(history, Max({1, Len(history) - WindowSize + 1}), Len(history))
Young(s) == s.stamp + WindowSeconds >= now

\* The timeout rests on those of the latest samples that are young enough, wherever
\* a late thread has put them, and it covers the slowest of them or is at a limit
\* when the percentile asks for the slowest (adaptive_timeout.py:76-91, 141-161).
TimeoutInv ==
  /\ TypeOK
  /\ {Valid[i] : i \in DOMAIN Valid} = {s \in Range(Newest) : Young(s)}
  /\ Valid # <<>> => PercentilesAgree(ValidDurations, {50, 95, 99, Percentage})
  /\ Len(Valid) >= MinSamples /\ Percentage = 100 =>
       \A s \in Range(Valid) : Timeout >= Min({100 * s.duration * Multiplier, 100 * MaxTimeout})
=============================================================================
