--------------------------- MODULE ResilientFetch ---------------------------
(***************************************************************************)
(* resilient_fetch of resilience/_base.py: threads that share a circuit    *)
(* breaker, which has no lock.  A thread can lose the processor at any     *)
(* call it makes, so a method of the breaker is split at its calls of      *)
(* time.time() and of the logger; the code between two calls is one step.  *)
(***************************************************************************)
EXTENDS CircuitBreaker, FiniteSets

CONSTANTS Calls,        \* calls of resilient_fetch, each by a thread of its own
          MaxRetries,   \* retry_policy.max_retries
          MaxTime       \* bound on the clock

FetchAssumption == MaxRetries \in Nat /\ MaxTime \in Nat

VARIABLES
  breaker,   \* the circuit breaker all the threads share
  now,       \* time.time()
  pc,        \* where each thread is
  clock,     \* what its last call of time.time() returned
  attempt,   \* its loop variable
  result,    \* what its call returned
  failRun    \* history: failed calls since the last good one, or the last reset

vars == <<breaker, now, pc, clock, attempt, result, failRun>>

Location == {"new", "expiring", "reading", "waiting", "sleeping", "tripping", "done"}
Outcome  == {"none", "data", "failed", "rejected"}

TypeOK ==
  /\ breaker \in Breaker
  /\ now \in Nat
  /\ pc \in [Calls -> Location]
  /\ clock \in [Calls -> Nat]
  /\ attempt \in [Calls -> 0..MaxRetries]
  /\ result \in [Calls -> Outcome]
  /\ failRun \in Nat

Init ==
  /\ breaker = NewBreaker
  /\ now = RecoveryTimeout
  /\ pc = [c \in Calls |-> "new"]
  /\ clock = [c \in Calls |-> 0]
  /\ attempt = [c \in Calls |-> 0]
  /\ result = [c \in Calls |-> "none"]
  /\ failRun = 0

Goto(c, l) == pc' = [pc EXCEPT ![c] = l]
Return(c, r) == result' = [result EXCEPT ![c] = r]
ReadClock(c) == clock' = [clock EXCEPT ![c] = now]

\* What allow_request makes of the state it was given.
Decide(c, b) ==
  IF Admits(b) THEN Goto(c, "waiting") /\ UNCHANGED result
               ELSE Goto(c, "done") /\ Return(c, "rejected")

\* The state property, in three parts: the test for OPEN and the clock, ...
Start(c) ==
  /\ pc[c] = "new"
  /\ IF breaker.state = "open"
       THEN Goto(c, "expiring") /\ ReadClock(c) /\ UNCHANGED result
       ELSE Decide(c, breaker) /\ UNCHANGED clock
  /\ UNCHANGED <<breaker, now, attempt, failRun>>

\* ... the assignment of HALF_OPEN, whatever the state has become by now, ...
Expire(c) ==
  /\ pc[c] = "expiring"
  /\ IF Elapsed(breaker, clock[c])
       THEN /\ breaker' = [breaker EXCEPT !.state = "half_open"]
            /\ Goto(c, "reading") /\ UNCHANGED result
       ELSE Decide(c, breaker) /\ UNCHANGED breaker
  /\ UNCHANGED <<now, clock, attempt, failRun>>

\* ... and the state that is returned, after the log message.
ReadBack(c) ==
  /\ pc[c] = "reading"
  /\ Decide(c, breaker)
  /\ UNCHANGED <<breaker, now, clock, attempt, failRun>>

\* The body was read and decoded before the success is recorded.
RespondData(c) ==
  /\ pc[c] = "waiting"
  /\ breaker' = RecordSuccess(breaker)
  /\ failRun' = 0
  /\ Goto(c, "done") /\ Return(c, "data")
  /\ UNCHANGED <<now, clock, attempt>>

\* Faulty: every attempt that fails is recorded.
RetryLater_Records(c) ==
  /\ pc[c] = "waiting" /\ attempt[c] < MaxRetries
  /\ Goto(c, "sleeping")
  /\ breaker' = CountFailure(breaker)
  /\ UNCHANGED <<now, clock, attempt, result, failRun>>

RetryLater(c) ==
  /\ pc[c] = "waiting"
  /\ attempt[c] < MaxRetries
  /\ Goto(c, "sleeping")
  /\ UNCHANGED <<breaker, now, clock, attempt, result, failRun>>

\* A final status, the last transport error, or an exception that is not
\* retried, a body that is not JSON among them: record_failure begins.
Fail(c) ==
  /\ pc[c] = "waiting"
  /\ breaker' = CountFailure(breaker)
  /\ ReadClock(c)
  /\ failRun' = failRun + 1
  /\ Goto(c, "tripping")
  /\ UNCHANGED <<now, attempt, result>>

TripBreaker(c) ==
  /\ pc[c] = "tripping"
  /\ breaker' = Trip(breaker, clock[c])
  /\ Goto(c, "done") /\ Return(c, "failed")
  /\ UNCHANGED <<now, clock, attempt, failRun>>

\* Faulty: the attempt is not counted.
Wake_SameAttempt(c) ==
  /\ pc[c] = "sleeping" /\ Goto(c, "waiting")
  /\ UNCHANGED <<breaker, now, clock, attempt, result, failRun>>

Wake(c) ==
  /\ pc[c] = "sleeping"
  /\ attempt' = [attempt EXCEPT ![c] = @ + 1]
  /\ Goto(c, "waiting")
  /\ UNCHANGED <<breaker, now, clock, result, failRun>>

Reset ==
  /\ breaker' = ResetBreaker(breaker)
  /\ failRun' = 0
  /\ UNCHANGED <<now, pc, clock, attempt, result>>

Tick ==
  /\ now < MaxTime
  /\ now' = now + 1
  /\ UNCHANGED <<breaker, pc, clock, attempt, result, failRun>>

Respond(c) == RespondData(c) \/ RetryLater(c) \/ Fail(c)

\* What a thread that was not rejected does until its call returns: threads are
\* scheduled, and urlopen has a timeout; callers need not call.
Proceed(c) == \/ Expire(c) \/ ReadBack(c) \/ Respond(c) \/ TripBreaker(c)
              \/ Wake(c)

Next == (\E c \in Calls : Start(c) \/ Proceed(c)) \/ Reset \/ Tick

Spec == Init /\ [][Next]_vars

-----------------------------------------------------------------------------
Failing == {c \in Calls : pc[c] = "tripping"}

\* Unless a failure is just being recorded, a closed circuit has seen fewer
\* failed calls in a row than the threshold: neither a stale HALF_OPEN nor a
\* success between the halves of record_failure lets a run of failures pass.
TripsInTime ==
  Failing = {} /\ breaker.state = "closed" =>
    /\ failRun < FailureThreshold
    /\ breaker.failures < FailureThreshold

\* The totals are exactly the calls that returned data and those that failed:
\* the exits of the retry loop record each admitted call once.
Ledger ==
  /\ breaker.successes = Cardinality({c \in Calls : result[c] = "data"})
  /\ breaker.totalFailures =
       Cardinality({c \in Calls : result[c] = "failed"} \cup Failing)
  /\ breaker.requests = breaker.successes + breaker.totalFailures

\* Threads inside the methods of the unlocked breaker neither hide a run of failures
\* nor count a call twice (_base.py:80-128, 200-238).
FetchInv == TypeOK /\ TripsInTime /\ Ledger
=============================================================================
