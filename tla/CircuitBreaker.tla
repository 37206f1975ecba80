--------------------------- MODULE CircuitBreaker ---------------------------
(***************************************************************************)
(* The circuit breaker of resilience/_base.py as a value: what each method *)
(* makes of the breaker's fields.  The modules of its callers decide which *)
(* of these methods run in one step and which are interleaved.             *)
(***************************************************************************)
EXTENDS Integers

CONSTANTS FailureThreshold,   \* failure_threshold
          RecoveryTimeout     \* recovery_timeout, in clock ticks

ASSUME BreakerAssumption == /\ FailureThreshold \in Nat \ {0}
                            /\ RecoveryTimeout \in Nat \ {0}

CircuitState == {"closed", "open", "half_open"}

Breaker == [state         : CircuitState,
            failures      : Nat,      \* _failure_count
            lastFailure   : Nat,      \* _last_failure_time
            successes     : Nat,      \* _success_count
            requests      : Nat,      \* _total_requests
            totalFailures : Nat]      \* _total_failures

NewBreaker == [state |-> "closed", failures |-> 0, lastFailure |-> 0,
               successes |-> 0, requests |-> 0, totalFailures |-> 0]

\* The state property: reading it is what turns an expired OPEN to HALF_OPEN.
Elapsed(b, t) == t - b.lastFailure >= RecoveryTimeout

Observe(b, t) ==
  IF b.state = "open" /\ Elapsed(b, t) THEN [b EXCEPT !.state = "half_open"]
                                       ELSE b

\* allow_request, after the state has been observed.
Admits(b) == b.state \in {"closed", "half_open"}

\* Faulty: the failures are not forgotten when the circuit closes.
RecordSuccess_KeepsCount(b) ==
  [b EXCEPT !.state = IF @ = "half_open" THEN "closed" ELSE @,
            !.failures = IF b.state = "closed" THEN 0 ELSE @,
            !.successes = @ + 1, !.requests = @ + 1]

\* Faulty: a late success closes an open circuit.
RecordSuccess_ClosesAny(b) ==
  [b EXCEPT !.state = "closed", !.failures = 0,
            !.successes = @ + 1, !.requests = @ + 1]

RecordSuccess(b) ==
  [state         |-> IF b.state = "half_open" THEN "closed" ELSE b.state,
   failures      |-> IF b.state = "open" THEN b.failures ELSE 0,
   lastFailure   |-> b.lastFailure,
   successes     |-> b.successes + 1,
   requests      |-> b.requests + 1,
   totalFailures |-> b.totalFailures]

\* record_failure up to its call of time.time() ...
CountFailure(b) ==
  [state         |-> b.state,
   failures      |-> b.failures + 1,
   lastFailure   |-> b.lastFailure,
   successes     |-> b.successes,
   requests      |-> b.requests + 1,
   totalFailures |-> b.totalFailures + 1]

\* Faulty: one failure too late.
Trips_OffByOne(b) == \/ b.state = "half_open"
                     \/ b.state = "closed" /\ b.failures > FailureThreshold

\* ... and from there on, t being what that call returned.
Trips(b) == \/ b.state = "half_open"
            \/ b.state = "closed" /\ b.failures >= FailureThreshold

Trip(b, t) ==
  [state         |-> IF Trips(b) THEN "open" ELSE b.state,
   failures      |-> b.failures,
   lastFailure   |-> t,
   successes     |-> b.successes,
   requests      |-> b.requests,
   totalFailures |-> b.totalFailures]

RecordFailure(b, t) == Trip(CountFailure(b), t)

\* reset() leaves the totals alone.
ResetBreaker(b) ==
  [state         |-> "closed",
   failures      |-> 0,
   lastFailure   |-> 0,
   successes     |-> b.successes,
   requests      |-> b.requests,
   totalFailures |-> b.totalFailures]
=============================================================================
