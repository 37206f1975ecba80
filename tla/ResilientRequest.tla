-------------------------- MODULE ResilientRequest --------------------------
(***************************************************************************)
(* resilient_request of resilience/_base.py: coroutines of one event loop  *)
(* that share a circuit breaker.  Code between two awaits is one step.     *)
(* The awaits are the httpx call, the back-off sleep and the exit of the   *)
(* "async with" block, which every response passes through.                *)
(***************************************************************************)
EXTENDS CircuitBreaker, Sequences

CONSTANTS Calls,        \* calls of resilient_request, each made once
          MaxRetries,   \* retry_policy.max_retries
          MaxTime       \* bound on the clock

ASSUME RequestAssumption == MaxRetries \in Nat /\ MaxTime \in Nat

VARIABLES
  breaker,   \* the circuit breaker all the calls share
  now,       \* time.time()
  pc,        \* where each call is
  attempt,   \* its loop variable
  result,    \* what it returns, once that is settled
  booked,    \* history: the verdicts a call has recorded on the breaker
  probes,    \* history: calls admitted in the present HALF_OPEN period
  failRun    \* history: failed calls since the last good one, or the last reset

vars == <<breaker, now, pc, attempt, result, booked, probes, failRun>>

Location == {"new", "waiting", "sleeping", "closing", "done"}
Outcome  == {"none", "data", "failed", "garbage", "rejected", "cancelled"}
Verdict  == {"success", "failure"}

TypeOK ==
  /\ breaker \in Breaker
  /\ now \in Nat
  /\ pc \in [Calls -> Location]
  /\ attempt \in [Calls -> 0..MaxRetries]
  /\ result \in [Calls -> Outcome]
  /\ booked \in [Calls -> Seq(Verdict)]
  /\ probes \subseteq Calls
  /\ failRun \in Nat

\* The clock starts late enough for the time 0 that reset() stores to be past.
Init ==
  /\ breaker = NewBreaker
  /\ now = RecoveryTimeout
  /\ pc = [c \in Calls |-> "new"]
  /\ attempt = [c \in Calls |-> 0]
  /\ result = [c \in Calls |-> "none"]
  /\ booked = [c \in Calls |-> <<>>]
  /\ probes = {}
  /\ failRun = 0

Goto(c, l) == pc' = [pc EXCEPT ![c] = l]
Return(c, r) == result' = [result EXCEPT ![c] = r]
Book(c, v) == booked' = [booked EXCEPT ![c] = Append(@, v)]
\* HALF_OPEN ends with the step that leaves it, and the probes with it.
KeepProbes == probes' = IF breaker'.state = "half_open" THEN probes ELSE {}

BookSuccess(c) == /\ breaker' = RecordSuccess(breaker)
                  /\ Book(c, "success")
                  /\ KeepProbes

BookFailure(c) == /\ breaker' = RecordFailure(breaker, now)
                  /\ Book(c, "failure")
                  /\ KeepProbes
                  /\ failRun' = failRun + 1

Reject(c) == /\ Goto(c, "done") /\ Return(c, "rejected")
             /\ UNCHANGED probes

Admit(c) == /\ Goto(c, "waiting") /\ UNCHANGED result
            /\ probes' = IF breaker'.state = "half_open" THEN probes \cup {c}
                                                         ELSE {}

Start(c) ==
  /\ pc[c] = "new"
  /\ breaker' = Observe(breaker, now)
  /\ IF Admits(breaker') THEN Admit(c) ELSE Reject(c)
  /\ UNCHANGED <<now, attempt, booked, failRun>>

\* A 2xx response whose body parses: recorded, then returned through the exit.
RespondData(c) ==
  /\ pc[c] = "waiting"
  /\ BookSuccess(c)
  /\ failRun' = 0
  /\ Goto(c, "closing") /\ Return(c, "data")
  /\ UNCHANGED <<now, attempt>>

\* A 2xx response that is not JSON: the success is recorded before resp.json()
\* raises, and the exception has the exit to pass before it is caught.
RespondGarbage(c) ==
  /\ pc[c] = "waiting"
  /\ BookSuccess(c)
  /\ Goto(c, "closing") /\ Return(c, "garbage")
  /\ UNCHANGED <<now, attempt, failRun>>

\* A retryable status or a transport error with an attempt left.
RetryLater(c) ==
  /\ pc[c] = "waiting"
  /\ attempt[c] < MaxRetries
  /\ Goto(c, "sleeping")
  /\ UNCHANGED <<breaker, now, attempt, result, booked, probes, failRun>>

\* A status that is final: recorded inside the block.
RespondError(c) ==
  /\ pc[c] = "waiting"
  /\ BookFailure(c)
  /\ Goto(c, "closing") /\ Return(c, "failed")
  /\ UNCHANGED <<now, attempt>>

\* Faulty: the last error is not recorded.
GiveUp_Unrecorded(c) ==
  /\ pc[c] = "waiting"
  /\ Goto(c, "done") /\ Return(c, "failed")
  /\ UNCHANGED <<breaker, now, attempt, booked, probes, failRun>>

\* A transport error on the last attempt, or any other exception: caught, and
\* recorded after the loop.
GiveUp(c) ==
  /\ pc[c] = "waiting"
  /\ BookFailure(c)
  /\ Goto(c, "done") /\ Return(c, "failed")
  /\ UNCHANGED <<now, attempt>>

\* Faulty: the attempt is not counted.
Wake_SameAttempt(c) ==
  /\ pc[c] = "sleeping" /\ Goto(c, "waiting")
  /\ UNCHANGED <<breaker, now, attempt, result, booked, probes, failRun>>

Wake(c) ==
  /\ pc[c] = "sleeping"
  /\ attempt' = [attempt EXCEPT ![c] = @ + 1]
  /\ Goto(c, "waiting")
  /\ UNCHANGED <<breaker, now, result, booked, probes, failRun>>

\* The end of the "async with" block: a settled result is returned ...
Exit(c) ==
  /\ pc[c] = "closing" /\ result[c] # "garbage"
  /\ Goto(c, "done")
  /\ UNCHANGED <<breaker, now, attempt, result, booked, probes, failRun>>

\* ... and the decoding error leaves the loop, to be recorded as a failure.
ExitGarbage(c) ==
  /\ pc[c] = "closing" /\ result[c] = "garbage"
  /\ BookFailure(c)
  /\ Goto(c, "done") /\ Return(c, "failed")
  /\ UNCHANGED <<now, attempt>>

\* CancelledError is no Exception: it passes every handler, and nothing more
\* is recorded.
Cancel(c) ==
  /\ pc[c] \in {"waiting", "sleeping", "closing"}
  /\ Goto(c, "done") /\ Return(c, "cancelled")
  /\ UNCHANGED <<breaker, now, attempt, booked, probes, failRun>>

\* get_stats, is_open and the state property observe the breaker as well.
ReadState ==
  /\ breaker' = Observe(breaker, now)
  /\ UNCHANGED <<now, pc, attempt, result, booked, probes, failRun>>

Reset ==
  /\ breaker' = ResetBreaker(breaker)
  /\ probes' = {} /\ failRun' = 0
  /\ UNCHANGED <<now, pc, attempt, result, booked>>

Tick ==
  /\ now < MaxTime
  /\ now' = now + 1
  /\ UNCHANGED <<breaker, pc, attempt, result, booked, probes, failRun>>

Respond(c) == \/ RespondData(c) \/ RespondGarbage(c) \/ RespondError(c)
              \/ RetryLater(c) \/ GiveUp(c)

Leave(c) == Exit(c) \/ ExitGarbage(c)

Next == \/ \E c \in Calls : Start(c) \/ Respond(c) \/ Wake(c) \/ Leave(c) \/ Cancel(c)
        \/ ReadState \/ Reset \/ Tick

Spec == Init /\ [][Next]_vars

\* httpx is given a timeout, so it answers or raises; sleeps and exits end.
\* Nothing makes a caller start a call or cancel it.
Proceed(c) == Respond(c) \/ Wake(c) \/ Leave(c)

-----------------------------------------------------------------------------
\* A closed circuit has seen fewer failures in a row than the threshold,
\* whatever calls were admitted before it closed and report only now.
ClosedBelowThreshold ==
  breaker.state = "closed" => breaker.failures < FailureThreshold

\* A half-open circuit has been left alone by failures for the recovery
\* timeout: a late failure of an older call sends it back to OPEN.
HalfOpenIsRested ==
  breaker.state = "half_open" => Elapsed(breaker, now)

\* A call that is over has on the breaker the verdict of what it returned, one
\* that was rejected none, and a call that reports data never a failure.
VerdictMatchesResult ==
  \A c \in Calls : pc[c] = "done" =>
    /\ result[c] = "data"     => booked[c] = <<"success">>
    /\ result[c] = "failed"   => booked[c] \in {<<"failure">>, <<"success", "failure">>}
    /\ result[c] = "rejected" => booked[c] = <<>>

\* What keeps the invariants above inductive: the breaker against the clock and
\* the run of failed calls, and sleepers with an attempt left.
SoundBreaker(b, t, run) ==
  /\ b.lastFailure <= t
  /\ b.state = "closed" => b.failures < FailureThreshold /\ b.failures <= run
  /\ b.state = "half_open" => Elapsed(b, t)

\* While the circuit is closed its failure count never exceeds the run of calls
\* that failed, and a sleeping call has not used up its attempts.
RequestInv ==
  /\ TypeOK
  /\ SoundBreaker(breaker, now, failRun)
  /\ \A c \in Calls : pc[c] = "sleeping" => attempt[c] < MaxRetries

\* The circuit moves only along the documented transitions; only reset()
\* closes an open circuit, and a late success of an older call does not.
LegalMove ==
  LET old == breaker.state  new == breaker'.state IN
  \/ old = new
  \/ old = "closed" /\ new = "open" /\ failRun' >= FailureThreshold
  \/ old = "open" /\ new = "half_open" /\ Elapsed(breaker, now)
  \/ old = "half_open" /\ new = "open" /\ breaker'.lastFailure = now
  \/ old = "half_open" /\ new = "closed" /\ breaker'.successes = breaker.successes + 1
  \/ new = "closed" /\ breaker'.failures = 0 /\ breaker'.requests = breaker.requests

DocumentedTransitions == [][LegalMove]_vars

\* resilience/_base.py:55: half-open lets one request through.
OneProbe == \A c, d \in probes : c = d

\* resilience/_base.py:58: so many failed calls in a row open the circuit.
TripsOnFailRun == failRun >= FailureThreshold => breaker.state # "closed"
=============================================================================
