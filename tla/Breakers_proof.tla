--------------------------- MODULE Breakers_proof ---------------------------
(***************************************************************************)
(* Proofs about the callers of a circuit breaker.  The lemmas say what each*)
(* method of the breaker makes of a sound breaker; the theorems about the  *)
(* coroutines of resilient_request and the threads of resilient_fetch      *)
(* follow step by step, and so does the one about the tuner that changes   *)
(* the settings of the breaker.                                            *)
(***************************************************************************)
EXTENDS MCBreakers, CollectionLemmas

USE BreakerAssumption, RequestAssumption

\* Observing a breaker (_base.py:80-87) keeps it sound, and moves it from OPEN
\* to HALF_OPEN at most.
LEMMA ObserveSound ==
  ASSUME NEW b \in Breaker, NEW t \in Nat, NEW run \in Nat,
         SoundBreaker(b, t, run)
  PROVE  /\ Observe(b, t) \in Breaker
         /\ SoundBreaker(Observe(b, t), t, run)
         /\ \/ Observe(b, t) = b
            \/ b.state = "open" /\ Elapsed(b, t) /\ Observe(b, t).state = "half_open"
  BY DEF Observe, SoundBreaker, Breaker, CircuitState, Elapsed

\* A recorded success (_base.py:102-111) keeps the breaker sound, even if the
\* run of failed calls starts anew.
LEMMA SuccessSound ==
  ASSUME NEW b \in Breaker, NEW t \in Nat, NEW run \in Nat, NEW run2 \in Nat,
         SoundBreaker(b, t, run)
  PROVE  /\ RecordSuccess(b) \in Breaker
         /\ SoundBreaker(RecordSuccess(b), t, run2)
         /\ RecordSuccess(b).successes = b.successes + 1
         /\ \/ RecordSuccess(b).state = b.state
            \/ b.state = "half_open" /\ RecordSuccess(b).state = "closed"
  BY DEF RecordSuccess, SoundBreaker, Breaker, CircuitState, Elapsed

\* A recorded failure (_base.py:113-128) keeps the breaker sound: it trips it if
\* the threshold is reached, and never leaves it half open.
LEMMA FailureSound ==
  ASSUME NEW b \in Breaker, NEW t \in Nat, NEW run \in Nat,
         SoundBreaker(b, t, run)
  PROVE  /\ RecordFailure(b, t) \in Breaker
         /\ SoundBreaker(RecordFailure(b, t), t, run + 1)
         /\ RecordFailure(b, t).lastFailure = t
         /\ \/ RecordFailure(b, t).state = b.state
            \/ b.state = "half_open" /\ RecordFailure(b, t).state = "open"
            \/ /\ b.state = "closed" /\ RecordFailure(b, t).state = "open"
               /\ run + 1 >= FailureThreshold
  BY DEF RecordFailure, CountFailure, Trip, Trips, SoundBreaker, Breaker,
         CircuitState, Elapsed

\* reset() (_base.py:141-145) leaves a sound, closed breaker.
LEMMA ResetSound ==
  ASSUME NEW b \in Breaker, NEW t \in Nat
  PROVE  /\ ResetBreaker(b) \in Breaker
         /\ SoundBreaker(ResetBreaker(b), t, 0)
         /\ ResetBreaker(b).state = "closed" /\ ResetBreaker(b).failures = 0
         /\ ResetBreaker(b).requests = b.requests
  BY DEF ResetBreaker, SoundBreaker, Breaker, CircuitState, Elapsed

\* Appending a verdict to the history of a call keeps the histories typed.
LEMMA BookTyped ==
  ASSUME TypeOK, NEW c \in Calls, NEW v \in Verdict, Book(c, v)
  PROVE  booked' \in [Calls -> Seq(Verdict)]
<1>1. Append(booked[c], v) \in Seq(Verdict)
  BY DEF TypeOK
<1> QED
  BY <1>1 DEF TypeOK, Book

LEMMA InitInv == Init => RequestInv
  BY DEF Init, RequestInv, TypeOK, SoundBreaker, NewBreaker, Breaker, CircuitState,
         Location, Outcome, Verdict

\* Every step of the calls and of their environment keeps the invariant, and
\* moves the circuit along a documented transition.
LEMMA StepInv == RequestInv /\ [Next]_vars => RequestInv' /\ LegalMove
<1> SUFFICES ASSUME RequestInv, [Next]_vars
             PROVE  RequestInv' /\ LegalMove
  OBVIOUS
<1> USE DEF RequestInv
<1>t. /\ breaker \in Breaker /\ now \in Nat /\ failRun \in Nat
      /\ SoundBreaker(breaker, now, failRun)
      /\ breaker.state \in CircuitState
  BY DEF TypeOK, Breaker
<1>1. ASSUME NEW c \in Calls, Start(c) PROVE RequestInv' /\ LegalMove
  <2>1. /\ breaker' \in Breaker /\ SoundBreaker(breaker', now, failRun)
        /\ \/ breaker' = breaker
           \/ breaker.state = "open" /\ Elapsed(breaker, now) /\ breaker'.state = "half_open"
    BY <1>1, <1>t, ObserveSound DEF Start
  <2>2. TypeOK'
    BY <1>1, <2>1 DEF TypeOK, Start, Admit, Reject, Goto, Return, Location, Outcome
  <2>3. (\A d \in Calls : pc[d] = "sleeping" => attempt[d] < MaxRetries)'
    BY <1>1 DEF TypeOK, Start, Admit, Reject, Goto, Return, Location
  <2> QED
    BY <1>1, <2>1, <2>2, <2>3 DEF Start, LegalMove
<1>2. ASSUME NEW c \in Calls, RespondData(c) \/ RespondGarbage(c)
      PROVE  RequestInv' /\ LegalMove
  <2>1. failRun' \in Nat /\ breaker' = RecordSuccess(breaker) /\ now' = now
    BY <1>2, <1>t DEF RespondData, RespondGarbage, BookSuccess
  <2>2. /\ breaker' \in Breaker /\ SoundBreaker(breaker', now', failRun')
        /\ breaker'.successes = breaker.successes + 1
        /\ \/ breaker'.state = breaker.state
           \/ breaker.state = "half_open" /\ breaker'.state = "closed"
    BY <2>1, <1>t, SuccessSound
  <2>3. TypeOK'
    <3>1. booked' \in [Calls -> Seq(Verdict)]
      BY <1>2, BookTyped DEF RespondData, RespondGarbage, BookSuccess, Verdict
    <3>2. probes' \subseteq Calls
      BY <1>2 DEF RespondData, RespondGarbage, BookSuccess, KeepProbes, TypeOK
    <3>3. /\ pc' \in [Calls -> Location] /\ attempt' \in [Calls -> 0..MaxRetries]
          /\ result' \in [Calls -> Outcome]
      BY <1>2 DEF RespondData, RespondGarbage, Goto, Return, TypeOK, Location, Outcome
    <3> QED
      BY <1>t, <2>1, <2>2, <3>1, <3>2, <3>3 DEF TypeOK
  <2>4. (\A d \in Calls : pc[d] = "sleeping" => attempt[d] < MaxRetries)'
    BY <1>2 DEF TypeOK, RespondData, RespondGarbage, Goto, Location
  <2> QED
    BY <2>2, <2>3, <2>4 DEF LegalMove
<1>3. ASSUME NEW c \in Calls, RespondError(c) \/ GiveUp(c) \/ ExitGarbage(c)
      PROVE  RequestInv' /\ LegalMove
  <2>1. failRun' = failRun + 1 /\ breaker' = RecordFailure(breaker, now) /\ now' = now
    BY <1>3 DEF RespondError, GiveUp, ExitGarbage, BookFailure
  <2>2. /\ breaker' \in Breaker /\ SoundBreaker(breaker', now', failRun')
        /\ breaker'.lastFailure = now
        /\ \/ breaker'.state = breaker.state
           \/ breaker.state = "half_open" /\ breaker'.state = "open"
           \/ /\ breaker.state = "closed" /\ breaker'.state = "open"
              /\ failRun' >= FailureThreshold
    BY <2>1, <1>t, FailureSound
  <2>3. TypeOK'
    <3>1. booked' \in [Calls -> Seq(Verdict)]
      BY <1>3, BookTyped DEF RespondError, GiveUp, ExitGarbage, BookFailure, Verdict
    <3>2. probes' \subseteq Calls
      BY <1>3 DEF RespondError, GiveUp, ExitGarbage, BookFailure, KeepProbes, TypeOK
    <3>3. /\ pc' \in [Calls -> Location] /\ attempt' \in [Calls -> 0..MaxRetries]
          /\ result' \in [Calls -> Outcome]
      BY <1>3 DEF RespondError, GiveUp, ExitGarbage, Goto, Return, TypeOK, Location, Outcome
    <3> QED
      BY <1>t, <2>1, <2>2, <3>1, <3>2, <3>3 DEF TypeOK
  <2>4. (\A d \in Calls : pc[d] = "sleeping" => attempt[d] < MaxRetries)'
    BY <1>3 DEF TypeOK, RespondError, GiveUp, ExitGarbage, Goto, Location
  <2> QED
    BY <2>2, <2>3, <2>4 DEF LegalMove
<1>4. ASSUME NEW c \in Calls, RetryLater(c) \/ Wake(c) \/ Exit(c) \/ Cancel(c)
      PROVE  RequestInv' /\ LegalMove
  <2>1. UNCHANGED <<breaker, now, failRun, booked, probes>>
    BY <1>4 DEF RetryLater, Wake, Exit, Cancel
  <2>2. TypeOK'
    <3>1. attempt' \in [Calls -> 0..MaxRetries]
      <4>1. CASE Wake(c)
        <5>1. attempt[c] + 1 \in 0..MaxRetries
          BY <4>1 DEF Wake, TypeOK
        <5> QED
          BY <4>1, <5>1 DEF Wake, TypeOK
      <4>2. CASE ~Wake(c)
        BY <1>4, <4>2 DEF RetryLater, Exit, Cancel, TypeOK
      <4> QED
        BY <4>1, <4>2
    <3>2. pc' \in [Calls -> Location] /\ result' \in [Calls -> Outcome]
      BY <1>4 DEF RetryLater, Wake, Exit, Cancel, Goto, Return, TypeOK, Location, Outcome
    <3> QED
      BY <2>1, <3>1, <3>2 DEF TypeOK
  <2>3. (\A d \in Calls : pc[d] = "sleeping" => attempt[d] < MaxRetries)'
    BY <1>4 DEF TypeOK, RetryLater, Wake, Exit, Cancel, Goto, Location
  <2> QED
    BY <1>t, <2>1, <2>2, <2>3 DEF LegalMove
<1>5. CASE ReadState
  <2>1. /\ breaker' \in Breaker /\ SoundBreaker(breaker', now, failRun)
        /\ \/ breaker' = breaker
           \/ breaker.state = "open" /\ Elapsed(breaker, now) /\ breaker'.state = "half_open"
    BY <1>5, <1>t, ObserveSound DEF ReadState
  <2> QED
    BY <1>5, <2>1 DEF ReadState, TypeOK, LegalMove
<1>6. CASE Reset
  <2>1. /\ breaker' \in Breaker /\ SoundBreaker(breaker', now, 0)
        /\ breaker'.state = "closed" /\ breaker'.failures = 0
        /\ breaker'.requests = breaker.requests
    BY <1>6, <1>t, ResetSound DEF Reset
  <2> QED
    BY <1>6, <2>1 DEF Reset, TypeOK, LegalMove
<1>7. CASE Tick
  BY <1>7, <1>t DEF Tick, TypeOK, LegalMove, SoundBreaker, Breaker, Elapsed
<1>8. CASE UNCHANGED vars
  BY <1>8, <1>t DEF vars, TypeOK, LegalMove
<1> QED
  BY <1>1, <1>2, <1>3, <1>4, <1>5, <1>6, <1>7, <1>8 DEF Next, Respond, Leave

\* RequestInv holds in every behaviour of concurrent calls on one breaker
\* (_base.py:244-317), for any number of calls, retries and clock ticks.
THEOREM RequestInvariant == Spec => []RequestInv
  <1>1. RequestInv /\ [Next]_vars => RequestInv'
    BY StepInv
  <1> QED
    BY InitInv, <1>1, PTL DEF Spec

\* Type correctness of the calls and of the breaker.
THEOREM TypeCorrect == Spec => []TypeOK
  <1>1. RequestInv => TypeOK
    BY DEF RequestInv
  <1> QED
    BY RequestInvariant, <1>1, PTL

\* A closed circuit has counted fewer failures than the threshold
\* (_base.py:110-111, 123), with calls of an earlier period still to report.
THEOREM ClosedSafety == Spec => []ClosedBelowThreshold
  <1>1. RequestInv => ClosedBelowThreshold
    BY DEF RequestInv, SoundBreaker, ClosedBelowThreshold
  <1> QED
    BY RequestInvariant, <1>1, PTL

\* A half-open circuit has rested for the recovery timeout since the last
\* recorded failure (_base.py:82-87, 120-121).
THEOREM HalfOpenSafety == Spec => []HalfOpenIsRested
  <1>1. RequestInv => HalfOpenIsRested
    BY DEF RequestInv, SoundBreaker, HalfOpenIsRested
  <1> QED
    BY RequestInvariant, <1>1, PTL

\* The circuit moves only along the transitions its documentation lists
\* (_base.py:57-61) and reset().
THEOREM TransitionSafety == Spec => DocumentedTransitions
  <1>1. RequestInv /\ [Next]_vars => [LegalMove]_vars
    BY StepInv
  <1> QED
    BY RequestInvariant, <1>1, PTL DEF Spec, DocumentedTransitions

-----------------------------------------------------------------------------
\* What a call has recorded so far is settled by where it is: nothing until it has an
\* answer, and from then on what the answer calls for.
VerdictSoFar(c) ==
  CASE pc[c] \in {"new", "waiting", "sleeping"} -> booked[c] = <<>>
    [] pc[c] = "closing" -> \/ result[c] \in {"data", "garbage"} /\ booked[c] = <<"success">>
                            \/ result[c] = "failed" /\ booked[c] = <<"failure">>
    [] pc[c] = "done" ->
         /\ result[c] = "data"     => booked[c] = <<"success">>
         /\ result[c] = "failed"   => booked[c] \in {<<"failure">>, <<"success", "failure">>}
         /\ result[c] = "rejected" => booked[c] = <<>>

VerdictsSoFar == \A c \in Calls : VerdictSoFar(c)

LEMMA VerdictStep == TypeOK /\ VerdictsSoFar /\ [Next]_vars => VerdictsSoFar'
<1> SUFFICES ASSUME TypeOK, VerdictsSoFar, [Next]_vars, NEW d \in Calls PROVE VerdictSoFar(d)'
  BY DEF VerdictsSoFar
<1>t. /\ pc \in [Calls -> Location] /\ result \in [Calls -> Outcome]
      /\ booked \in [Calls -> Seq(Verdict)]
  BY DEF TypeOK
<1>v. \A c \in Calls : VerdictSoFar(c)
  BY DEF VerdictsSoFar
\* A call is left alone by the others and by the environment.
<1>o. ASSUME pc'[d] = pc[d], result'[d] = result[d], booked'[d] = booked[d]
      PROVE  VerdictSoFar(d)'
  BY <1>o, <1>v DEF VerdictSoFar
<1>1. ASSUME NEW c \in Calls, Start(c) PROVE VerdictSoFar(d)'
  <2>1. booked' = booked /\ pc[c] = "new" /\ pc'[c] \in {"waiting", "done"}
        /\ (pc'[c] = "done" => result'[c] = "rejected")
    BY <1>1, <1>t DEF Start, Admit, Reject, Goto, Return
  <2>2. c # d => pc'[d] = pc[d] /\ result'[d] = result[d]
    BY <1>1, <1>t DEF Start, Admit, Reject, Goto, Return
  <2>3. booked[c] = <<>>
    BY <1>v, <2>1 DEF VerdictSoFar
  <2> QED
    BY <1>o, <2>1, <2>2, <2>3 DEF VerdictSoFar
<1>2. ASSUME NEW c \in Calls, RespondData(c) \/ RespondGarbage(c) \/ RespondError(c)
      PROVE  VerdictSoFar(d)'
  <2>1. booked[c] = <<>>
    BY <1>2, <1>v DEF VerdictSoFar, RespondData, RespondGarbage, RespondError
  <2>2. PICK v : v \in {"success", "failure"} /\ booked' = [booked EXCEPT ![c] = Append(booked[c], v)]
          /\ pc' = [pc EXCEPT ![c] = "closing"]
          /\ \/ v = "success" /\ result' = [result EXCEPT ![c] = "data"]
             \/ v = "success" /\ result' = [result EXCEPT ![c] = "garbage"]
             \/ v = "failure" /\ result' = [result EXCEPT ![c] = "failed"]
    BY <1>2 DEF RespondData, RespondGarbage, RespondError, BookSuccess, BookFailure, Book,
                Goto, Return
  <2>3. Append(<<>>, v) = <<v>>
    OBVIOUS
  <2>4. CASE c = d
    BY <1>t, <2>1, <2>2, <2>3, <2>4 DEF VerdictSoFar
  <2>5. CASE c # d
    BY <1>o, <1>t, <2>2, <2>5
  <2> QED
    BY <2>4, <2>5
<1>3. ASSUME NEW c \in Calls, GiveUp(c) \/ ExitGarbage(c) PROVE VerdictSoFar(d)'
  <2>1. booked[c] = <<>> \/ booked[c] = <<"success">>
    BY <1>3, <1>v DEF VerdictSoFar, GiveUp, ExitGarbage
  <2>2. /\ booked' = [booked EXCEPT ![c] = Append(booked[c], "failure")]
        /\ pc' = [pc EXCEPT ![c] = "done"] /\ result' = [result EXCEPT ![c] = "failed"]
    BY <1>3 DEF GiveUp, ExitGarbage, BookFailure, Book, Goto, Return
  <2>3. ASSUME NEW x, NEW y PROVE Append(<<>>, y) = <<y>> /\ Append(<<x>>, y) = <<x, y>>
    <3> DEFINE f == Append(<<x>>, y)
    <3>1. <<x>> \in Seq({x, y}) /\ Len(<<x>>) = 1
      OBVIOUS
    <3>2. f \in Seq({x, y}) /\ Len(f) = 2 /\ f[1] = x /\ f[2] = y
      BY <3>1
    <3> HIDE DEF f
    <3>3. f = <<x, y>>
      BY <3>2
    <3>4. Append(<<>>, y) = <<y>>
      OBVIOUS
    <3> QED
      BY <3>3, <3>4 DEF f
  <2>4. CASE c = d
    BY <1>t, <2>1, <2>2, <2>3, <2>4 DEF VerdictSoFar
  <2>5. CASE c # d
    BY <1>o, <1>t, <2>2, <2>5
  <2> QED
    BY <2>4, <2>5
<1>4. ASSUME NEW c \in Calls, RetryLater(c) \/ Wake(c) PROVE VerdictSoFar(d)'
  BY <1>4, <1>o, <1>t, <1>v DEF RetryLater, Wake, Goto, VerdictSoFar
<1>5. ASSUME NEW c \in Calls, Exit(c) PROVE VerdictSoFar(d)'
  BY <1>5, <1>o, <1>t, <1>v DEF Exit, Goto, VerdictSoFar
<1>6. ASSUME NEW c \in Calls, Cancel(c) PROVE VerdictSoFar(d)'
  BY <1>6, <1>o, <1>t DEF Cancel, Goto, Return, VerdictSoFar
<1>7. CASE ReadState \/ Reset \/ Tick \/ UNCHANGED vars
  BY <1>7, <1>o DEF ReadState, Reset, Tick, vars
<1> QED
  BY <1>1, <1>2, <1>3, <1>4, <1>5, <1>6, <1>7 DEF Next, Respond, Leave

\* Whatever way a call ends, the breaker has been told what it returned and nothing else,
\* for any number of calls and retries (_base.py:244-317).
THEOREM VerdictsMatch == Spec => []VerdictMatchesResult
<1>1. Init => VerdictsSoFar
  BY DEF Init, VerdictsSoFar, VerdictSoFar
<1>2. VerdictsSoFar => VerdictMatchesResult
  BY DEF VerdictsSoFar, VerdictSoFar, VerdictMatchesResult
<1> QED
  BY <1>1, <1>2, VerdictStep, TypeCorrect, PTL DEF Spec

-----------------------------------------------------------------------------
\* A step of the callers is a step of their kind and leaves the others alone.
LEMMA StepOfCallers ==
  ASSUME [BreakersNext]_allVars
  PROVE  /\ part' = part
         /\ part = "threads" => [Fetch!Next]_threadVars
         /\ part = "tuner" => [Tuner!Next]_tuningVars
  BY DEF BreakersNext, allVars

\* Sets that count the calls of the threads.
Good == {c \in Calls : answer[c] = "data"}
Bad  == {c \in Calls : answer[c] = "failed"} \cup Fetch!Failing

\* The failures the circuit has counted cover the run of failed calls, in every state;
\* a circuit that has counted too many is closed only while one is just being recorded.
\* A call has no answer before it ends.
FetchStrong ==
  /\ Fetch!TypeOK
  /\ streak <= shared.failures
  /\ Fetch!Failing = {} /\ shared.state = "closed" => shared.failures < FailureThreshold
  /\ \A c \in Calls : at[c] # "done" => answer[c] = "none"
  /\ \A c \in Calls : at[c] = "sleeping" => tries[c] < MaxRetries
  /\ IsFiniteSet(Good) /\ shared.successes = Cardinality(Good)
  /\ IsFiniteSet(Bad) /\ shared.totalFailures = Cardinality(Bad)
  /\ shared.requests = shared.successes + shared.totalFailures

LEMMA FetchInitial == Fetch!Init => FetchStrong
<1> SUFFICES ASSUME Fetch!Init PROVE FetchStrong
  OBVIOUS
<1>1. /\ shared = [state |-> "closed", failures |-> 0, lastFailure |-> 0,
                   successes |-> 0, requests |-> 0, totalFailures |-> 0]
      /\ wall = RecoveryTimeout /\ at = [c \in Calls |-> "new"]
      /\ clock = [c \in Calls |-> 0] /\ tries = [c \in Calls |-> 0]
      /\ answer = [c \in Calls |-> "none"] /\ streak = 0
  BY DEF Fetch!Init, Fetch!NewBreaker
<1>2. Fetch!TypeOK
  BY <1>1 DEF Fetch!TypeOK, Fetch!Breaker, Fetch!CircuitState, Fetch!Location, Fetch!Outcome
<1>3. Good = {} /\ Bad = {}
  BY <1>1 DEF Good, Bad, Fetch!Failing
<1> QED
  BY <1>1, <1>2, <1>3, FS_EmptySet DEF FetchStrong

LEMMA FetchStep ==
  ASSUME FetchStrong, [Fetch!Next]_threadVars
  PROVE  FetchStrong'
<1>t. /\ shared \in [state : {"closed", "open", "half_open"}, failures : Nat,
                     lastFailure : Nat, successes : Nat, requests : Nat, totalFailures : Nat]
      /\ wall \in Nat /\ at \in [Calls -> Fetch!Location] /\ clock \in [Calls -> Nat]
      /\ tries \in [Calls -> 0..MaxRetries] /\ answer \in [Calls -> Fetch!Outcome]
      /\ streak \in Nat
  BY DEF FetchStrong, Fetch!TypeOK, Fetch!Breaker, Fetch!CircuitState
<1>f. /\ shared.state \in {"closed", "open", "half_open"} /\ shared.failures \in Nat
      /\ shared.lastFailure \in Nat /\ shared.successes \in Nat /\ shared.requests \in Nat
      /\ shared.totalFailures \in Nat
  BY <1>t
<1>a. \A c \in Calls : at[c] \in Fetch!Location /\ answer[c] \in Fetch!Outcome
  BY <1>t
<1>s. /\ streak <= shared.failures
      /\ Fetch!Failing = {} /\ shared.state = "closed" => shared.failures < FailureThreshold
      /\ \A c \in Calls : at[c] # "done" => answer[c] = "none"
      /\ \A c \in Calls : at[c] = "sleeping" => tries[c] < MaxRetries
      /\ IsFiniteSet(Good) /\ shared.successes = Cardinality(Good)
      /\ IsFiniteSet(Bad) /\ shared.totalFailures = Cardinality(Bad)
      /\ shared.requests = shared.successes + shared.totalFailures
  BY DEF FetchStrong
\* Steps that record nothing.
<1>1. ASSUME NEW c \in Calls, Fetch!Start(c) \/ Fetch!Expire(c) \/ Fetch!ReadBack(c)
      PROVE  FetchStrong'
  <2>1. /\ UNCHANGED <<wall, tries, streak>> /\ at[c] \in {"new", "expiring", "reading"}
        /\ shared' = shared \/ shared' = [shared EXCEPT !.state = "half_open"]
        /\ clock' = clock \/ clock' = [clock EXCEPT ![c] = wall]
    BY <1>1 DEF Fetch!Start, Fetch!Expire, Fetch!ReadBack, Fetch!ReadClock
  <2>2. PICK l \in {"expiring", "reading", "waiting", "done"} :
          /\ at' = [at EXCEPT ![c] = l]
          /\ answer' = answer \/ (l = "done" /\ answer' = [answer EXCEPT ![c] = "rejected"])
    BY <1>1 DEF Fetch!Start, Fetch!Expire, Fetch!ReadBack, Fetch!Decide, Fetch!Goto,
                Fetch!Return
  <2>3. /\ at' \in [Calls -> Fetch!Location] /\ answer' \in [Calls -> Fetch!Outcome]
        /\ at'[c] = l /\ \A d \in Calls \ {c} : at'[d] = at[d] /\ answer'[d] = answer[d]
        /\ answer'[c] \in {"none", "rejected"} /\ (answer'[c] = "rejected" => l = "done")
    BY <1>t, <1>s, <2>1, <2>2 DEF Fetch!Location, Fetch!Outcome
  <2>4. answer[c] = "none"
    BY <1>s, <2>1
  <2>5. Good' = Good /\ Fetch!Failing' = Fetch!Failing /\ Bad' = Bad
    <3>1. Good' = Good
      BY <2>3, <2>4 DEF Good
    <3>2. Fetch!Failing' = Fetch!Failing
      BY <2>1, <2>2, <2>3 DEF Fetch!Failing
    <3> QED
      BY <2>3, <2>4, <3>1, <3>2 DEF Bad
  <2>6. /\ shared' \in [state : {"closed", "open", "half_open"}, failures : Nat,
                        lastFailure : Nat, successes : Nat, requests : Nat,
                        totalFailures : Nat]
        /\ shared'.failures = shared.failures /\ shared'.successes = shared.successes
        /\ shared'.requests = shared.requests
        /\ shared'.totalFailures = shared.totalFailures
        /\ shared'.state = "closed" => shared.state = "closed"
    BY <1>t, <2>1
  <2>7. Fetch!TypeOK'
    <3>1. clock' \in [Calls -> Nat]
      BY <1>t, <2>1
    <3> QED
      BY <1>t, <2>1, <2>3, <2>6, <3>1 DEF Fetch!TypeOK, Fetch!Breaker, Fetch!CircuitState
  <2>8. /\ \A d \in Calls : at'[d] # "done" => answer'[d] = "none"
        /\ \A d \in Calls : at'[d] = "sleeping" => tries'[d] < MaxRetries
    BY <1>s, <2>1, <2>2, <2>3, <2>4
  <2> QED
    BY <1>s, <2>1, <2>5, <2>6, <2>7, <2>8 DEF FetchStrong
<1>2. ASSUME NEW c \in Calls, Fetch!RetryLater(c) \/ Fetch!Wake(c)
      PROVE  FetchStrong'
  <2>1. /\ UNCHANGED <<shared, wall, clock, answer, streak>>
        /\ at[c] \in {"waiting", "sleeping"}
    BY <1>2 DEF Fetch!RetryLater, Fetch!Wake
  <2>2. PICK l \in {"waiting", "sleeping"} :
          /\ at' = [at EXCEPT ![c] = l]
          /\ l = "sleeping" => tries' = tries /\ tries[c] < MaxRetries
          /\ l = "waiting" => at[c] = "sleeping" /\ tries' = [tries EXCEPT ![c] = tries[c] + 1]
    BY <1>2 DEF Fetch!RetryLater, Fetch!Wake, Fetch!Goto
  <2>3. /\ at' \in [Calls -> Fetch!Location]
        /\ at'[c] = l /\ \A d \in Calls \ {c} : at'[d] = at[d]
    BY <1>t, <2>2 DEF Fetch!Location
  <2>4. tries' \in [Calls -> 0..MaxRetries] /\ \A d \in Calls \ {c} : tries'[d] = tries[d]
    <3>1. CASE l = "sleeping"
      BY <1>t, <2>2, <3>1
    <3>2. CASE l = "waiting"
      <4>1. tries[c] + 1 \in 0..MaxRetries
        BY <1>t, <1>s, <2>2, <3>2
      <4> QED
        BY <1>t, <2>2, <3>2, <4>1
    <3> QED
      BY <3>1, <3>2
  <2>5. Good' = Good /\ Fetch!Failing' = Fetch!Failing
    BY <2>1, <2>2, <2>3 DEF Good, Fetch!Failing
  <2>6. Bad' = Bad
    BY <2>1, <2>5 DEF Bad
  <2>7. Fetch!TypeOK'
    BY <2>1, <2>3, <2>4 DEF FetchStrong, Fetch!TypeOK
  <2>8. /\ \A d \in Calls : at'[d] # "done" => answer'[d] = "none"
        /\ \A d \in Calls : at'[d] = "sleeping" => tries'[d] < MaxRetries
    BY <1>s, <2>1, <2>2, <2>3, <2>4
  <2> QED
    BY <1>s, <2>1, <2>5, <2>6, <2>7, <2>8 DEF FetchStrong
\* A success counts once, and starts both runs anew or neither in an open circuit.
<1>3. ASSUME NEW c \in Calls, Fetch!RespondData(c) PROVE FetchStrong'
  <2>1. /\ at[c] = "waiting" /\ streak' = 0 /\ UNCHANGED <<wall, clock, tries>>
        /\ at' = [at EXCEPT ![c] = "done"] /\ answer' = [answer EXCEPT ![c] = "data"]
        /\ shared' = Fetch!RecordSuccess(shared)
    BY <1>3 DEF Fetch!RespondData, Fetch!Goto, Fetch!Return
  <2>2. /\ shared' \in [state : {"closed", "open", "half_open"}, failures : Nat,
                        lastFailure : Nat, successes : Nat, requests : Nat,
                        totalFailures : Nat]
        /\ shared'.failures \in Nat /\ shared'.successes = shared.successes + 1
        /\ shared'.requests = shared.requests + 1
        /\ shared'.totalFailures = shared.totalFailures
        /\ shared'.state = "closed" => shared'.failures = 0
    BY <1>f, <2>1 DEF Fetch!RecordSuccess
  <2>3. /\ at' \in [Calls -> Fetch!Location] /\ answer' \in [Calls -> Fetch!Outcome]
        /\ at'[c] = "done" /\ answer'[c] = "data"
        /\ \A d \in Calls \ {c} : at'[d] = at[d] /\ answer'[d] = answer[d]
    BY <1>t, <2>1 DEF Fetch!Location, Fetch!Outcome
  <2>4. answer[c] = "none"
    BY <1>s, <2>1
  <2>5. Good' = Good \cup {c} /\ c \notin Good
    BY <2>3, <2>4 DEF Good
  <2>6. Fetch!Failing' = Fetch!Failing
    BY <2>1, <2>3 DEF Fetch!Failing
  <2>7. Bad' = Bad
    BY <2>3, <2>4, <2>6 DEF Bad
  <2>8. IsFiniteSet(Good') /\ Cardinality(Good') = Cardinality(Good) + 1
    BY <1>s, <2>5, OneMore
  <2>9. Fetch!TypeOK'
    BY <1>t, <2>1, <2>2, <2>3 DEF Fetch!TypeOK, Fetch!Breaker, Fetch!CircuitState
  <2>10. /\ \A d \in Calls : at'[d] # "done" => answer'[d] = "none"
         /\ \A d \in Calls : at'[d] = "sleeping" => tries'[d] < MaxRetries
    BY <1>s, <2>1, <2>3
  <2>11. /\ streak' <= shared'.failures
         /\ shared'.state = "closed" => shared'.failures < FailureThreshold
         /\ shared'.requests = shared'.successes + shared'.totalFailures
    BY <1>f, <1>s, <2>1, <2>2
  <2> QED
    BY <1>s, <2>2, <2>7, <2>8, <2>9, <2>10, <2>11 DEF FetchStrong
\* A failure is counted, ...
<1>4. ASSUME NEW c \in Calls, Fetch!Fail(c) PROVE FetchStrong'
  <2>1. /\ at[c] = "waiting" /\ streak' = streak + 1 /\ UNCHANGED <<wall, tries, answer>>
        /\ at' = [at EXCEPT ![c] = "tripping"] /\ clock' = [clock EXCEPT ![c] = wall]
        /\ shared' = Fetch!CountFailure(shared)
    BY <1>4 DEF Fetch!Fail, Fetch!Goto, Fetch!ReadClock
  <2>2. /\ shared' \in [state : {"closed", "open", "half_open"}, failures : Nat,
                        lastFailure : Nat, successes : Nat, requests : Nat,
                        totalFailures : Nat]
        /\ shared'.failures = shared.failures + 1 /\ shared'.successes = shared.successes
        /\ shared'.requests = shared.requests + 1
        /\ shared'.totalFailures = shared.totalFailures + 1
    BY <1>f, <2>1 DEF Fetch!CountFailure
  <2>3. /\ at' \in [Calls -> Fetch!Location] /\ clock' \in [Calls -> Nat]
        /\ at'[c] = "tripping" /\ \A d \in Calls \ {c} : at'[d] = at[d]
    BY <1>t, <2>1 DEF Fetch!Location
  <2>4. answer[c] = "none"
    BY <1>s, <2>1
  <2>5. Fetch!Failing' = Fetch!Failing \cup {c} /\ c \notin Fetch!Failing
    BY <2>1, <2>3 DEF Fetch!Failing
  <2>6. Good' = Good
    BY <2>1 DEF Good
  <2>7. Bad' = Bad \cup {c} /\ c \notin Bad
    BY <2>1, <2>4, <2>5 DEF Bad
  <2>8. IsFiniteSet(Bad') /\ Cardinality(Bad') = Cardinality(Bad) + 1
    BY <1>s, <2>7, OneMore
  <2>9. Fetch!TypeOK'
    BY <1>t, <2>1, <2>2, <2>3 DEF Fetch!TypeOK, Fetch!Breaker, Fetch!CircuitState
  <2>10. /\ \A d \in Calls : at'[d] # "done" => answer'[d] = "none"
         /\ \A d \in Calls : at'[d] = "sleeping" => tries'[d] < MaxRetries
    BY <1>s, <2>1, <2>3
  <2>11. /\ streak' <= shared'.failures
         /\ shared'.requests = shared'.successes + shared'.totalFailures
    BY <1>f, <1>s, <1>t, <2>1, <2>2
  <2>12. Fetch!Failing' # {}
    BY <2>5
  <2> QED
    BY <1>s, <2>2, <2>6, <2>8, <2>9, <2>10, <2>11, <2>12 DEF FetchStrong
\* ... and then trips the circuit if there are too many.
<1>5. ASSUME NEW c \in Calls, Fetch!TripBreaker(c) PROVE FetchStrong'
  <2>1. /\ at[c] = "tripping" /\ UNCHANGED <<wall, clock, tries, streak>>
        /\ at' = [at EXCEPT ![c] = "done"] /\ answer' = [answer EXCEPT ![c] = "failed"]
        /\ shared' = Fetch!Trip(shared, clock[c])
    BY <1>5 DEF Fetch!TripBreaker, Fetch!Goto, Fetch!Return
  <2>2. /\ shared' \in [state : {"closed", "open", "half_open"}, failures : Nat,
                        lastFailure : Nat, successes : Nat, requests : Nat,
                        totalFailures : Nat]
        /\ shared'.failures = shared.failures /\ shared'.successes = shared.successes
        /\ shared'.requests = shared.requests
        /\ shared'.totalFailures = shared.totalFailures
        /\ shared'.state = "closed" => shared.failures < FailureThreshold
    <3>1. clock[c] \in Nat
      BY <1>t
    <3> QED
      BY <1>f, <2>1, <3>1 DEF Fetch!Trip, Fetch!Trips
  <2>3. /\ at' \in [Calls -> Fetch!Location] /\ answer' \in [Calls -> Fetch!Outcome]
        /\ at'[c] = "done" /\ answer'[c] = "failed"
        /\ \A d \in Calls \ {c} : at'[d] = at[d] /\ answer'[d] = answer[d]
    BY <1>t, <2>1 DEF Fetch!Location, Fetch!Outcome
  <2>4. answer[c] = "none"
    BY <1>s, <2>1
  <2>5. Good' = Good
    BY <2>3, <2>4 DEF Good
  <2>6. Bad' = Bad
    BY <2>1, <2>3 DEF Bad, Fetch!Failing
  <2>7. Fetch!TypeOK'
    BY <1>t, <2>1, <2>2, <2>3 DEF Fetch!TypeOK, Fetch!Breaker, Fetch!CircuitState
  <2>8. /\ \A d \in Calls : at'[d] # "done" => answer'[d] = "none"
        /\ \A d \in Calls : at'[d] = "sleeping" => tries'[d] < MaxRetries
    BY <1>s, <2>1, <2>3
  <2> QED
    BY <1>s, <2>1, <2>2, <2>5, <2>6, <2>7, <2>8 DEF FetchStrong
<1>6. CASE Fetch!Reset
  <2>1. /\ UNCHANGED <<wall, at, clock, tries, answer>> /\ streak' = 0
        /\ shared' = Fetch!ResetBreaker(shared)
    BY <1>6 DEF Fetch!Reset
  <2>2. /\ shared' \in [state : {"closed", "open", "half_open"}, failures : Nat,
                        lastFailure : Nat, successes : Nat, requests : Nat,
                        totalFailures : Nat]
        /\ shared'.failures = 0 /\ shared'.successes = shared.successes
        /\ shared'.requests = shared.requests
        /\ shared'.totalFailures = shared.totalFailures
    BY <1>f, <2>1 DEF Fetch!ResetBreaker
  <2>3. Fetch!TypeOK'
    BY <1>t, <2>1, <2>2 DEF Fetch!TypeOK, Fetch!Breaker, Fetch!CircuitState
  <2>4. Good' = Good /\ Bad' = Bad
    BY <2>1 DEF Good, Bad, Fetch!Failing
  <2> QED
    BY <1>s, <2>1, <2>2, <2>3, <2>4 DEF FetchStrong
<1>7. CASE Fetch!Tick \/ UNCHANGED threadVars
  <2>1. UNCHANGED <<shared, at, clock, tries, answer, streak>> /\ wall' \in Nat
    BY <1>7, <1>t DEF Fetch!Tick, threadVars
  <2>2. Fetch!TypeOK'
    BY <1>t, <2>1 DEF Fetch!TypeOK, Fetch!Breaker, Fetch!CircuitState
  <2>3. Good' = Good /\ Bad' = Bad /\ Fetch!Failing' = Fetch!Failing
    BY <2>1 DEF Good, Bad, Fetch!Failing
  <2> QED
    BY <1>s, <2>1, <2>2, <2>3 DEF FetchStrong
<1> QED
  BY <1>1, <1>2, <1>3, <1>4, <1>5, <1>6, <1>7
     DEF Fetch!Next, Fetch!Proceed, Fetch!Respond

\* However threads interleave inside the methods of the unlocked breaker, a run of
\* failures trips it and every call that ends is counted once, for any number of threads
\* (_base.py:80-128, 200-238).
THEOREM ThreadsAreCounted == BreakersSpec => []FetchInv
<1> DEFINE Inv == part = "threads" => FetchStrong
<1>1. BreakersInit => Inv
  BY FetchInitial DEF BreakersInit
<1>2. Inv /\ [BreakersNext]_allVars => Inv'
  BY FetchStep, StepOfCallers
<1>3. Inv => FetchInv
  <2> SUFFICES ASSUME FetchStrong PROVE Fetch!FetchInv
    BY DEF FetchInv
  <2>1. shared.failures \in Nat /\ streak \in Nat
    BY DEF FetchStrong, Fetch!TypeOK, Fetch!Breaker
  <2>2. Fetch!TripsInTime
    BY <2>1 DEF FetchStrong, Fetch!TripsInTime
  <2>3. Fetch!Ledger
    BY DEF FetchStrong, Fetch!Ledger, Good, Bad, Fetch!Cardinality, Cardinality
  <2> QED
    BY <2>2, <2>3 DEF FetchStrong, Fetch!FetchInv
<1>4. BreakersSpec => BreakersInit /\ [][BreakersNext]_allVars
  BY PTL DEF BreakersSpec
<1> HIDE DEF Inv
<1> QED
  BY <1>1, <1>2, <1>3, <1>4, PTL

-----------------------------------------------------------------------------
\* What the tuner's constants are, and the library's operators in it.
LEMMA TunerConstants ==
  /\ HistorySize \in Nat \ {0} /\ MinFailures \in Nat \ {0} /\ FirstThreshold \in Nat \ {0}
  /\ MaxRecoveries \in Nat \ {0} /\ FirstTimeout \in Nat \ {0} /\ MaxTicks \in Nat
  /\ BurstWindow \in Nat
  BY CallersAssumption DEF Tuner!TuningAssumption

LEMMA SizesAgree ==
  /\ \A S : Tuner!Cardinality(S) = Cardinality(S)
  /\ \A f : Tuner!SumFunction(f) = Total(f)
  /\ \A s : Tuner!Ascending(s) = Ranked(s)
<1>1. \A S : Tuner!Cardinality(S) = Cardinality(S)
  BY DEF Tuner!Cardinality, Cardinality
<1>2. ASSUME NEW f PROVE Tuner!SumFunction(f) = Total(f)
  <2>1. Tuner!SumFunction(f) = SumsOf(f, DOMAIN f)[DOMAIN f]
    BY DEF Tuner!SumFunction, Tuner!SumFunctionOnSet, Tuner!FoldFunctionOnSet,
           Tuner!MapThenFoldSet, Pick, Sums, SumsOf
  <2> QED
    BY <2>1, SumIs DEF Total
<1>3. ASSUME NEW s PROVE Tuner!Ascending(s) = Ranked(s)
  <2>1. \A x : /\ Tuner!Below(s, x) = Cardinality(Under(s, x))
              /\ Tuner!NoMore(s, x) = Cardinality(UpTo(s, x))
    BY <1>1 DEF Tuner!Below, Tuner!NoMore, Under, UpTo
  <2>2. Tuner!Range(s) = Members(s)
    BY DEF Tuner!Range, Members
  <2> QED
    BY <2>1, <2>2 DEF Tuner!Ascending, Ranked
<1> QED
  BY <1>1, <1>2, <1>3

\* The greater and the less of two numbers, and a number kept within limits.
LEMMA LimitsAre ==
  ASSUME NEW i \in Int, NEW j \in Int
  PROVE  /\ Tuner!Max({i, j}) = IF i >= j THEN i ELSE j
         /\ Tuner!Min({i, j}) = IF i <= j THEN i ELSE j
<1> DEFINE Most(x) == \A y \in {i, j} : x >= y
           Least(x) == \A y \in {i, j} : x <= y
           m == IF i >= j THEN i ELSE j
           l == IF i <= j THEN i ELSE j
<1>1. /\ m \in {i, j} /\ Most(m) /\ \A x \in {i, j} : Most(x) => x = m
      /\ l \in {i, j} /\ Least(l) /\ \A x \in {i, j} : Least(x) => x = l
  OBVIOUS
<1>2. /\ Tuner!Max({i, j}) = CHOOSE x \in {i, j} : Most(x)
      /\ Tuner!Min({i, j}) = CHOOSE x \in {i, j} : Least(x)
  BY DEF Tuner!Max, Tuner!Min
<1>3. (CHOOSE x \in {i, j} : Most(x)) = m /\ (CHOOSE x \in {i, j} : Least(x)) = l
  <2> HIDE DEF Most, Least, m, l
  <2> QED
    BY <1>1
<1> QED
  BY <1>2, <1>3

\* The bursts divide the failures: the size of the nth is the number of failures up to
\* which n bursts have started.
LEMMA BurstsCount ==
  ASSUME failed \in Seq(Tuner!Times)
  PROVE  /\ Tuner!Bursts \in Seq(Int) /\ Total(Tuner!Bursts) = Len(failed)
         /\ failed # <<>> => Tuner!Bursts # <<>>
<1> DEFINE L == Len(failed)
           near(i) == failed[i] - failed[i - 1] <= BurstWindow
           S == {i \in DOMAIN failed : i = 1 \/ ~near(i)}
           size(i) == Cardinality({j \in DOMAIN failed :
                                     j >= i /\ \A k \in i + 1..j : k \notin S})
           c == Cardinality(S)
           up(j) == Cardinality(UpThrough(S, j))
           g == [j \in 1..L |-> up(j)]
           nth(n) == CHOOSE i \in S : up(i) = n
           classes == [n \in 1..c |-> Cardinality({j \in 1..L : g[j] = n})]
<1>1. L \in Nat /\ DOMAIN failed = 1..L /\ S \in SUBSET (1..L)
  OBVIOUS
<1>2. Tuner!Bursts = [n \in 1..c |-> size(nth(n))]
  BY SizesAgree DEF Tuner!Bursts, UpThrough
<1>3. L > 0 => 1 \in S
  BY <1>1
<1> HIDE DEF S, L
<1>4. /\ c \in Nat /\ IsFiniteSet(S) /\ \A j \in 1..L : up(j) \in 0..c
      /\ \A i, j \in 1..L : i < j /\ j \in S => up(i) < up(j)
      /\ \A i, j \in 1..L : i <= j => (up(i) = up(j) <=> \A k \in i + 1..j : k \notin S)
  BY <1>1, UpThroughGrows
<1>5. \A j \in 1..L : up(j) \in 1..c
  <2> SUFFICES ASSUME NEW j \in 1..L PROVE up(j) # 0
    BY <1>4
  <2>1. IsFiniteSet(UpThrough(S, j))
    BY <1>1, UpThroughGrows
  <2>2. 1 \in UpThrough(S, j)
    BY <1>1, <1>3 DEF UpThrough
  <2> QED
    BY <2>1, <2>2, FS_EmptySet
<1>6. ASSUME NEW n \in 1..c PROVE nth(n) \in S /\ up(nth(n)) = n
  <2>1. \E i \in S : up(i) = n
    BY <1>1, Numbered
  <2> HIDE DEF up
  <2> QED
    BY <2>1
<1>7. ASSUME NEW n \in 1..c PROVE size(nth(n)) = classes[n]
  <2> DEFINE i == nth(n)
  <2>1. i \in S /\ i \in 1..L /\ up(i) = n
    BY <1>1, <1>6
  <2> HIDE DEF i
  <2>2. ASSUME NEW j \in 1..L
        PROVE  (j >= i /\ \A k \in i + 1..j : k \notin S) <=> up(j) = n
    <3>1. CASE j >= i
      BY <1>4, <2>1, <3>1
    <3>2. CASE ~(j >= i)
      <4>1. j < i
        BY <2>1, <3>2
      <4>2. up(j) < up(i)
        BY <1>4, <2>1, <4>1
      <4>3. up(j) \in Int /\ n \in Int
        BY <1>4
      <4> HIDE DEF up
      <4> QED
        BY <2>1, <3>2, <4>2, <4>3
    <3> QED
      BY <3>1, <3>2
  <2>3. {j \in DOMAIN failed : j >= i /\ \A k \in i + 1..j : k \notin S}
          = {j \in 1..L : g[j] = n}
    BY <1>1, <2>2
  <2> QED
    BY <2>3 DEF i
<1>8. /\ \A n \in 1..c : classes[n] \in Nat
      /\ SumFunctionOnSet(classes, 1..c) = L
  <2>1. IsFiniteSet(1..L) /\ Cardinality(1..L) = L
    <3>1. 1 \in Int /\ L \in Int
      BY <1>1
    <3> QED
      BY <1>1, <3>1, FS_Interval
  <2>2. \A j \in 1..L : g[j] \in 1..c
    BY <1>5
  <2> HIDE DEF g, c
  <2> QED
    <3>1. c \in Nat
      BY <1>4
    <3>2. /\ \A n \in 1..c : Cardinality({j \in 1..L : g[j] = n}) \in Nat
          /\ SumFunctionOnSet([n \in 1..c |-> Cardinality({j \in 1..L : g[j] = n})], 1..c)
               = Cardinality(1..L)
      BY ONLY <3>1, <2>1, <2>2, ClassesAddUp, Zenon
    <3>3. \A n \in 1..c : classes[n] = Cardinality({j \in 1..L : g[j] = n})
      OBVIOUS
    <3> HIDE DEF classes
    <3> QED
      BY <2>1, <3>2, <3>3, Zenon DEF classes
<1>9. Tuner!Bursts = classes
  <2>1. Tuner!Bursts = [n \in 1..c |-> classes[n]]
    <3> HIDE DEF size, nth, classes, c
    <3> QED
      BY <1>2, <1>7
  <2> QED
    BY <2>1
<1>10. classes \in [1..c -> Int] /\ DOMAIN classes = 1..c
  BY <1>8
<1> HIDE DEF classes, c, g, up
<1>11. Tuner!Bursts \in Seq(Int)
  BY <1>4, <1>9, <1>10, FunctionIsSeq
<1>12. Total(Tuner!Bursts) = L
  BY <1>8, <1>9, <1>10 DEF Total
<1>13. failed # <<>> => Tuner!Bursts # <<>>
  <2> SUFFICES ASSUME failed # <<>> PROVE Tuner!Bursts # <<>>
    OBVIOUS
  <2>1. 1 \in 1..L
    BY <1>1 DEF L
  <2>2. 1 \in 1..c
    BY <1>4, <1>5, <2>1
  <2>3. Len(classes) = c
    BY <1>4, <1>10
  <2> QED
    BY <1>4, <1>9, <2>2, <2>3
<1> QED
  BY <1>11, <1>12, <1>13 DEF L

LEMMA WithinLimits ==
  ASSUME NEW lo \in Int, NEW hi \in Int, NEW x \in Int, lo <= hi
  PROVE  Tuner!Max({lo, Tuner!Min({x, hi})}) \in lo..hi
<1>1. PICK m \in Int : m = Tuner!Min({x, hi}) /\ m <= hi
  <2>1. Tuner!Min({x, hi}) = IF x <= hi THEN x ELSE hi
    BY LimitsAre
  <2> QED
    BY <2>1
<1>2. Tuner!Max({lo, m}) = IF lo >= m THEN lo ELSE m
  BY LimitsAre
<1> QED
  BY <1>1, <1>2

\* What is recommended is within the limits.
LEMMA AdviceFits ==
  ASSUME failed \in Seq(Tuner!Times), failed # <<>>, recoveries \in Seq(Int)
  PROVE  Tuner!Threshold \in 3..20 /\ Tuner!Timeout \in 1..30
<1>1. Tuner!Threshold \in 3..20
  <2>1. PICK b : b = Tuner!Bursts
    OBVIOUS
  <2>2. b \in Seq(Int) /\ b # <<>>
    BY <2>1, BurstsCount
  <2>3. PICK n \in Nat \ {0} : n = Len(b)
    BY <2>2, Numbers
  <2>4. n \div 2 + 1 \in 1..n
    OBVIOUS
  <2>5. PICK r \in Int : r = Ranked(b)[n \div 2 + 1]
    BY <2>2, <2>3, <2>4, RankedFacts
  <2>6. PICK lo \in Int, hi \in Int, x \in Int : lo = 3 /\ hi = 20 /\ x = r + 1
    OBVIOUS
  <2>7. Tuner!Ascending(b) = Ranked(b)
    BY SizesAgree
  <2>8. Tuner!Threshold = Tuner!Max({lo, Tuner!Min({x, hi})})
    BY ONLY <2>1, <2>3, <2>5, <2>6, <2>7 DEF Tuner!Threshold
  <2>9. Tuner!Max({lo, Tuner!Min({x, hi})}) \in lo..hi
    <3>1. lo <= hi
      BY <2>6
    <3> QED
      BY ONLY <2>6, <3>1, WithinLimits
  <2> QED
    BY <2>6, <2>8, <2>9
<1>2. Tuner!Timeout \in 1..30
  <2>1. PICK n \in Nat : n = Len(recoveries)
    OBVIOUS
  <2>2. CASE n = 0
    BY <2>1, <2>2 DEF Tuner!Timeout
  <2>3. CASE n # 0
    <3>1. PICK k : k = Tuner!Min({(3 * n) \div 4, n - 1})
      OBVIOUS
    <3>2. k + 1 \in 1..n
      <4>1. (3 * n) \div 4 \in Int /\ n - 1 \in Int
        BY <2>3
      <4>2. k = IF (3 * n) \div 4 <= n - 1 THEN (3 * n) \div 4 ELSE n - 1
        BY <3>1, <4>1, LimitsAre
      <4> QED
        BY <2>3, <4>2
    <3>3. PICK r \in Int : r = Ranked(recoveries)[k + 1]
      BY <2>1, <3>2, RankedFacts
    <3>4. PICK lo \in Int, hi \in Int, x \in Int : lo = 1 /\ hi = 30 /\ x = (3 * r + 1) \div 2
      OBVIOUS
    <3>5. Tuner!Ascending(recoveries) = Ranked(recoveries)
      BY SizesAgree
    <3>6. Tuner!Timeout = Tuner!Max({lo, Tuner!Min({x, hi})})
      BY ONLY <2>1, <2>3, <3>1, <3>3, <3>4, <3>5 DEF Tuner!Timeout
    <3>7. Tuner!Max({lo, Tuner!Min({x, hi})}) \in lo..hi
      <4>1. lo <= hi
        BY <3>4
      <4> QED
        BY ONLY <3>4, <4>1, WithinLimits
    <3> QED
      BY <3>4, <3>6, <3>7
  <2> QED
    BY <2>2, <2>3
<1> QED
  BY <1>1, <1>2

\* What the methods make of the circuit: it never stays closed through as many failures as
\* any threshold that is at least the present one.
LEMMA CircuitGoesOn ==
  ASSUME NEW s, s.threshold \in Nat, NEW high \in Nat \ {0}, s.threshold <= high,
         NEW b \in Breaker, b.state = "closed" => b.failures < high, NEW t \in Nat,
         NEW r, \/ r = Tuner!CB(s)!RecordFailure(b, t) \/ r = Tuner!CB(s)!RecordSuccess(b)
                \/ r = Tuner!CB(s)!Observe(b, t)
  PROVE  r \in Breaker /\ (r.state = "closed" => r.failures < high)
<1>1. /\ b.state \in {"closed", "open", "half_open"} /\ b.failures \in Nat
      /\ b.lastFailure \in Nat /\ b.successes \in Nat /\ b.requests \in Nat
      /\ b.totalFailures \in Nat
  BY DEF Breaker, CircuitState
<1>2. CASE r = Tuner!CB(s)!RecordFailure(b, t)
  <2>1. /\ r = [state |-> IF b.state = "half_open"
                             \/ (b.state = "closed" /\ b.failures + 1 >= s.threshold)
                          THEN "open" ELSE b.state,
                failures |-> b.failures + 1, lastFailure |-> t, successes |-> b.successes,
                requests |-> b.requests + 1, totalFailures |-> b.totalFailures + 1]
    BY <1>2 DEF Tuner!CB!RecordFailure, Tuner!CB!CountFailure, Tuner!CB!Trip, Tuner!CB!Trips
  <2> QED
    BY <1>1, <2>1 DEF Breaker, CircuitState
<1>3. CASE r = Tuner!CB(s)!RecordSuccess(b)
  <2>1. /\ r = [state |-> IF b.state = "half_open" THEN "closed" ELSE b.state,
                failures |-> IF b.state = "open" THEN b.failures ELSE 0,
                lastFailure |-> b.lastFailure, successes |-> b.successes + 1,
                requests |-> b.requests + 1, totalFailures |-> b.totalFailures]
    BY <1>3 DEF Tuner!CB!RecordSuccess
  <2> QED
    BY <1>1, <2>1 DEF Breaker, CircuitState
<1>4. CASE r = Tuner!CB(s)!Observe(b, t)
  <2>1. r = b \/ r = [b EXCEPT !.state = "half_open"]
    BY <1>4 DEF Tuner!CB!Observe
  <2> QED
    BY <1>1, <2>1 DEF Breaker, CircuitState
<1> QED
  BY <1>2, <1>3, <1>4

-----------------------------------------------------------------------------
\* The recovery times are the latest that there were; the threshold in use is no more than
\* the highest, which the counted failures of a closed circuit stay below.
Lately ==
  /\ recoveries \in Seq(Int) /\ Len(recoveries) <= MaxRecoveries
  /\ recoveries = LatestOf(recovered, MaxRecoveries)

TuningStrong ==
  /\ settings \in Tuner!Settings /\ advice \subseteq Tuner!Settings
  /\ Cardinality(advice) <= 1 /\ cb \in Breaker /\ clockNow \in Tuner!Times
  /\ owing \in [failure : [Tuner!Times -> Nat], success : [Tuner!Times -> Nat]]
  /\ failed \in Seq(Tuner!Times) /\ Len(failed) <= HistorySize
  /\ trips \in Seq(Tuner!Times) /\ recovered \in Seq(Int) /\ Lately
  /\ opens = Len(trips) + Len(recovered)
  /\ highest \in Nat \ {0} /\ settings.threshold <= highest
  /\ cb.state = "closed" => cb.failures < highest

LEMMA SettingsTyped ==
  ASSUME NEW s \in Tuner!Settings
  PROVE  s.threshold \in Nat \ {0}
  BY TunerConstants DEF Tuner!Settings

LEMMA TuningInitial == Tuner!Init => TuningStrong
<1> SUFFICES ASSUME Tuner!Init PROVE TuningStrong
  OBVIOUS
<1>1. /\ settings = [threshold |-> FirstThreshold, timeout |-> FirstTimeout] /\ clockNow = 0
      /\ owing = [failure |-> [t \in Tuner!Times |-> 0], success |-> [t \in Tuner!Times |-> 0]]
      /\ failed = <<>> /\ trips = <<>> /\ recoveries = <<>> /\ recovered = <<>> /\ advice = {}
      /\ opens = 0 /\ highest = FirstThreshold
      /\ cb = [state |-> "closed", failures |-> 0, lastFailure |-> 0, successes |-> 0,
               requests |-> 0, totalFailures |-> 0]
  BY DEF Tuner!Init, Tuner!CB!NewBreaker
<1>2. settings \in Tuner!Settings /\ settings.threshold = FirstThreshold
  BY <1>1 DEF Tuner!Settings
<1>3. cb \in Breaker /\ cb.state = "closed" /\ cb.failures = 0
  BY <1>1 DEF Breaker, CircuitState
<1>4. clockNow \in Tuner!Times
  BY <1>1, TunerConstants DEF Tuner!Times
<1>5. Cardinality(advice) <= 1
  BY <1>1, FS_EmptySet
<1>6. owing \in [failure : [Tuner!Times -> Nat], success : [Tuner!Times -> Nat]]
  BY <1>1
<1>7. Lately
  <2>1. LatestOf(<<>>, MaxRecoveries) = <<>>
    BY TunerConstants DEF LatestOf
  <2> QED
    BY <1>1, <2>1, TunerConstants DEF Lately
<1> QED
  BY <1>1, <1>2, <1>3, <1>4, <1>5, <1>6, <1>7, TunerConstants DEF TuningStrong, Lately

LEMMA TuningStep == TuningStrong /\ [Tuner!Next]_tuningVars => TuningStrong'
<1> SUFFICES ASSUME TuningStrong, [Tuner!Next]_tuningVars PROVE TuningStrong'
  OBVIOUS
<1>t. /\ settings \in Tuner!Settings /\ advice \subseteq Tuner!Settings
      /\ Cardinality(advice) <= 1 /\ cb \in Breaker /\ clockNow \in Tuner!Times
      /\ owing \in [failure : [Tuner!Times -> Nat], success : [Tuner!Times -> Nat]]
      /\ failed \in Seq(Tuner!Times) /\ Len(failed) <= HistorySize
      /\ trips \in Seq(Tuner!Times) /\ recovered \in Seq(Int) /\ Lately
      /\ opens = Len(trips) + Len(recovered)
      /\ highest \in Nat \ {0} /\ settings.threshold <= highest
      /\ cb.state = "closed" => cb.failures < highest
  BY DEF TuningStrong
<1>n. settings.threshold \in Nat /\ clockNow \in Nat
  BY <1>t, SettingsTyped, TunerConstants DEF Tuner!Times
\* The circuit alone changes, and what the callers owe.
<1>1. ASSUME NEW end \in {"failure", "success"}, Tuner!Call(end) PROVE TuningStrong'
  <2>1. /\ owing' = [owing EXCEPT ![end][clockNow] = @ + 1]
        /\ UNCHANGED <<settings, clockNow, failed, trips, recoveries, recovered, advice, opens,
                       highest>>
        /\ \/ cb' = Tuner!CB(settings)!RecordFailure(cb, clockNow)
           \/ cb' = Tuner!CB(settings)!RecordSuccess(cb)
    BY <1>1 DEF Tuner!Call
  <2>2. cb' \in Breaker /\ (cb'.state = "closed" => cb'.failures < highest)
    BY <1>t, <1>n, <2>1, CircuitGoesOn
  <2>3. owing' \in [failure : [Tuner!Times -> Nat], success : [Tuner!Times -> Nat]]
    <3>1. owing[end] \in [Tuner!Times -> Nat]
      BY <1>t
    <3>2. owing[end][clockNow] + 1 \in Nat
      BY <1>t, <3>1
    <3> QED
      BY <1>t, <2>1, <3>1, <3>2
  <2> QED
    BY <1>t, <2>1, <2>2, <2>3 DEF TuningStrong, Lately
<1>2. CASE Tuner!Ask
  <2>1. /\ UNCHANGED <<settings, clockNow, owing, failed, trips, recoveries, recovered, advice,
                       opens, highest>>
        /\ cb' = Tuner!CB(settings)!Observe(cb, clockNow)
    BY <1>2 DEF Tuner!Ask
  <2>2. cb' \in Breaker /\ (cb'.state = "closed" => cb'.failures < highest)
    BY <1>t, <1>n, <2>1, CircuitGoesOn
  <2> QED
    BY <1>t, <2>1, <2>2 DEF TuningStrong, Lately
<1>o. ASSUME NEW end \in {"failure", "success"}, NEW t0 \in Tuner!Times, NEW t,
             Tuner!Stamped(end, t0, t)
      PROVE  owing' \in [failure : [Tuner!Times -> Nat], success : [Tuner!Times -> Nat]]
  <2>1. owing[end][t0] > 0 /\ owing' = [owing EXCEPT ![end][t0] = @ - 1]
    BY <1>o DEF Tuner!Stamped
  <2>2. owing[end] \in [Tuner!Times -> Nat]
    BY <1>t
  <2>3. owing[end][t0] - 1 \in Nat
    BY <2>1, <2>2
  <2> QED
    BY <1>t, <2>1, <2>2, <2>3
\* A failure that finds the circuit open is one trip more.
<1>3. ASSUME NEW t0 \in Tuner!Times, NEW t \in Tuner!Times, Tuner!TellFailure(t0, t)
      PROVE  TuningStrong'
  <2>1. /\ UNCHANGED <<settings, clockNow, recoveries, recovered, advice, highest>>
        /\ cb' = Tuner!CB(settings)!Observe(cb, clockNow) /\ Tuner!Stamped("failure", t0, t)
        /\ failed' = Tuner!Bounded(Append(failed, t), HistorySize)
        /\ \/ trips' = Append(trips, t) /\ opens' = opens + 1
           \/ trips' = trips /\ opens' = opens
    BY <1>3 DEF Tuner!TellFailure
  <2>2. cb' \in Breaker /\ (cb'.state = "closed" => cb'.failures < highest)
    BY <1>t, <1>n, <2>1, CircuitGoesOn
  <2>3. owing' \in [failure : [Tuner!Times -> Nat], success : [Tuner!Times -> Nat]]
    BY <1>o, <2>1
  <2>4. failed' \in Seq(Tuner!Times) /\ Len(failed') <= HistorySize
    BY <1>t, <2>1, TunerConstants, WindowIs DEF Tuner!Bounded
  <2>5. trips' \in Seq(Tuner!Times) /\ opens' = Len(trips') + Len(recovered')
    <3>1. Len(trips) \in Nat /\ Len(recovered) \in Nat /\ recovered' = recovered
      BY <1>t, <2>1
    <3>2. CASE trips' = Append(trips, t) /\ opens' = opens + 1
      <4>1. Append(trips, t) \in Seq(Tuner!Times) /\ Len(Append(trips, t)) = Len(trips) + 1
        BY <1>t
      <4> QED
        BY <1>t, <3>1, <3>2, <4>1
    <3>3. CASE trips' = trips /\ opens' = opens
      BY <1>t, <3>1, <3>3
    <3> QED
      BY <2>1, <3>2, <3>3
  <2> QED
    BY <1>t, <2>1, <2>2, <2>3, <2>4, <2>5 DEF TuningStrong, Lately
\* A success turns the last trip into a recovery time.
<1>4. ASSUME NEW t0 \in Tuner!Times, NEW t \in Tuner!Times, Tuner!TellSuccess(t0, t)
      PROVE  TuningStrong'
  <2>1. /\ UNCHANGED <<settings, cb, clockNow, failed, advice, opens, highest>>
        /\ Tuner!Stamped("success", t0, t)
    BY <1>4 DEF Tuner!TellSuccess
  <2>2. owing' \in [failure : [Tuner!Times -> Nat], success : [Tuner!Times -> Nat]]
    BY <1>o, <2>1
  <2>3. /\ trips' \in Seq(Tuner!Times) /\ recovered' \in Seq(Int) /\ Lately'
        /\ Len(trips') + Len(recovered') = Len(trips) + Len(recovered)
    <3>1. CASE trips = <<>>
      BY <1>t, <1>4, <3>1 DEF Tuner!TellSuccess, Lately
    <3>2. CASE trips # <<>>
      <4> DEFINE time == t - trips[Len(trips)]
      <4>1. /\ recoveries' = Tuner!Bounded(Append(recoveries, time), MaxRecoveries)
            /\ recovered' = Append(recovered, time) /\ trips' = SubSeq(trips, 1, Len(trips) - 1)
        BY <1>4, <3>2 DEF Tuner!TellSuccess, Tuner!Recovered
      <4>2. Len(trips) \in Nat \ {0} /\ trips[Len(trips)] \in Tuner!Times
        BY <1>t, <3>2, SMTT(40)
      <4>3. time \in Int
        BY <4>2, TunerConstants DEF Tuner!Times
      <4> HIDE DEF time
      <4>4. recovered' \in Seq(Int) /\ Len(recovered') = Len(recovered) + 1
        BY <1>t, <4>1, <4>3
      <4>6. Lately'
        <5>1. /\ recoveries \in Seq(Int) /\ Len(recoveries) <= MaxRecoveries
              /\ recoveries = LatestOf(recovered, MaxRecoveries)
          BY <1>t DEF Lately
        <5>2. /\ recoveries' \in Seq(Int) /\ Len(recoveries') <= MaxRecoveries
              /\ recoveries' = LatestOf(Append(recoveries, time), MaxRecoveries)
          <6>1. LET all == Append(recoveries, time)
                    w   == IF Len(all) > MaxRecoveries THEN Tail(all) ELSE all
                IN  w \in Seq(Int) /\ Len(w) <= MaxRecoveries /\ w = LatestOf(all, MaxRecoveries)
            BY <4>3, <5>1, TunerConstants, WindowIs
          <6> QED
            BY <4>1, <6>1 DEF Tuner!Bounded
        <5>3. LatestOf(Append(recoveries, time), MaxRecoveries)
                = LatestOf(Append(recovered, time), MaxRecoveries)
          BY <1>t, <4>3, <5>1, TunerConstants, LatestAppend
        <5> QED
          BY <4>1, <5>2, <5>3 DEF Lately
      <4>5. trips' \in Seq(Tuner!Times) /\ Len(trips') = Len(trips) - 1
        <5>1. \A m \in 0..Len(trips) : /\ SubSeq(trips, 1, m) \in Seq(Tuner!Times)
                                       /\ Len(SubSeq(trips, 1, m)) = m
          BY <1>t
        <5>2. Len(trips) - 1 \in 0..Len(trips)
          BY <4>2
        <5> QED
          BY <4>1, <5>1, <5>2
      <4> QED
        BY <1>t, <4>2, <4>4, <4>5, <4>6
    <3> QED
      BY <3>1, <3>2
  <2> QED
    BY <1>t, <2>1, <2>2, <2>3 DEF TuningStrong, Lately
<1>5. CASE Tuner!Recommend
  <2>1. /\ UNCHANGED <<settings, cb, clockNow, owing, failed, trips, recoveries, recovered,
                       opens, highest>>
        /\ advice' = {[threshold |-> Tuner!Threshold, timeout |-> Tuner!Timeout]}
        /\ Len(failed) >= MinFailures
    BY <1>5 DEF Tuner!Recommend
  <2>2. failed # <<>>
    <3>1. Len(failed) > 0
      BY <1>t, <2>1, TunerConstants
    <3> QED
      BY <3>1
  <2>3. Tuner!Threshold \in 3..20 /\ Tuner!Timeout \in 1..30
    BY <1>t, <2>2, AdviceFits DEF Lately
  <2>4. advice' \subseteq Tuner!Settings
    BY <2>1, <2>3 DEF Tuner!Settings
  <2>5. Cardinality(advice') <= 1
    <3>1. \A x, y \in advice' : x = y
      BY <2>1
    <3>2. Cardinality(advice') \in 0..1
      BY <3>1, AtMostOne
    <3> QED
      BY <3>2
  <2> QED
    BY <1>t, <2>1, <2>4, <2>5 DEF TuningStrong, Lately
<1>6. CASE Tuner!Apply
  <2>1. PICK s \in advice :
          /\ settings' = s /\ advice' = {} /\ highest' = Tuner!Max({highest, s.threshold})
          /\ UNCHANGED <<cb, clockNow, owing, failed, trips, recoveries, recovered, opens>>
    BY <1>6 DEF Tuner!Apply
  <2>2. s \in Tuner!Settings /\ s.threshold \in Nat \ {0}
    BY <1>t, <2>1, SettingsTyped
  <2>3. highest' = IF highest >= s.threshold THEN highest ELSE s.threshold
    <3>1. highest \in Int /\ s.threshold \in Int
      BY <1>t, <2>2
    <3> QED
      BY <2>1, <3>1, LimitsAre
  <2>4. /\ highest' \in Nat \ {0} /\ settings'.threshold <= highest' /\ highest <= highest'
        /\ settings' \in Tuner!Settings
    <3>1. settings' = s
      BY <2>1
    <3>2. highest \in Nat \ {0}
      BY <1>t
    <3>3. highest' \in Nat \ {0} /\ s.threshold <= highest' /\ highest <= highest'
      BY ONLY <2>2, <2>3, <3>2
    <3> QED
      BY <2>2, <3>1, <3>3
  <2>5. Cardinality(advice') <= 1 /\ advice' \subseteq Tuner!Settings
    BY <2>1, FS_EmptySet
  <2>6. cb'.state = "closed" => cb'.failures < highest'
    <3>1. cb.failures \in Nat
      BY <1>t DEF Breaker
    <3> QED
      BY <1>t, <2>1, <2>4, <3>1
  <2> QED
    BY <1>t, <2>1, <2>4, <2>5, <2>6 DEF TuningStrong, Lately
<1>7. CASE Tuner!Tick \/ UNCHANGED tuningVars
  <2>1. /\ UNCHANGED <<settings, cb, owing, failed, trips, recoveries, recovered, advice, opens,
                       highest>>
        /\ clockNow' \in Tuner!Times
    <3>1. CASE Tuner!Tick
      BY <1>t, <3>1, TunerConstants DEF Tuner!Tick, Tuner!Times
    <3>2. CASE UNCHANGED tuningVars
      BY <1>t, <3>2 DEF tuningVars
    <3> QED
      BY <1>7, <3>1, <3>2
  <2> QED
    BY <1>t, <2>1 DEF TuningStrong, Lately
<1> QED
  BY <1>1, <1>2, <1>3, <1>4, <1>5, <1>6, <1>7 DEF Tuner!Next

LEMMA TuningFits == TuningStrong => Tuner!TuningInv
<1> SUFFICES ASSUME TuningStrong PROVE Tuner!TuningInv
  OBVIOUS
<1>1. Tuner!CB(settings)!Breaker = Breaker
  BY DEF Tuner!CB!Breaker, Tuner!CB!CircuitState, Breaker, CircuitState
<1>2. Tuner!TypeOK
  BY <1>1, SizesAgree DEF TuningStrong, Lately, Tuner!TypeOK
<1>3. Tuner!SumFunction(Tuner!Bursts) = Len(failed)
  BY SizesAgree, BurstsCount DEF TuningStrong, Lately
<1>4. recoveries = Tuner!Latest(recovered, MaxRecoveries)
  BY DEF TuningStrong, Lately, Tuner!Latest, LatestOf
<1> QED
  BY <1>2, <1>3, <1>4 DEF TuningStrong, Tuner!TuningInv

\* The tuner misses no trip and advises by the latest recoveries, as many as its deque
\* holds; its bursts count each failure once, and settings it applies
\* while the circuit counts do not keep the circuit closed, in whatever order callers
\* report and for any number of calls (circuit_tuner.py:65-182).
THEOREM TuningIsSound == BreakersSpec => []TuningInv
<1> DEFINE Inv == part = "tuner" => TuningStrong
<1>1. BreakersInit => Inv
  BY TuningInitial DEF BreakersInit
<1>2. Inv /\ [BreakersNext]_allVars => Inv'
  BY TuningStep, StepOfCallers
<1>3. Inv => TuningInv
  BY TuningFits DEF TuningInv
<1>4. BreakersSpec => BreakersInit /\ [][BreakersNext]_allVars
  BY PTL DEF BreakersSpec
<1> HIDE DEF Inv
<1> QED
  BY <1>1, <1>2, <1>3, <1>4, PTL
=============================================================================
