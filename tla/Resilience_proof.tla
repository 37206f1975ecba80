-------------------------- MODULE Resilience_proof --------------------------
(***************************************************************************)
(* What stands between a caller and what may fail: the invariants of the   *)
(* hedged request, of the chain of timeouts, of the health report and of   *)
(* the self-healing collector, for any number of backends, functions,      *)
(* checks and threads; and the rate of the token bucket, for every size,   *)
(* rate, cost and clock.                                                   *)
(***************************************************************************)
EXTENDS MCResilience, CollectionLemmas

\* A step of the composition is a step of its part and leaves the others alone.
LEMMA StepOfPart ==
  ASSUME [PartsNext]_allVars
  PROVE  /\ part' = part
         /\ part = "hedge" => [Hedge!Next]_hedgeVars
         /\ part = "chain" => [Chain!Next]_chainVars
         /\ part = "health" => [Health!Next]_reporterVars
         /\ part = "healing" => [Heal!Next]_healingVars
  BY DEF PartsNext, allVars

-----------------------------------------------------------------------------
\* Functions are started in order, and those before the one that is waited for have
\* failed; the answer is of the one that is waited for.
ChainStrong ==
  /\ Chain!TypeOK /\ expired \subseteq 1..turn
  /\ \A f \in Chain!Fns :
       /\ worker[f].state = "none" <=> f > turn
       /\ f < turn => Chain!Failed(f)
       /\ worker[f].completed => worker[f].state \in {"value", "raised", "died"}
  /\ answer \in Chain!Fns =>
       answer = turn /\ worker[turn].state = "value" /\ turn \notin expired
  /\ answer = Chain!Raised => turn = Functions /\ Chain!Failed(turn)
  /\ answer = Chain!Pending => turn \notin expired

LEMMA ChainStrongImplies == ChainStrong => Chain!ChainInv
  BY PartsAssumption DEF Chain!ChainAssumption, Chain!TypeOK, Chain!Fns, Chain!Pending,
     Chain!Raised, Chain!Failed, ChainStrong, Chain!ChainInv

LEMMA ChainInitial == Chain!Init => ChainStrong
  BY PartsAssumption DEF Chain!ChainAssumption, ChainStrong, Chain!TypeOK, Chain!Fns,
     Chain!Pending, Chain!Raised, Chain!Failed, Chain!Init

\* The loop goes on when the function that was waited for has failed.
LEMMA ChainGoesOn ==
  ASSUME ChainStrong, answer = Chain!Pending, Chain!NextFn(worker),
         expired' = expired \/ (turn # 0 /\ expired' = expired \cup {turn}),
         turn # 0 => turn \in expired' \/ worker[turn].state \in {"raised", "died"}
  PROVE  ChainStrong'
<1> USE PartsAssumption DEF Chain!ChainAssumption, Chain!TypeOK, Chain!Fns, Chain!Pending,
      Chain!Raised, Chain!Failed
<1>t. Chain!TypeOK
  BY DEF ChainStrong
<1>e. expired' \subseteq 1..turn
  <2>1. turn \in Nat /\ expired \subseteq 1..turn
    BY <1>t DEF ChainStrong
  <2>2. turn # 0 => turn \in 1..turn
    BY <2>1
  <2>3. CASE expired' = expired
    BY <2>1, <2>3
  <2>4. CASE turn # 0 /\ expired' = expired \cup {turn}
    BY <2>1, <2>2, <2>4
  <2> QED
    BY <2>3, <2>4
<1>1. CASE turn < Functions
  <2>1. turn' = turn + 1 /\ answer' = answer /\ turn' \in Chain!Fns
    BY <1>t, <1>1 DEF Chain!NextFn
  <2>2. worker[turn + 1].state = "none" /\ ~worker[turn + 1].completed
    BY <1>t, <1>1 DEF ChainStrong
  <2>3. worker' = [worker EXCEPT ![turn + 1].state = "running"]
    BY <1>1 DEF Chain!NextFn
  <2>4. /\ worker'[turn + 1].state = "running" /\ ~worker'[turn + 1].completed
        /\ \A f \in Chain!Fns \ {turn + 1} : worker'[f] = worker[f]
    BY <1>t, <2>1, <2>2, <2>3
  <2>5. worker' \in [Chain!Fns -> [state : {"none", "running", "value", "raised", "died"},
                                  completed : BOOLEAN]]
    BY <1>t, <2>1, <2>3
  <2>6. Chain!TypeOK'
    BY <1>t, <1>e, <1>1, <2>1, <2>5
  <2>7. \A f \in Chain!Fns :
          /\ worker'[f].state = "none" <=> f > turn'
          /\ f < turn' => Chain!Failed(f)'
          /\ worker'[f].completed => worker'[f].state \in {"value", "raised", "died"}
    BY <1>t, <2>1, <2>4 DEF ChainStrong
  <2> QED
    BY <1>t, <1>e, <2>1, <2>6, <2>7 DEF ChainStrong
<1>2. CASE ~(turn < Functions)
  <2>1. turn = Functions /\ turn # 0
    BY <1>t, <1>2
  <2>2. answer' = Chain!Raised /\ worker' = worker /\ turn' = turn
    BY <1>2 DEF Chain!NextFn
  <2> QED
    BY <1>t, <1>e, <2>1, <2>2 DEF ChainStrong
<1> QED
  BY <1>1, <1>2

LEMMA ChainStep == ChainStrong /\ [Chain!Next]_chainVars => ChainStrong'
<1> SUFFICES ASSUME ChainStrong, [Chain!Next]_chainVars PROVE ChainStrong'
  OBVIOUS
<1> USE PartsAssumption DEF Chain!ChainAssumption, Chain!TypeOK, Chain!Fns, Chain!Pending,
      Chain!Raised, Chain!Failed
<1>t. Chain!TypeOK
  BY DEF ChainStrong
<1>1. CASE Chain!Begin
  <2>1. answer = Chain!Pending
    BY <1>1 DEF ChainStrong, Chain!Begin
  <2>2. Chain!NextFn(worker) /\ expired' = expired /\ turn = 0
    BY <1>1 DEF Chain!Begin
  <2> QED
    BY <2>1, <2>2, ChainGoesOn
<1>2. CASE Chain!Take
  <2>1. /\ answer = Chain!Pending /\ turn # 0 /\ expired' = expired
        /\ worker[turn].state \in {"value", "raised", "died"} /\ turn \notin expired
    BY <1>2, <1>t DEF Chain!Take, Chain!Waiting, ChainStrong
  <2>2. CASE worker[turn].state = "value"
    BY <1>2, <1>t, <2>1, <2>2 DEF Chain!Take, Chain!Answered, ChainStrong
  <2>3. CASE worker[turn].state # "value"
    <3>1. Chain!NextFn(worker)
      BY <1>2, <2>3 DEF Chain!Take, Chain!Answered
    <3> QED
      BY <2>1, <2>3, <3>1, ChainGoesOn
  <2> QED
    BY <2>2, <2>3
<1>3. CASE Chain!Expire
  <2>1. /\ answer = Chain!Pending /\ turn # 0 /\ expired' = expired \cup {turn}
        /\ Chain!NextFn(worker)
    BY <1>3 DEF Chain!Expire, Chain!Waiting
  <2> QED
    BY <2>1, ChainGoesOn
<1>4. ASSUME NEW f \in Chain!Fns, Chain!Finish(f) PROVE ChainStrong'
  <2>1. PICK s \in {"value", "raised", "died"} : worker' = [worker EXCEPT ![f].state = s]
    BY <1>4 DEF Chain!Finish
  <2>2. /\ worker[f].state = "running" /\ worker'[f].state = s
        /\ worker'[f].completed = worker[f].completed
        /\ \A g \in Chain!Fns \ {f} : worker'[g] = worker[g]
        /\ UNCHANGED <<turn, expired, answer>>
    BY <1>4, <1>t, <2>1 DEF Chain!Finish
  <2>3. Chain!TypeOK'
    BY <1>t, <2>1, <2>2
  <2> QED
    BY <1>t, <2>2, <2>3 DEF ChainStrong
<1>5. ASSUME NEW f \in Chain!Fns, Chain!SetCompleted(f) PROVE ChainStrong'
  <2>1. /\ worker' = [worker EXCEPT ![f].completed = TRUE]
        /\ worker[f].state \in {"value", "raised", "died"}
        /\ UNCHANGED <<turn, expired, answer>>
    BY <1>5 DEF Chain!SetCompleted
  <2>2. \A g \in Chain!Fns : worker'[g].state = worker[g].state
                           /\ (g # f => worker'[g] = worker[g])
    BY <1>t, <2>1
  <2>3. Chain!TypeOK'
    BY <1>t, <2>1
  <2> QED
    BY <1>t, <2>1, <2>2, <2>3 DEF ChainStrong
<1>6. CASE UNCHANGED chainVars
  BY <1>6 DEF chainVars, ChainStrong
<1> QED
  BY <1>1, <1>2, <1>3, <1>4, <1>5, <1>6 DEF Chain!Next

\* The first function that answers in time is the answer, however the others fail, hang
\* or answer late, and an exception means that all failed (patterns.py:147-201).
THEOREM FirstAnswerInTime == PartsSpec => []ChainInv
<1> DEFINE Inv == part = "chain" => ChainStrong
<1>1. PartsInit => Inv
  BY ChainInitial DEF PartsInit
<1>2. Inv /\ [PartsNext]_allVars => Inv'
  BY ChainStep, StepOfPart
<1>3. Inv => ChainInv
  BY ChainStrongImplies DEF ChainInv
<1>4. PartsSpec => PartsInit /\ [][PartsNext]_allVars
  BY PTL DEF PartsSpec
<1> HIDE DEF Inv
<1> QED
  BY <1>1, <1>2, <1>3, <1>4, PTL
-----------------------------------------------------------------------------
\* While the caller launches there are threads left to launch, it has a result when it
\* is done, and if it was woken in time it fails only after every backend has.
HedgeStrong ==
  /\ Hedge!HedgeInv
  /\ caller \in {"launching", "pausing"} => launched < Hedge!UseCount
  /\ caller = "done" <=> result # Hedge!NoWinner
  /\ caller # "done" => failures = 0
  /\ caller \in {"checking", "failing"} /\ ~timedOut => event
  /\ caller = "failing" /\ ~timedOut => errors = Hedge!Selected

\* An instance's cardinality is the one that the theorems on finite sets speak of.
LEMMA HedgeCardinality == \A S : Hedge!Cardinality(S) = Cardinality(S)
  BY DEF Hedge!Cardinality, Cardinality

LEMMA SelectedFinite ==
  /\ Hedge!UseCount \in Nat \ {0} /\ Hedge!Selected = 1..Hedge!UseCount
  /\ IsFiniteSet(Hedge!Selected) /\ Cardinality(Hedge!Selected) = Hedge!UseCount
<1>1. Hedge!UseCount \in Nat \ {0} /\ Hedge!Selected = 1..Hedge!UseCount
  BY PartsAssumption DEF Hedge!HedgeAssumption, Hedge!UseCount, Hedge!Selected
<1> QED
  BY <1>1, FS_Interval

\* Threads are through one by one, and all are when as many are as were selected.
LEMMA ThroughFinite ==
  /\ IsFiniteSet(Hedge!Through) /\ Cardinality(Hedge!Through) \in 0..Hedge!UseCount
  /\ Cardinality(Hedge!Through) >= Hedge!UseCount => Hedge!Through = Hedge!Selected
<1>1. Hedge!Through \subseteq Hedge!Selected
  BY DEF Hedge!Through
<1>2. /\ IsFiniteSet(Hedge!Through) /\ Cardinality(Hedge!Through) <= Hedge!UseCount
      /\ Cardinality(Hedge!Through) = Hedge!UseCount => Hedge!Through = Hedge!Selected
  BY <1>1, SelectedFinite, FS_Subset
<1>3. Cardinality(Hedge!Through) \in Nat
  BY <1>2, FS_CardinalityType
<1> QED
  BY <1>2, <1>3, SelectedFinite

LEMMA ThroughFinitePrime ==
  /\ Cardinality(Hedge!Through') \in 0..Hedge!UseCount
  /\ Cardinality(Hedge!Through') >= Hedge!UseCount => Hedge!Through' = Hedge!Selected
<1>1. Hedge!Through' \subseteq Hedge!Selected
  BY DEF Hedge!Through
<1>2. /\ IsFiniteSet(Hedge!Through') /\ Cardinality(Hedge!Through') <= Hedge!UseCount
      /\ Cardinality(Hedge!Through') = Hedge!UseCount => Hedge!Through' = Hedge!Selected
  BY <1>1, SelectedFinite, FS_Subset
<1>3. Cardinality(Hedge!Through') \in Nat
  BY <1>2, FS_CardinalityType
<1> QED
  BY <1>2, <1>3, SelectedFinite

LEMMA HedgeInitial == Hedge!Init => HedgeStrong
<1> SUFFICES ASSUME Hedge!Init PROVE HedgeStrong
  OBVIOUS
<1>1. Hedge!Through = {}
  BY DEF Hedge!Init, Hedge!Through
<1>2. Cardinality(Hedge!Through) = 0
  BY <1>1, FS_EmptySet
<1>3. staggered \in BOOLEAN /\ event \in BOOLEAN /\ timedOut \in BOOLEAN
  BY DEF Hedge!Init
<1>4. Hedge!TypeOK
  BY <1>3, SelectedFinite DEF Hedge!Init, Hedge!TypeOK, Hedge!CallerPlace,
     Hedge!BackendPlace, Hedge!NoWinner
<1>5. Hedge!EventIsRight /\ Hedge!FailsOnlyIfAllFail
  BY SelectedFinite DEF Hedge!Init, Hedge!EventIsRight, Hedge!FailsOnlyIfAllFail,
     Hedge!NoWinner, Hedge!Failed
<1>6. \A i \in Hedge!Selected : backend[i] = "new" /\ i > 0
  BY SelectedFinite DEF Hedge!Init
<1>7. finished = Cardinality(Hedge!Through)
  BY HedgeCardinality, <1>2 DEF Hedge!Init
<1>8. \A i \in Hedge!Selected : backend[i] # "new" <=> i <= launched
  BY <1>6, SelectedFinite DEF Hedge!Init
<1>9. errors = {i \in Hedge!Selected : backend[i] = "failed"}
  BY <1>6 DEF Hedge!Init
<1>10. \A i \in Hedge!Selected : backend[i] = "late" => winner # Hedge!NoWinner
  BY <1>6 DEF Hedge!Init
<1>11. \A i \in Hedge!Selected : backend[i] = "won" <=> i = winner
  BY <1>6, SelectedFinite DEF Hedge!Init, Hedge!NoWinner
<1>12. Hedge!HedgeInv
  BY <1>4, <1>5, <1>7, <1>8, <1>9, <1>10, <1>11, HedgeCardinality, Zenon DEF Hedge!HedgeInv
<1> QED
  BY <1>12, SelectedFinite DEF Hedge!Init, HedgeStrong, Hedge!NoWinner

\* A thread that reports is through after the step and was not before it.
LEMMA OneThrough ==
  ASSUME HedgeStrong, NEW i \in Hedge!Selected,
         NEW from \in {"succeeded", "raised"}, NEW to \in {"won", "late", "failed"},
         Hedge!Move(i, from, to)
  PROVE  /\ Hedge!Through' = Hedge!Through \cup {i}
         /\ Cardinality(Hedge!Through') = Cardinality(Hedge!Through) + 1
         /\ backend[i] = from /\ backend'[i] = to
         /\ \A j \in Hedge!Selected \ {i} : backend'[j] = backend[j]
         /\ backend' \in [Hedge!Selected -> Hedge!BackendPlace]
<1>1. /\ backend[i] = from /\ backend'[i] = to
      /\ \A j \in Hedge!Selected \ {i} : backend'[j] = backend[j]
      /\ backend' \in [Hedge!Selected -> Hedge!BackendPlace]
  BY DEF HedgeStrong, Hedge!HedgeInv, Hedge!TypeOK, Hedge!Move, Hedge!BackendPlace
<1>2. Hedge!Through' = Hedge!Through \cup {i} /\ i \notin Hedge!Through
  BY <1>1 DEF Hedge!Through
<1>3. Cardinality(Hedge!Through') = Cardinality(Hedge!Through) + 1
  BY <1>2, ThroughFinite, FS_AddElement
<1> QED
  BY <1>1, <1>2, <1>3

\* The caller's own steps keep what the threads' bookkeeping is about.
LEMMA CallerKeeps ==
  ASSUME HedgeStrong, UNCHANGED <<staggered, launched>>, timedOut' \in BOOLEAN,
         UNCHANGED <<backend, winner, errors, finished, event>>,
         caller' \in Hedge!CallerPlace, failures' \in 0..1,
         result' \in Hedge!Selected \cup {Hedge!NoWinner, Hedge!Failed},
         result' = Hedge!Failed /\ ~timedOut' => errors = Hedge!Selected
  PROVE  Hedge!HedgeInv'
<1>1. Hedge!TypeOK'
  BY DEF HedgeStrong, Hedge!HedgeInv, Hedge!TypeOK
<1>2. Hedge!Through' = Hedge!Through
  BY DEF Hedge!Through
<1>3. Hedge!EventIsRight' /\ Hedge!FailsOnlyIfAllFail'
  BY DEF HedgeStrong, Hedge!HedgeInv, Hedge!EventIsRight, Hedge!FailsOnlyIfAllFail
<1>4. finished' = Cardinality(Hedge!Through')
  BY HedgeCardinality, <1>2 DEF HedgeStrong, Hedge!HedgeInv
<1> QED
  BY <1>1, <1>3, <1>4, HedgeCardinality DEF HedgeStrong, Hedge!HedgeInv

\* A thread's own steps keep it: a success is booked under the lock, and the last
\* failure sets the event.
LEMMA ThreadKeeps ==
  ASSUME HedgeStrong, NEW i \in Hedge!Selected, Hedge!Answer(i) \/ Hedge!Report(i)
  PROVE  HedgeStrong'
<1>t. Hedge!TypeOK
  BY DEF HedgeStrong, Hedge!HedgeInv
<1>c. UNCHANGED <<staggered, caller, launched, result, failures, timedOut>>
  BY DEF Hedge!Answer, Hedge!Report, Hedge!Win, Hedge!Lose, Hedge!Fail, Hedge!callerVars
<1>1. CASE Hedge!Answer(i)
  <2>1. PICK to \in {"succeeded", "raised"} : Hedge!Move(i, "running", to)
    BY <1>1 DEF Hedge!Answer
  <2>2. UNCHANGED <<winner, errors, finished, event>>
    BY <1>1 DEF Hedge!Answer, Hedge!sharedVars
  <2>3. /\ backend[i] = "running" /\ backend'[i] = to
        /\ \A j \in Hedge!Selected \ {i} : backend'[j] = backend[j]
        /\ backend' \in [Hedge!Selected -> Hedge!BackendPlace]
    BY <1>t, <2>1 DEF Hedge!TypeOK, Hedge!Move, Hedge!BackendPlace
  <2>4. Hedge!TypeOK'
    BY <1>t, <1>c, <2>2, <2>3 DEF Hedge!TypeOK
  <2>5. Hedge!Through' = Hedge!Through
    BY <2>3 DEF Hedge!Through
  <2>f. finished' = Cardinality(Hedge!Through')
    BY HedgeCardinality, <2>2, <2>5 DEF HedgeStrong, Hedge!HedgeInv
  <2>6. \A j \in Hedge!Selected : backend'[j] # "new" <=> j <= launched'
    BY <1>c, <2>3 DEF HedgeStrong, Hedge!HedgeInv
  <2>7. errors' = {j \in Hedge!Selected : backend'[j] = "failed"}
    BY <2>2, <2>3 DEF HedgeStrong, Hedge!HedgeInv
  <2>8. \A j \in Hedge!Selected : backend'[j] = "late" => winner' # Hedge!NoWinner
    BY <2>2, <2>3 DEF HedgeStrong, Hedge!HedgeInv
  <2>w. \A j \in Hedge!Selected : backend'[j] = "won" <=> j = winner'
    BY <2>2, <2>3 DEF HedgeStrong, Hedge!HedgeInv
  <2>9. Hedge!EventIsRight' /\ Hedge!FailsOnlyIfAllFail'
    BY <1>c, <2>2 DEF HedgeStrong, Hedge!HedgeInv, Hedge!EventIsRight,
       Hedge!FailsOnlyIfAllFail
  <2>10. Hedge!HedgeInv'
    BY <2>4, <2>f, <2>6, <2>7, <2>8, <2>w, <2>9, HedgeCardinality, Zenon DEF Hedge!HedgeInv
  <2> QED
    BY <1>c, <2>2, <2>10 DEF HedgeStrong
<1>2. CASE Hedge!Win(i)
  <2>1. /\ Hedge!Move(i, "succeeded", "won") /\ winner = Hedge!NoWinner /\ winner' = i
        /\ event' = TRUE /\ errors' = errors
    BY <1>2 DEF Hedge!Win
  <2>2. finished' = finished + 1
    BY <1>2 DEF Hedge!Win
  <2>3. i # Hedge!NoWinner /\ \A j \in Hedge!Selected : j # Hedge!NoWinner
    BY SelectedFinite DEF Hedge!NoWinner
  <2>4. /\ Cardinality(Hedge!Through') = Cardinality(Hedge!Through) + 1
        /\ backend[i] = "succeeded" /\ backend'[i] = "won"
        /\ \A j \in Hedge!Selected \ {i} : backend'[j] = backend[j]
        /\ backend' \in [Hedge!Selected -> Hedge!BackendPlace]
    BY <2>1, OneThrough
  <2>f. finished' = Cardinality(Hedge!Through')
    BY HedgeCardinality, <2>2, <2>4 DEF HedgeStrong, Hedge!HedgeInv
  <2>5. finished' \in 0..Hedge!UseCount
    BY <2>f, ThroughFinitePrime
  <2>6. Hedge!TypeOK'
    BY <1>t, <1>c, <2>1, <2>4, <2>5 DEF Hedge!TypeOK
  <2>7. \A j \in Hedge!Selected : backend'[j] # "new" <=> j <= launched'
    BY <1>c, <2>4 DEF HedgeStrong, Hedge!HedgeInv
  <2>8. errors' = {j \in Hedge!Selected : backend'[j] = "failed"}
    BY <2>1, <2>4 DEF HedgeStrong, Hedge!HedgeInv
  <2>9. \A j \in Hedge!Selected : backend'[j] = "late" => winner' # Hedge!NoWinner
    BY <2>1, <2>3, <2>4 DEF HedgeStrong, Hedge!HedgeInv
  <2>w. \A j \in Hedge!Selected : backend'[j] = "won" <=> j = winner'
    BY <2>1, <2>3, <2>4 DEF HedgeStrong, Hedge!HedgeInv
  <2>10. Hedge!EventIsRight' /\ Hedge!FailsOnlyIfAllFail'
    BY <1>c, <2>1, <2>3 DEF HedgeStrong, Hedge!HedgeInv, Hedge!EventIsRight,
       Hedge!FailsOnlyIfAllFail
  <2>11. Hedge!HedgeInv'
    BY <2>f, <2>6, <2>7, <2>8, <2>9, <2>w, <2>10, HedgeCardinality, Zenon DEF Hedge!HedgeInv
  <2> QED
    BY <1>c, <2>1, <2>11 DEF HedgeStrong
<1>3. CASE Hedge!Lose(i)
  <2>1. /\ Hedge!Move(i, "succeeded", "late") /\ winner # Hedge!NoWinner
        /\ UNCHANGED <<winner, errors, event>>
    BY <1>3 DEF Hedge!Lose
  <2>2. finished' = finished + 1
    BY <1>3 DEF Hedge!Lose
  <2>4. /\ Cardinality(Hedge!Through') = Cardinality(Hedge!Through) + 1
        /\ backend[i] = "succeeded" /\ backend'[i] = "late"
        /\ \A j \in Hedge!Selected \ {i} : backend'[j] = backend[j]
        /\ backend' \in [Hedge!Selected -> Hedge!BackendPlace]
    BY <2>1, OneThrough
  <2>f. finished' = Cardinality(Hedge!Through')
    BY HedgeCardinality, <2>2, <2>4 DEF HedgeStrong, Hedge!HedgeInv
  <2>5. finished' \in 0..Hedge!UseCount
    BY <2>f, ThroughFinitePrime
  <2>6. Hedge!TypeOK'
    BY <1>t, <1>c, <2>1, <2>4, <2>5 DEF Hedge!TypeOK
  <2>7. \A j \in Hedge!Selected : backend'[j] # "new" <=> j <= launched'
    BY <1>c, <2>4 DEF HedgeStrong, Hedge!HedgeInv
  <2>8. errors' = {j \in Hedge!Selected : backend'[j] = "failed"}
    BY <2>1, <2>4 DEF HedgeStrong, Hedge!HedgeInv
  <2>9. \A j \in Hedge!Selected : backend'[j] = "late" => winner' # Hedge!NoWinner
    BY <2>1, <2>4 DEF HedgeStrong, Hedge!HedgeInv
  <2>w. \A j \in Hedge!Selected : backend'[j] = "won" <=> j = winner'
    BY <2>1, <2>4 DEF HedgeStrong, Hedge!HedgeInv
  <2>10. Hedge!EventIsRight' /\ Hedge!FailsOnlyIfAllFail'
    BY <1>c, <2>1 DEF HedgeStrong, Hedge!HedgeInv, Hedge!EventIsRight,
       Hedge!FailsOnlyIfAllFail
  <2>11. Hedge!HedgeInv'
    BY <2>f, <2>6, <2>7, <2>8, <2>9, <2>w, <2>10, HedgeCardinality, Zenon DEF Hedge!HedgeInv
  <2> QED
    BY <1>c, <2>1, <2>11 DEF HedgeStrong
<1>4. CASE Hedge!Fail(i)
  <2>1. /\ Hedge!Move(i, "raised", "failed") /\ winner' = winner
        /\ errors' = errors \cup {i} /\ event' = (event \/ finished' >= Hedge!UseCount)
    BY <1>4 DEF Hedge!Fail
  <2>2. finished' = finished + 1
    BY <1>4 DEF Hedge!Fail
  <2>4. /\ Cardinality(Hedge!Through') = Cardinality(Hedge!Through) + 1
        /\ backend[i] = "raised" /\ backend'[i] = "failed"
        /\ \A j \in Hedge!Selected \ {i} : backend'[j] = backend[j]
        /\ backend' \in [Hedge!Selected -> Hedge!BackendPlace]
    BY <2>1, OneThrough
  <2>f. finished' = Cardinality(Hedge!Through')
    BY HedgeCardinality, <2>2, <2>4 DEF HedgeStrong, Hedge!HedgeInv
  <2>5. /\ finished' \in 0..Hedge!UseCount
        /\ finished' >= Hedge!UseCount => Hedge!Through' = Hedge!Selected
        /\ Hedge!Through' = Hedge!Selected => finished' >= Hedge!UseCount
    BY <2>f, ThroughFinitePrime, SelectedFinite
  <2>t. event' \in BOOLEAN /\ errors' \subseteq Hedge!Selected
    BY <1>t, <2>1 DEF Hedge!TypeOK
  <2>6. Hedge!TypeOK'
    BY <1>t, <1>c, <2>1, <2>4, <2>5, <2>t DEF Hedge!TypeOK
  <2>7. \A j \in Hedge!Selected : backend'[j] # "new" <=> j <= launched'
    BY <1>c, <2>4 DEF HedgeStrong, Hedge!HedgeInv
  <2>8. errors' = {j \in Hedge!Selected : backend'[j] = "failed"}
    BY <2>1, <2>4 DEF HedgeStrong, Hedge!HedgeInv
  <2>9. \A j \in Hedge!Selected : backend'[j] = "late" => winner' # Hedge!NoWinner
    BY <2>1, <2>4 DEF HedgeStrong, Hedge!HedgeInv
  <2>w. \A j \in Hedge!Selected : backend'[j] = "won" <=> j = winner'
    BY <2>1, <2>4 DEF HedgeStrong, Hedge!HedgeInv
  <2>a. Hedge!Through' = {j \in Hedge!Selected : backend'[j] \in {"won", "late", "failed"}}
    BY DEF Hedge!Through
  <2>b. finished' >= Hedge!UseCount => winner' # Hedge!NoWinner \/ errors' = Hedge!Selected
    <3> SUFFICES ASSUME finished' >= Hedge!UseCount, winner' = Hedge!NoWinner
                 PROVE  errors' = Hedge!Selected
      OBVIOUS
    <3>1. \A j \in Hedge!Selected : backend'[j] \in {"won", "late", "failed"}
      BY <2>5, <2>a
    <3>2. \A j \in Hedge!Selected : j # Hedge!NoWinner
      BY SelectedFinite DEF Hedge!NoWinner
    <3>3. ASSUME NEW j \in Hedge!Selected PROVE backend'[j] = "failed"
      BY <3>1, <3>2, <2>9, <2>w
    <3> QED
      BY <3>3, <2>8
  <2>c. errors' = Hedge!Selected => finished' >= Hedge!UseCount
    BY <2>5, <2>8, <2>a
  <2>d. /\ event => winner # Hedge!NoWinner \/ errors = Hedge!Selected
        /\ winner # Hedge!NoWinner \/ errors = Hedge!Selected => event
    BY DEF HedgeStrong, Hedge!HedgeInv, Hedge!EventIsRight
  <2>e. errors = Hedge!Selected => errors' = Hedge!Selected
    BY <2>1
  <2>10. Hedge!EventIsRight' /\ Hedge!FailsOnlyIfAllFail'
    BY <1>c, <2>1, <2>b, <2>c, <2>d, <2>e DEF HedgeStrong, Hedge!HedgeInv,
       Hedge!EventIsRight, Hedge!FailsOnlyIfAllFail
  <2>11. Hedge!HedgeInv'
    BY <2>f, <2>6, <2>7, <2>8, <2>9, <2>w, <2>10, HedgeCardinality, Zenon DEF Hedge!HedgeInv
  <2> QED
    BY <1>c, <2>1, <2>e, <2>11 DEF HedgeStrong
<1> QED
  BY <1>1, <1>2, <1>3, <1>4 DEF Hedge!Report

LEMMA HedgeStep == HedgeStrong /\ [Hedge!Next]_hedgeVars => HedgeStrong'
<1> SUFFICES ASSUME HedgeStrong, [Hedge!Next]_hedgeVars PROVE HedgeStrong'
  OBVIOUS
<1>t. Hedge!TypeOK
  BY DEF HedgeStrong, Hedge!HedgeInv
<1>1. CASE Hedge!Launch
  <2>1. /\ launched \in 0..(Hedge!UseCount - 1) /\ launched' = launched + 1
        /\ launched' \in Hedge!Selected /\ backend[launched'] = "new"
    BY <1>1, <1>t, SelectedFinite DEF Hedge!Launch, HedgeStrong, Hedge!HedgeInv, Hedge!TypeOK
  <2>2. /\ backend' = [backend EXCEPT ![launched'] = "running"]
        /\ UNCHANGED <<staggered, result, failures, timedOut, winner, errors, finished, event>>
    BY <1>1 DEF Hedge!Launch, Hedge!sharedVars
  <2>3. /\ backend' \in [Hedge!Selected -> Hedge!BackendPlace]
        /\ backend'[launched'] = "running"
        /\ \A j \in Hedge!Selected \ {launched'} : backend'[j] = backend[j]
    BY <1>t, <2>1, <2>2 DEF Hedge!TypeOK, Hedge!BackendPlace
  <2>4. /\ caller' \in {"waiting", "pausing", "launching"} /\ caller = "launching"
        /\ caller' \in {"pausing", "launching"} => launched' # Hedge!UseCount
    BY <1>1 DEF Hedge!Launch
  <2>5. Hedge!TypeOK'
    BY <1>t, <2>1, <2>2, <2>3, <2>4, SelectedFinite DEF Hedge!TypeOK, Hedge!CallerPlace
  <2>6. Hedge!Through' = Hedge!Through
    BY <2>1, <2>3 DEF Hedge!Through
  <2>f. finished' = Cardinality(Hedge!Through')
    BY HedgeCardinality, <2>2, <2>6 DEF HedgeStrong, Hedge!HedgeInv
  <2>7. \A i \in Hedge!Selected : backend'[i] # "new" <=> i <= launched'
    BY <2>1, <2>3, SelectedFinite DEF HedgeStrong, Hedge!HedgeInv
  <2>8. errors' = {i \in Hedge!Selected : backend'[i] = "failed"}
    BY <2>1, <2>2, <2>3 DEF HedgeStrong, Hedge!HedgeInv
  <2>9. \A i \in Hedge!Selected : backend'[i] = "late" => winner # Hedge!NoWinner
    BY <2>1, <2>2, <2>3 DEF HedgeStrong, Hedge!HedgeInv
  <2>w. \A i \in Hedge!Selected : backend'[i] = "won" <=> i = winner
    BY <2>1, <2>2, <2>3 DEF HedgeStrong, Hedge!HedgeInv
  <2>10. Hedge!EventIsRight' /\ Hedge!FailsOnlyIfAllFail'
    BY <2>2 DEF HedgeStrong, Hedge!HedgeInv, Hedge!EventIsRight, Hedge!FailsOnlyIfAllFail
  <2>11. Hedge!HedgeInv'
    BY <2>2, <2>5, <2>f, <2>7, <2>8, <2>9, <2>w, <2>10, HedgeCardinality, Zenon DEF Hedge!HedgeInv
  <2> QED
    BY <1>t, <2>1, <2>2, <2>4, <2>11, SelectedFinite DEF HedgeStrong, Hedge!TypeOK
<1>2. CASE Hedge!Resume
  <2>1. /\ caller = "pausing" /\ caller' \in {"waiting", "launching"}
        /\ UNCHANGED <<staggered, launched, result, failures, timedOut>>
        /\ UNCHANGED <<backend, winner, errors, finished, event>>
    BY <1>2 DEF Hedge!Resume, Hedge!sharedVars
  <2>2. /\ caller' \in Hedge!CallerPlace /\ failures' \in 0..1 /\ timedOut' \in BOOLEAN
        /\ result' \in Hedge!Selected \cup {Hedge!NoWinner, Hedge!Failed}
        /\ result' # Hedge!Failed
    BY <1>t, <2>1 DEF Hedge!CallerPlace, Hedge!TypeOK, HedgeStrong, Hedge!NoWinner, Hedge!Failed
  <2>3. Hedge!HedgeInv'
    BY <2>1, <2>2, CallerKeeps
  <2> QED
    BY <2>1, <2>3 DEF HedgeStrong
<1>3. CASE Hedge!Awake \/ Hedge!Expire
  <2>1. /\ timedOut' \in BOOLEAN /\ (~timedOut' => event) /\ caller = "waiting"
        /\ caller' = "checking" /\ UNCHANGED <<staggered, launched, result, failures>>
        /\ UNCHANGED <<backend, winner, errors, finished, event>>
    BY <1>3 DEF Hedge!Awake, Hedge!Expire, Hedge!Wait, Hedge!sharedVars
  <2>2. /\ caller' \in Hedge!CallerPlace /\ failures' \in 0..1
        /\ result' \in Hedge!Selected \cup {Hedge!NoWinner, Hedge!Failed}
        /\ result' # Hedge!Failed
    BY <1>t, <2>1 DEF Hedge!CallerPlace, Hedge!TypeOK, HedgeStrong, Hedge!NoWinner, Hedge!Failed
  <2>3. Hedge!HedgeInv'
    BY <2>1, <2>2, CallerKeeps
  <2> QED
    BY <2>1, <2>3 DEF HedgeStrong
<1>4. CASE Hedge!Check
  <2>1. /\ caller = "checking" /\ caller' \in {"done", "failing"}
        /\ caller' = "done" => winner # Hedge!NoWinner /\ result' = winner
        /\ caller' = "failing" => winner = Hedge!NoWinner /\ result' = result
        /\ UNCHANGED <<staggered, launched, failures, timedOut>>
        /\ UNCHANGED <<backend, winner, errors, finished, event>>
    BY <1>4 DEF Hedge!Check, Hedge!sharedVars
  <2>2. /\ result = Hedge!NoWinner /\ failures = 0 /\ result' # Hedge!Failed
        /\ result' \in Hedge!Selected \cup {Hedge!NoWinner, Hedge!Failed}
    BY <1>t, <2>1, SelectedFinite DEF HedgeStrong, Hedge!TypeOK, Hedge!NoWinner, Hedge!Failed
  <2>t. caller' \in Hedge!CallerPlace /\ failures' \in 0..1 /\ timedOut' \in BOOLEAN
    BY <1>t, <2>1 DEF Hedge!CallerPlace, Hedge!TypeOK
  <2>3. Hedge!HedgeInv'
    BY <2>1, <2>2, <2>t, CallerKeeps
  <2> QED
    BY <2>1, <2>2, <2>3 DEF HedgeStrong, Hedge!HedgeInv, Hedge!EventIsRight
<1>5. CASE Hedge!CountFailure
  <2>1. /\ caller = "failing" /\ caller' = "done" /\ result' = Hedge!Failed /\ failures' = 1
        /\ UNCHANGED <<staggered, launched, timedOut>>
        /\ UNCHANGED <<backend, winner, errors, finished, event>>
    BY <1>5 DEF Hedge!CountFailure, Hedge!sharedVars, HedgeStrong
  <2>t. /\ caller' \in Hedge!CallerPlace /\ failures' \in 0..1 /\ timedOut' \in BOOLEAN
        /\ ~timedOut' => errors = Hedge!Selected
    BY <1>t, <2>1 DEF Hedge!CallerPlace, Hedge!TypeOK, HedgeStrong
  <2>2. Hedge!HedgeInv'
    BY <2>1, <2>t, CallerKeeps
  <2> QED
    BY <2>1, <2>2 DEF HedgeStrong, Hedge!NoWinner, Hedge!Failed
<1>6. ASSUME NEW i \in Hedge!Selected, Hedge!Backend(i) PROVE HedgeStrong'
  BY <1>6, ThreadKeeps DEF Hedge!Backend
<1>7. CASE UNCHANGED hedgeVars
  BY <1>7 DEF hedgeVars, HedgeStrong, Hedge!HedgeInv, Hedge!TypeOK, Hedge!EventIsRight,
     Hedge!FailsOnlyIfAllFail, Hedge!Through
<1> QED
  BY <1>1, <1>2, <1>3, <1>4, <1>5, <1>6, <1>7 DEF Hedge!Next, Hedge!Caller

\* The event tells of a winner or of nothing left to wait for, finished_count counts each
\* thread once, and unless its time is up execute() fails only when every backend has
\* failed (hedged_request.py:101-146).
THEOREM HedgeIsRight == PartsSpec => []HedgeInv
<1> DEFINE Inv == part = "hedge" => HedgeStrong
<1>1. PartsInit => Inv
  BY HedgeInitial DEF PartsInit
<1>2. Inv /\ [PartsNext]_allVars => Inv'
  BY HedgeStep, StepOfPart
<1>3. Inv => HedgeInv
  BY DEF HedgeInv, HedgeStrong
<1>4. PartsSpec => PartsInit /\ [][PartsNext]_allVars
  BY PTL DEF PartsSpec
<1> HIDE DEF Inv
<1> QED
  BY <1>1, <1>2, <1>3, <1>4, PTL

LEMMA WinnerKept == HedgeStrong /\ [Hedge!Next]_hedgeVars => [Hedge!KeepsWinner]_hedgeVars
<1> SUFFICES ASSUME HedgeStrong, Hedge!Next PROVE Hedge!KeepsWinner
  OBVIOUS
<1>1. \A i \in Hedge!Selected : backend'[i] = "won" <=> i = winner'
  BY HedgeStep DEF HedgeStrong, Hedge!HedgeInv
<1>2. winner' \in Hedge!Selected \cup {Hedge!NoWinner}
  BY HedgeStep DEF HedgeStrong, Hedge!HedgeInv, Hedge!TypeOK
<1>3. winner # Hedge!NoWinner => winner' = winner
  BY DEF Hedge!Next, Hedge!Caller, Hedge!Backend, Hedge!Launch, Hedge!Resume, Hedge!Awake,
     Hedge!Expire, Hedge!Wait, Hedge!Check, Hedge!CountFailure, Hedge!Answer, Hedge!Report,
     Hedge!Win, Hedge!Lose, Hedge!Fail, Hedge!sharedVars
<1>4. result # Hedge!NoWinner => result' = result
  <2>1. result # Hedge!NoWinner => caller = "done"
    BY DEF HedgeStrong
  <2> QED
    BY <2>1 DEF Hedge!Next, Hedge!Caller, Hedge!Backend, Hedge!Launch, Hedge!Resume,
     Hedge!Awake, Hedge!Expire, Hedge!Wait, Hedge!Check, Hedge!CountFailure, Hedge!Answer,
     Hedge!Report, Hedge!Win, Hedge!Lose, Hedge!Fail, Hedge!callerVars
<1> QED
  BY <1>1, <1>2, <1>3, <1>4 DEF Hedge!KeepsWinner

\* An abandoned backend never takes the place of the winner, whose thread did succeed,
\* and what execute() returns is that winner for good (hedged_request.py:105-138).
THEOREM WinnerStays == PartsSpec => FirstWins
<1> DEFINE Inv == part = "hedge" => HedgeStrong
<1>1. PartsInit => Inv
  BY HedgeInitial DEF PartsInit
<1>2. Inv /\ [PartsNext]_allVars => Inv'
  BY HedgeStep, StepOfPart
<1>3. Inv /\ [PartsNext]_allVars => [Hedge!KeepsWinner]_hedgeVars
  BY WinnerKept, StepOfPart DEF PartsNext, allVars
<1>4. PartsSpec => PartsInit /\ [][PartsNext]_allVars
  BY PTL DEF PartsSpec
<1> HIDE DEF Inv
<1> QED
  BY <1>1, <1>2, <1>3, <1>4, PTL DEF FirstWins
-----------------------------------------------------------------------------
\* A record tells how its last run ended; a thread that is alone on its record has
\* counted a failure for every attempt, and the status is its own.
Tells(r) ==
  /\ last[r] = "bad" => record[r].status = "failed" /\ record[r].failures > MaxRetries
  /\ last[r] = "good" => record[r].status = "running" /\ record[r].failures = 0
  /\ last[r] = "none" => record[r].status = "idle" /\ record[r].failures = 0

Runs(t) == step[t] # "idle"

Alone(t) ==
  /\ \A u \in Threads : Runs(u) /\ mine[u] = mine[t] => u = t
  /\ record[mine[t]].failures >= attempt[t]
  /\ step[t] \in {"counted", "failed"} => record[mine[t]].failures > attempt[t]
  /\ step[t] = "calling" => record[mine[t]].status = "running"

Starting(r) == \E t \in Threads : step[t] = "starting" /\ mine[t] = r

HealingStrong ==
  /\ Heal!TypeOK
  /\ \A r \in Heal!Records : record[r].status = "recovering" => Starting(r)
  /\ \A r \in Heal!Records : Heal!Runners(r) = {} => Tells(r)
  /\ \A t \in Threads : Runs(t) /\ alone[t] => Alone(t)

LEMMA HealingImplies == HealingStrong => Heal!HealingInv
<1> SUFFICES ASSUME HealingStrong, NEW r \in Heal!Records, Heal!Runners(r) = {}
             PROVE  record[r].status # "recovering" /\ Tells(r)
  BY DEF HealingStrong, Heal!HealingInv, Tells
<1>1. ~Starting(r)
  BY DEF Starting, Heal!Runners
<1> QED
  BY <1>1 DEF HealingStrong

LEMMA HealingInitial == Heal!Init => HealingStrong
<1> SUFFICES ASSUME Heal!Init PROVE HealingStrong
  OBVIOUS
<1>1. MaxRetries \in Nat /\ MaxRecords \in Nat /\ MaxRuns \in Nat /\ MaxResets \in Nat
      /\ MaxRecords # 0
  BY PartsAssumption DEF Heal!HealingAssumption
<1>2. Heal!NewRecord \in Heal!Record
  BY DEF Heal!NewRecord, Heal!Record
<1>3. Heal!TypeOK
  BY <1>1, <1>2 DEF Heal!Init, Heal!TypeOK, Heal!Records
<1>4. \A r \in Heal!Records : record[r].status = "idle" /\ Tells(r)
  BY DEF Heal!Init, Heal!NewRecord, Tells
<1>5. \A t \in Threads : ~Runs(t)
  BY DEF Heal!Init, Runs
<1> QED
  BY <1>3, <1>4, <1>5 DEF HealingStrong

\* A thread that goes on touches its own record only: another thread that is alone
\* works on another record.
LEMMA ThreadMoves ==
  ASSUME HealingStrong, NEW t \in Threads, Runs(t),
         NEW to \in {"idle", "starting", "calling", "counted", "failed"},
         Heal!Goto(t, to), UNCHANGED <<registered, made, mine, alone, runs, resets>>,
         NEW rec \in Heal!Record, record' = [record EXCEPT ![mine[t]] = rec],
         attempt' \in [Threads -> 0..MaxRetries],
         \A u \in Threads \ {t} : attempt'[u] = attempt[u],
         last' \in [Heal!Records -> {"none", "good", "bad", "mixed"}],
         \A r \in Heal!Records \ {mine[t]} : last'[r] = last[r],
         rec.status = "recovering" =>
           \/ to = "starting"
           \/ step[t] # "starting" /\ record[mine[t]].status = "recovering",
         to = "idle" => Tells(mine[t])',
         to # "idle" /\ alone[t] =>
           /\ rec.failures >= attempt'[t]
           /\ to \in {"counted", "failed"} => rec.failures > attempt'[t]
           /\ to = "calling" => rec.status = "running"
  PROVE  HealingStrong'
<1>t. Heal!TypeOK
  BY DEF HealingStrong
<1>1. /\ step'[t] = to /\ \A u \in Threads \ {t} : step'[u] = step[u]
      /\ step' \in [Threads -> {"idle", "starting", "calling", "counted", "failed"}]
  BY <1>t DEF Heal!Goto, Heal!TypeOK
<1>2. /\ mine[t] \in Heal!Records /\ record'[mine[t]] = rec
      /\ record' \in [Heal!Records -> Heal!Record]
      /\ \A r \in Heal!Records \ {mine[t]} : record'[r] = record[r]
  BY <1>t DEF Heal!TypeOK
<1>3. Heal!TypeOK'
  BY <1>t, <1>1, <1>2 DEF Heal!TypeOK
<1>4. ASSUME NEW r \in Heal!Records, record'[r].status = "recovering" PROVE Starting(r)'
  <2>1. CASE r = mine[t] /\ to = "starting"
    BY <1>1, <2>1 DEF Starting
  <2>2. CASE record[r].status = "recovering" /\ (r = mine[t] => step[t] # "starting")
    <3>1. PICK u \in Threads : step[u] = "starting" /\ mine[u] = r
      BY <2>2 DEF HealingStrong, Starting
    <3> QED
      BY <1>1, <2>2, <3>1 DEF Starting
  <2> QED
    BY <1>2, <1>4, <2>1, <2>2
<1>5. ASSUME NEW r \in Heal!Records, Heal!Runners(r)' = {} PROVE Tells(r)'
  <2>1. CASE r = mine[t]
    <3>1. to = "idle"
      BY <1>1, <1>5, <2>1 DEF Heal!Runners
    <3> QED
      BY <2>1, <3>1
  <2>2. CASE r # mine[t]
    <3>1. Heal!Runners(r) = {}
      BY <1>1, <1>5, <2>2 DEF Heal!Runners
    <3>2. Tells(r)
      BY <3>1 DEF HealingStrong
    <3> QED
      BY <1>2, <2>2, <3>2 DEF Tells
  <2> QED
    BY <2>1, <2>2
<1>6. ASSUME NEW u \in Threads, Runs(u)', alone'[u] PROVE Alone(u)'
  <2>1. CASE u = t
    <3>1. Alone(t)
      BY <1>6, <2>1 DEF HealingStrong
    <3>2. to # "idle" /\ alone[t]
      BY <1>1, <1>6, <2>1 DEF Runs
    <3>3. ASSUME NEW v \in Threads, Runs(v)', mine[v] = mine[t] PROVE v = t
      BY <1>1, <3>1, <3>3 DEF Alone, Runs
    <3> QED
      BY <1>1, <1>2, <2>1, <3>2, <3>3 DEF Alone
  <2>2. CASE u # t
    <3>1. Alone(u)
      BY <1>1, <1>6, <2>2 DEF HealingStrong, Runs
    <3>2. mine[u] # mine[t] /\ mine[u] \in Heal!Records
      BY <1>t, <2>2, <3>1 DEF Alone, Heal!TypeOK
    <3>3. ASSUME NEW v \in Threads, Runs(v)', mine[v] = mine[u] PROVE v = u
      BY <1>1, <3>1, <3>2, <3>3 DEF Alone, Runs
    <3> QED
      BY <1>1, <1>2, <2>2, <3>1, <3>2, <3>3 DEF Alone
  <2> QED
    BY <2>1, <2>2
<1> QED
  BY <1>3, <1>4, <1>5, <1>6 DEF HealingStrong

\* Of a record in which two fields are set.
LEMMA TwoFields ==
  ASSUME NEW old \in Heal!Record
  PROVE  /\ LET rec == [old EXCEPT !.status = "recovering", !.recoveries = @ + 1]
            IN  rec \in Heal!Record /\ rec.status = "recovering" /\ rec.failures = old.failures
         /\ LET rec == [old EXCEPT !.runs = @ + 1, !.failures = 0]
            IN  rec \in Heal!Record /\ rec.status = old.status /\ rec.failures = 0
         /\ LET rec == [old EXCEPT !.status = "idle", !.failures = 0]
            IN  rec \in Heal!Record /\ rec.status = "idle" /\ rec.failures = 0
<1>1. \A r \in Heal!Record, s \in {"recovering", "idle"} :
        /\ [r EXCEPT !.status = s] \in Heal!Record
        /\ [r EXCEPT !.status = s].status = s
        /\ [r EXCEPT !.status = s].failures = r.failures
        /\ [r EXCEPT !.status = s].recoveries = r.recoveries
  BY DEF Heal!Record
<1>2. \A r \in Heal!Record :
        /\ [r EXCEPT !.recoveries = @ + 1] \in Heal!Record
        /\ [r EXCEPT !.recoveries = @ + 1].status = r.status
        /\ [r EXCEPT !.recoveries = @ + 1].failures = r.failures
  BY DEF Heal!Record
<1>3. \A r \in Heal!Record :
        /\ [r EXCEPT !.runs = @ + 1] \in Heal!Record
        /\ [r EXCEPT !.runs = @ + 1].status = r.status
        /\ [r EXCEPT !.runs = @ + 1].failures = r.failures
  BY DEF Heal!Record
<1>4. \A r \in Heal!Record :
        /\ [r EXCEPT !.failures = 0] \in Heal!Record
        /\ [r EXCEPT !.failures = 0].status = r.status
        /\ [r EXCEPT !.failures = 0].failures = 0
  BY DEF Heal!Record
<1> DEFINE mid(s) == [old EXCEPT !.status = s]
           ran == [old EXCEPT !.runs = @ + 1]
<1>5. LET rec == [mid("recovering") EXCEPT !.recoveries = @ + 1]
      IN  rec \in Heal!Record /\ rec.status = "recovering" /\ rec.failures = old.failures
  <2>1. /\ mid("recovering") \in Heal!Record /\ mid("recovering").status = "recovering"
        /\ mid("recovering").failures = old.failures
    BY <1>1
  <2> HIDE DEF mid
  <2> QED
    BY <1>2, <2>1
<1>6. LET rec == [ran EXCEPT !.failures = 0]
      IN  rec \in Heal!Record /\ rec.status = old.status /\ rec.failures = 0
  <2>1. ran \in Heal!Record /\ ran.status = old.status
    BY <1>3
  <2> HIDE DEF ran
  <2> QED
    BY <1>4, <2>1
<1>7. LET rec == [mid("idle") EXCEPT !.failures = 0]
      IN  rec \in Heal!Record /\ rec.status = "idle" /\ rec.failures = 0
  <2>1. mid("idle") \in Heal!Record /\ mid("idle").status = "idle"
    BY <1>1
  <2> HIDE DEF mid
  <2> QED
    BY <1>4, <2>1
<1> QED
  BY <1>5, <1>6, <1>7, Zenon

LEMMA ProceedKeeps ==
  ASSUME HealingStrong, NEW t \in Threads, Heal!Proceed(t)
  PROVE  HealingStrong'
<1>t. Heal!TypeOK /\ MaxRetries \in Nat
  BY PartsAssumption DEF HealingStrong, Heal!HealingAssumption
<1>0. /\ mine[t] \in Heal!Records /\ record[mine[t]] \in Heal!Record
      /\ attempt[t] \in 0..MaxRetries /\ alone[t] \in BOOLEAN
  BY <1>t DEF Heal!TypeOK
<1> DEFINE old == record[mine[t]]
<1>r. old.failures \in Nat /\ old.recoveries \in Nat /\ old.runs \in Nat
      /\ old.status \in {"idle", "running", "failed", "recovering"}
  BY <1>0 DEF Heal!Record
<1>a. Runs(t) /\ alone[t] => Alone(t)
  BY DEF HealingStrong
<1>1. CASE Heal!Attempt(t)
  <2> DEFINE rec == [old EXCEPT !.status = "running"]
  <2>1. /\ rec \in Heal!Record /\ rec.status = "running" /\ rec.failures = old.failures
        /\ record' = [record EXCEPT ![mine[t]] = rec]
    BY <1>0, <1>1, <1>t DEF Heal!Attempt, Heal!Record, Heal!TypeOK
  <2>2. Runs(t) /\ Heal!Goto(t, "calling") /\ step[t] = "starting"
    BY <1>1 DEF Heal!Attempt, Runs
  <2>3. UNCHANGED <<registered, made, mine, attempt, alone, last, runs, resets>>
    BY <1>1 DEF Heal!Attempt
  <2>4. alone[t] => rec.failures >= attempt'[t]
    BY <1>a, <2>1, <2>2, <2>3 DEF Alone
  <2>5. /\ attempt' \in [Threads -> 0..MaxRetries]
        /\ last' \in [Heal!Records -> {"none", "good", "bad", "mixed"}]
    BY <1>t, <2>3 DEF Heal!TypeOK
  <2> HIDE DEF rec
  <2> QED
    BY <2>1, <2>2, <2>3, <2>4, <2>5, ThreadMoves
<1>2. CASE Heal!Succeed(t)
  <2> DEFINE rec == Heal!Cleared(old)
  <2>a. record' = [record EXCEPT ![mine[t]] = rec]
    BY <1>2 DEF Heal!Succeed
  <2>1. rec \in Heal!Record /\ rec.status = old.status /\ rec.failures = 0
    BY <1>0, TwoFields DEF Heal!Cleared
  <2>2. Runs(t) /\ Heal!Goto(t, "idle") /\ step[t] = "calling"
    BY <1>2 DEF Heal!Succeed, Runs
  <2>3. UNCHANGED <<registered, made, mine, attempt, alone, runs, resets>>
    BY <1>2 DEF Heal!Succeed
  <2>4. last' = [last EXCEPT ![mine[t]] = IF alone[t] THEN "good" ELSE "mixed"]
    BY <1>2 DEF Heal!Succeed, Heal!End
  <2>5. /\ attempt' \in [Threads -> 0..MaxRetries]
        /\ last' \in [Heal!Records -> {"none", "good", "bad", "mixed"}]
        /\ \A r \in Heal!Records \ {mine[t]} : last'[r] = last[r]
        /\ last'[mine[t]] = IF alone[t] THEN "good" ELSE "mixed"
    BY <1>t, <1>0, <2>3, <2>4 DEF Heal!TypeOK
  <2>6. record'[mine[t]] = rec
    BY <1>t, <1>0, <2>a DEF Heal!TypeOK
  <2>7. alone[t] => old.status = "running"
    BY <1>a, <2>2 DEF Alone
  <2>8. Tells(mine[t])'
    BY <2>1, <2>3, <2>5, <2>6, <2>7 DEF Tells
  <2> HIDE DEF rec
  <2> QED
    BY <2>a, <2>1, <2>2, <2>3, <2>5, <2>8, ThreadMoves
<1>3. CASE Heal!Fail(t)
  <2> DEFINE rec == [old EXCEPT !.failures = @ + 1]
  <2>1. /\ rec \in Heal!Record /\ rec.status = old.status /\ rec.failures = old.failures + 1
        /\ record' = [record EXCEPT ![mine[t]] = rec]
    BY <1>0, <1>3, <1>t, <1>r DEF Heal!Fail, Heal!Record, Heal!TypeOK
  <2>2. Runs(t) /\ Heal!Goto(t, "counted") /\ step[t] = "calling"
    BY <1>3 DEF Heal!Fail, Runs
  <2>3. UNCHANGED <<registered, made, mine, attempt, alone, last, runs, resets>>
    BY <1>3 DEF Heal!Fail
  <2>4. alone[t] => rec.failures > attempt'[t]
    BY <1>a, <1>r, <1>0, <1>t, <2>1, <2>2, <2>3 DEF Alone
  <2>5. /\ attempt' \in [Threads -> 0..MaxRetries]
        /\ last' \in [Heal!Records -> {"none", "good", "bad", "mixed"}]
    BY <1>t, <2>3 DEF Heal!TypeOK
  <2>6. alone[t] => rec.failures >= attempt'[t]
    BY <1>r, <1>0, <1>t, <2>1, <2>3, <2>4
  <2> HIDE DEF rec
  <2> QED
    BY <2>1, <2>2, <2>3, <2>4, <2>5, <2>6, ThreadMoves
<1>4. CASE Heal!MarkFailed(t)
  <2> DEFINE rec == [old EXCEPT !.status = "failed"]
  <2>1. /\ rec \in Heal!Record /\ rec.status = "failed" /\ rec.failures = old.failures
        /\ record' = [record EXCEPT ![mine[t]] = rec]
    BY <1>0, <1>4, <1>t, <1>r DEF Heal!MarkFailed, Heal!Record, Heal!TypeOK
  <2>2. Runs(t) /\ Heal!Goto(t, "failed") /\ step[t] = "counted"
    BY <1>4 DEF Heal!MarkFailed, Runs
  <2>3. UNCHANGED <<registered, made, mine, attempt, alone, last, runs, resets>>
    BY <1>4 DEF Heal!MarkFailed
  <2>4. alone[t] => rec.failures >= attempt'[t] /\ rec.failures > attempt'[t]
    BY <1>a, <2>1, <2>2, <2>3 DEF Alone
  <2>5. /\ attempt' \in [Threads -> 0..MaxRetries]
        /\ last' \in [Heal!Records -> {"none", "good", "bad", "mixed"}]
    BY <1>t, <2>3 DEF Heal!TypeOK
  <2> HIDE DEF rec
  <2> QED
    BY <2>1, <2>2, <2>3, <2>4, <2>5, ThreadMoves
<1>5. CASE Heal!Recover(t)
  <2> DEFINE rec == [old EXCEPT !.status = "recovering", !.recoveries = @ + 1]
  <2>a. record' = [record EXCEPT ![mine[t]].status = "recovering",
                                 ![mine[t]].recoveries = @ + 1]
    BY <1>5 DEF Heal!Recover
  <2>b. rec \in Heal!Record /\ rec.status = "recovering" /\ rec.failures = old.failures
    BY <1>0, TwoFields
  <2>c. record' = [record EXCEPT ![mine[t]] = rec]
    BY <1>0, <1>t, <1>r, <2>a DEF Heal!Record, Heal!TypeOK
  <2>1. /\ rec \in Heal!Record /\ rec.status = "recovering" /\ rec.failures = old.failures
        /\ record' = [record EXCEPT ![mine[t]] = rec]
    BY <2>b, <2>c
  <2>2. /\ Runs(t) /\ Heal!Goto(t, "starting") /\ step[t] = "failed"
        /\ attempt[t] < MaxRetries /\ attempt' = [attempt EXCEPT ![t] = @ + 1]
    BY <1>5 DEF Heal!Recover, Runs
  <2>3. UNCHANGED <<registered, made, mine, alone, last, runs, resets>>
    BY <1>5 DEF Heal!Recover
  <2>4. /\ attempt' \in [Threads -> 0..MaxRetries] /\ attempt'[t] = attempt[t] + 1
        /\ \A u \in Threads \ {t} : attempt'[u] = attempt[u]
        /\ last' \in [Heal!Records -> {"none", "good", "bad", "mixed"}]
    BY <1>t, <1>0, <2>2, <2>3 DEF Heal!TypeOK
  <2>5. alone[t] => rec.failures >= attempt'[t]
    BY <1>a, <1>r, <1>0, <1>t, <2>1, <2>2, <2>4 DEF Alone
  <2> HIDE DEF rec
  <2> QED
    BY <2>1, <2>2, <2>3, <2>4, <2>5, ThreadMoves
<1>6. CASE Heal!GiveUp(t)
  <2> DEFINE rec == [old EXCEPT !.status = "failed"]
  <2>1. /\ rec \in Heal!Record /\ rec.status = "failed" /\ rec.failures = old.failures
        /\ record' = [record EXCEPT ![mine[t]] = rec]
    BY <1>0, <1>6, <1>t, <1>r DEF Heal!GiveUp, Heal!Record, Heal!TypeOK
  <2>2. Runs(t) /\ Heal!Goto(t, "idle") /\ step[t] = "failed" /\ attempt[t] = MaxRetries
    BY <1>6 DEF Heal!GiveUp, Runs
  <2>3. UNCHANGED <<registered, made, mine, attempt, alone, runs, resets>>
    BY <1>6 DEF Heal!GiveUp
  <2>4. last' = [last EXCEPT ![mine[t]] = IF alone[t] THEN "bad" ELSE "mixed"]
    BY <1>6 DEF Heal!GiveUp, Heal!End
  <2>5. /\ attempt' \in [Threads -> 0..MaxRetries]
        /\ last' \in [Heal!Records -> {"none", "good", "bad", "mixed"}]
        /\ \A r \in Heal!Records \ {mine[t]} : last'[r] = last[r]
        /\ last'[mine[t]] = IF alone[t] THEN "bad" ELSE "mixed"
    BY <1>t, <1>0, <2>3, <2>4 DEF Heal!TypeOK
  <2>6. record'[mine[t]] = rec
    BY <1>t, <1>0, <2>1 DEF Heal!TypeOK
  <2>7. alone[t] => rec.failures > MaxRetries
    BY <1>a, <2>1, <2>2 DEF Alone
  <2>8. Tells(mine[t])'
    BY <2>1, <2>3, <2>5, <2>6, <2>7 DEF Tells
  <2> HIDE DEF rec
  <2> QED
    BY <2>1, <2>2, <2>3, <2>5, <2>8, ThreadMoves
<1> QED
  BY <1>1, <1>2, <1>3, <1>4, <1>5, <1>6 DEF Heal!Proceed

LEMMA HealingStep == HealingStrong /\ [Heal!Next]_healingVars => HealingStrong'
<1> SUFFICES ASSUME HealingStrong, [Heal!Next]_healingVars PROVE HealingStrong'
  OBVIOUS
<1>t. Heal!TypeOK
  BY DEF HealingStrong
<1>n. {MaxRetries, MaxRecords, MaxRuns, MaxResets} \subseteq Nat
  BY PartsAssumption DEF Heal!HealingAssumption
<1>r. registered # 0 => registered \in Heal!Records
  BY <1>t, <1>n DEF Heal!TypeOK, Heal!Records
<1>1. CASE Heal!Register \/ Heal!Unregister
  <2>1. UNCHANGED <<record, step, mine, attempt, alone, last, runs, resets>>
    BY <1>1 DEF Heal!Register, Heal!Unregister
  <2>2. registered' \in 0..made' /\ made' \in 0..MaxRecords
    BY <1>1, <1>t, <1>n DEF Heal!Register, Heal!Unregister, Heal!TypeOK
  <2>3. Heal!TypeOK'
    BY <1>t, <2>1, <2>2 DEF Heal!TypeOK
  <2> QED
    BY <2>1, <2>3 DEF HealingStrong, Starting, Tells, Heal!Runners, Runs, Alone
<1>2. CASE Heal!Reset
  <2> DEFINE old == record[registered]
             rec == [old EXCEPT !.status = "idle", !.failures = 0]
  <2>0. registered \in Heal!Records /\ old \in Heal!Record
    BY <1>2, <1>r, <1>t DEF Heal!Reset, Heal!TypeOK
  <2>1. /\ rec \in Heal!Record /\ rec.status = "idle" /\ rec.failures = 0
        /\ record' = [record EXCEPT ![registered] = rec]
    BY <1>2, <1>t, <2>0 DEF Heal!Reset, Heal!TypeOK, Heal!Record
  <2> HIDE DEF rec
  <2>2. /\ UNCHANGED <<registered, made, step, mine, attempt, runs>>
        /\ resets' \in 0..MaxResets
    BY <1>2, <1>t, <1>n DEF Heal!Reset, Heal!TypeOK
  <2>3. /\ record' \in [Heal!Records -> Heal!Record] /\ record'[registered] = rec
        /\ \A r \in Heal!Records \ {registered} : record'[r] = record[r]
    BY <1>t, <2>0, <2>1 DEF Heal!TypeOK
  <2>4. last' = [last EXCEPT ![registered] =
                   IF Heal!Runners(registered) = {} THEN "none" ELSE "mixed"]
    BY <1>2 DEF Heal!Reset
  <2>5. /\ last' \in [Heal!Records -> {"none", "good", "bad", "mixed"}]
        /\ last'[registered] \in {"none", "mixed"}
        /\ \A r \in Heal!Records \ {registered} : last'[r] = last[r]
    BY <1>t, <2>0, <2>4 DEF Heal!TypeOK
  <2>6. /\ alone' \in [Threads -> BOOLEAN]
        /\ \A t \in Threads : alone'[t] => alone[t] /\ mine[t] # registered
    BY <1>2, <1>t DEF Heal!Reset, Heal!Disturb, Heal!TypeOK
  <2>7. Heal!TypeOK'
    BY <1>t, <2>2, <2>3, <2>5, <2>6 DEF Heal!TypeOK
  <2>8. ASSUME NEW r \in Heal!Records, record'[r].status = "recovering" PROVE Starting(r)'
    BY <2>1, <2>2, <2>3, <2>8 DEF HealingStrong, Starting
  <2>9. ASSUME NEW r \in Heal!Records, Heal!Runners(r)' = {} PROVE Tells(r)'
    <3>1. Heal!Runners(r) = {}
      BY <2>2, <2>9 DEF Heal!Runners
    <3>2. Tells(r)
      BY <3>1 DEF HealingStrong
    <3> QED
      BY <2>1, <2>3, <2>5, <3>2 DEF Tells
  <2>10. ASSUME NEW t \in Threads, Runs(t)', alone'[t] PROVE Alone(t)'
    <3>1. Alone(t) /\ mine[t] \in Heal!Records \ {registered}
      BY <1>t, <2>2, <2>6, <2>10 DEF HealingStrong, Runs, Heal!TypeOK
    <3> QED
      BY <2>2, <2>3, <3>1 DEF Alone, Runs
  <2> QED
    BY <2>7, <2>8, <2>9, <2>10 DEF HealingStrong
<1>3. ASSUME NEW t \in Threads, Heal!Begin(t) PROVE HealingStrong'
  <2>1. /\ step[t] = "idle" /\ registered \in Heal!Records /\ runs' \in 0..MaxRuns
        /\ UNCHANGED <<registered, made, record, last, resets>>
    BY <1>3, <1>r, <1>t, <1>n DEF Heal!Begin, Heal!TypeOK
  <2>2. /\ step' = [step EXCEPT ![t] = "starting"]
        /\ mine' = [mine EXCEPT ![t] = registered] /\ attempt' = [attempt EXCEPT ![t] = 0]
        /\ alone' = [u \in Threads |-> IF u = t THEN Heal!Runners(registered) = {}
                                       ELSE alone[u] /\ mine[u] # registered]
    BY <1>3 DEF Heal!Begin, Heal!Goto
  <2>3. /\ step' \in [Threads -> {"idle", "starting", "calling", "counted", "failed"}]
        /\ step'[t] = "starting" /\ \A u \in Threads \ {t} : step'[u] = step[u]
    BY <1>t, <2>2 DEF Heal!TypeOK
  <2>4. /\ mine' \in [Threads -> Heal!Records] /\ mine'[t] = registered
        /\ \A u \in Threads \ {t} : mine'[u] = mine[u]
    BY <1>t, <2>1, <2>2 DEF Heal!TypeOK
  <2>5. /\ attempt' \in [Threads -> 0..MaxRetries] /\ attempt'[t] = 0
        /\ \A u \in Threads \ {t} : attempt'[u] = attempt[u]
    BY <1>t, <1>n, <2>2 DEF Heal!TypeOK
  <2>6. alone' \in [Threads -> BOOLEAN]
    BY <1>t, <2>2 DEF Heal!TypeOK
  <2>7. /\ alone'[t] => Heal!Runners(registered) = {}
        /\ \A u \in Threads \ {t} : alone'[u] => alone[u] /\ mine[u] # registered
    BY <2>2
  <2>8. Heal!TypeOK'
    BY <1>t, <2>1, <2>3, <2>4, <2>5, <2>6 DEF Heal!TypeOK
  <2>9. ASSUME NEW r \in Heal!Records, record'[r].status = "recovering" PROVE Starting(r)'
    <3>1. PICK u \in Threads : step[u] = "starting" /\ mine[u] = r
      BY <2>1, <2>9 DEF HealingStrong, Starting
    <3> QED
      BY <2>1, <2>3, <2>4, <3>1 DEF Starting
  <2>10. ASSUME NEW r \in Heal!Records, Heal!Runners(r)' = {} PROVE Tells(r)'
    <3>1. Heal!Runners(r) = {}
      BY <2>1, <2>3, <2>4, <2>10 DEF Heal!Runners
    <3> QED
      BY <2>1, <3>1 DEF HealingStrong, Tells
  <2>11. ASSUME NEW u \in Threads, Runs(u)', alone'[u] PROVE Alone(u)'
    <3>1. CASE u = t
      <4>1. \A v \in Threads : Runs(v)' /\ mine'[v] = mine'[u] => v = u
        BY <2>3, <2>4, <2>7, <2>11, <3>1 DEF Heal!Runners, Runs
      <4>2. record[registered].failures \in Nat
        BY <1>t, <2>1 DEF Heal!TypeOK, Heal!Record
      <4> QED
        BY <2>1, <2>3, <2>4, <2>5, <3>1, <4>1, <4>2 DEF Alone
    <3>2. CASE u # t
      <4>1. Alone(u) /\ mine[u] # registered
        BY <2>3, <2>7, <2>11, <3>2 DEF HealingStrong, Runs
      <4>2. \A v \in Threads : Runs(v)' /\ mine'[v] = mine'[u] => v = u
        BY <2>3, <2>4, <3>2, <4>1 DEF Alone, Runs
      <4> QED
        BY <2>1, <2>3, <2>4, <2>5, <3>2, <4>1, <4>2 DEF Alone
    <3> QED
      BY <3>1, <3>2
  <2> QED
    BY <2>8, <2>9, <2>10, <2>11 DEF HealingStrong
<1>4. ASSUME NEW t \in Threads, Heal!Proceed(t) PROVE HealingStrong'
  BY <1>4, ProceedKeeps
<1>5. CASE UNCHANGED healingVars
  BY <1>5 DEF healingVars, HealingStrong, Heal!TypeOK, Starting, Tells, Heal!Runners, Runs,
     Alone
<1> QED
  BY <1>1, <1>2, <1>3, <1>4, <1>5 DEF Heal!Next

\* A record nobody works on is not left recovering, and after a run that had it to itself
\* it tells how that run ended, though others register, unregister, reset and run the same
\* collector meanwhile (self_healing.py:62-142).
THEOREM RecordsTell == PartsSpec => []HealingInv
<1> DEFINE Inv == part = "healing" => HealingStrong
<1>1. PartsInit => Inv
  BY HealingInitial DEF PartsInit
<1>2. Inv /\ [PartsNext]_allVars => Inv'
  BY HealingStep, StepOfPart
<1>3. Inv => HealingInv
  BY HealingImplies DEF HealingInv
<1>4. PartsSpec => PartsInit /\ [][PartsNext]_allVars
  BY PTL DEF PartsSpec
<1> HIDE DEF Inv
<1> QED
  BY <1>1, <1>2, <1>3, <1>4, PTL
-----------------------------------------------------------------------------
\* While check_all() runs, the entries before its position are in the results, which are
\* no more than the dict had entries when it began, and a result is what its check's
\* criticality allows.
HealthStrong ==
  /\ Health!TypeOK /\ loop \in [pos : Nat, size : Nat]
  /\ \A i \in DOMAIN results :
       results[i][2] \in {"healthy", Health!FailStatus(results[i][1])}
  /\ Health!Running =>
       /\ overall = "none" /\ loop.pos \in 1..(Len(entries) + 1)
       /\ Len(results) <= loop.size /\ stable \subseteq Health!Live
       /\ \A i \in 1..(loop.pos - 1) :
            entries[i] # Health!Gap => \E j \in DOMAIN results : results[j][1] = entries[i]
  /\ Health!ReportInv

LEMMA HealthSets ==
  /\ \A S : Health!Cardinality(S) = Cardinality(S)
  /\ \A s : Health!Range(s) = {s[i] : i \in DOMAIN s}
<1>1. \A S : Health!Cardinality(S) = Cardinality(S)
  BY DEF Health!Cardinality, Cardinality
<1> QED
  BY <1>1 DEF Health!Range

LEMMA LiveFinite ==
  ASSUME HealthStrong
  PROVE  IsFiniteSet(Health!Live) /\ Cardinality(Health!Live) \in Nat
<1>1. entries \in Seq(Checks \cup {Health!Gap})
  BY DEF HealthStrong, Health!TypeOK
<1>2. Len(entries) \in Nat /\ DOMAIN entries = 1..Len(entries)
      /\ entries = [i \in 1..Len(entries) |-> entries[i]]
  BY <1>1
<1>3. IsFiniteSet({entries[i] : i \in 1..Len(entries)})
  BY <1>2, SequenceSet
<1>4. Health!Live \subseteq {entries[i] : i \in 1..Len(entries)}
  BY <1>2, HealthSets DEF Health!Live
<1> QED
  BY <1>3, <1>4, FS_Subset, FS_CardinalityType

LEMMA HealthInitial == Health!Init => HealthStrong
  BY DEF Health!Init, HealthStrong, Health!TypeOK, Health!Idle, Health!Running,
     Health!ReportInv, Health!Statuses

\* The dict may change while the results stay: what has been visited stays visited.
LEMMA DictChanges ==
  ASSUME HealthStrong, entries' \in Seq(Checks \cup {Health!Gap}),
         Len(entries') >= Len(entries),
         \A i \in 1..Len(entries) : entries'[i] \in {entries[i], Health!Gap},
         UNCHANGED <<loop, results, overall>>, stable' \subseteq stable,
         stable' \cap Health!Live \subseteq Health!Live'
  PROVE  HealthStrong'
<1>t. Health!TypeOK /\ loop \in [pos : Nat, size : Nat]
  BY DEF HealthStrong
<1>1. Health!TypeOK'
  BY <1>t DEF Health!TypeOK
<1>2. Health!ReportInv'
  BY <1>1, HealthSets DEF HealthStrong, Health!ReportInv
<1>3. ASSUME Health!Running
      PROVE  /\ overall = "none" /\ loop.pos \in 1..(Len(entries') + 1)
             /\ Len(results) <= loop.size /\ stable' \subseteq Health!Live'
             /\ \A i \in 1..(loop.pos - 1) : entries'[i] # Health!Gap =>
                  \E j \in DOMAIN results : results[j][1] = entries'[i]
  <2>1. /\ overall = "none" /\ loop.pos \in 1..(Len(entries) + 1)
        /\ Len(results) <= loop.size /\ stable \subseteq Health!Live
        /\ \A i \in 1..(loop.pos - 1) :
             entries[i] # Health!Gap => \E j \in DOMAIN results : results[j][1] = entries[i]
    BY <1>3 DEF HealthStrong
  <2>2. Len(entries) \in Nat /\ Len(entries') \in Nat
    BY <1>t DEF Health!TypeOK
  <2>3. ASSUME NEW i \in 1..(loop.pos - 1), entries'[i] # Health!Gap
        PROVE  entries'[i] = entries[i]
    BY <2>1, <2>2, <2>3
  <2> QED
    BY <2>1, <2>2, <2>3
<1>4. Health!Running' <=> Health!Running
  BY DEF Health!Running, Health!Idle
<1> QED
  BY <1>t, <1>1, <1>2, <1>3, <1>4 DEF HealthStrong, Health!FailStatus

\* At the end of an undisturbed loop every live check has exactly one result.
LEMMA AllVisited ==
  ASSUME HealthStrong, Health!Running, ~Health!Changed, Health!AtEnd
  PROVE  /\ \A c \in Health!Live : \E j \in DOMAIN results : results[j][1] = c
         /\ \A i, j \in DOMAIN results : i # j => results[i][1] # results[j][1]
<1>t. /\ entries \in Seq(Checks \cup {Health!Gap}) /\ results \in Seq(Checks \X Health!Statuses)
      /\ loop \in [pos : Nat, size : Nat]
  BY DEF HealthStrong, Health!TypeOK
<1>l. Len(entries) \in Nat /\ Len(results) \in Nat /\ DOMAIN results = 1..Len(results)
      /\ DOMAIN entries = 1..Len(entries) /\ loop.pos \in Nat /\ loop.size \in Nat
  BY <1>t
<1>1. ASSUME NEW c \in Health!Live PROVE \E j \in DOMAIN results : results[j][1] = c
  <2>1. PICK i \in DOMAIN entries : entries[i] = c /\ c # Health!Gap
    BY HealthSets DEF Health!Live
  <2>2. i \in 1..(loop.pos - 1)
    BY <1>l, <2>1 DEF Health!AtEnd
  <2> QED
    BY <2>1, <2>2 DEF HealthStrong
<1> DEFINE n == Len(results)
           f == [i \in 1..n |-> results[i][1]]
           S == {f[i] : i \in 1..n}
<1>2. /\ IsFiniteSet(S) /\ Cardinality(S) \in Nat /\ Cardinality(S) <= n
      /\ Cardinality(S) = n => \A i, j \in 1..n : i # j => f[i] # f[j]
  <2>1. DOMAIN f = 1..n /\ f = [i \in 1..n |-> f[i]]
    OBVIOUS
  <2> HIDE DEF f
  <2> QED
    BY <1>l, <2>1, SequenceSet
<1>3. Health!Live \subseteq S
  BY <1>l, <1>1
<1>4. Cardinality(Health!Live) <= Cardinality(S)
  <2> HIDE DEF S
  <2> QED
    BY <1>2, <1>3, FS_Subset
<1>5. Cardinality(Health!Live) = loop.size /\ n <= loop.size
  BY HealthSets DEF Health!Changed, HealthStrong
<1>6. Cardinality(S) = n
  <2> HIDE DEF S, n
  <2> QED
    BY <1>2, <1>4, <1>5, <1>l, SMTT(40) DEF n
<1>7. \A i, j \in 1..n : i # j => results[i][1] # results[j][1]
  BY <1>2, <1>6
<1> QED
  BY <1>1, <1>7, <1>l

LEMMA HealthStep == HealthStrong /\ [Health!Next]_reporterVars => HealthStrong'
<1> SUFFICES ASSUME HealthStrong, [Health!Next]_reporterVars PROVE HealthStrong'
  OBVIOUS
<1>t. Health!TypeOK /\ loop \in [pos : Nat, size : Nat]
  BY DEF HealthStrong
<1>l. /\ entries \in Seq(Checks \cup {Health!Gap}) /\ Len(entries) \in Nat
      /\ results \in Seq(Checks \X Health!Statuses) /\ Len(results) \in Nat
      /\ loop.pos \in Nat /\ loop.size \in Nat
  BY <1>t DEF Health!TypeOK
<1>1. ASSUME NEW c \in Checks, Health!Register(c) PROVE HealthStrong'
  <2>1. /\ entries' = Append(entries, c) /\ stable' = stable \ {c}
        /\ UNCHANGED <<loop, results, overall>>
    BY <1>1 DEF Health!Register
  <2>2. /\ entries' \in Seq(Checks \cup {Health!Gap}) /\ Len(entries') = Len(entries) + 1
        /\ \A i \in 1..Len(entries) : entries'[i] = entries[i]
    BY <1>l, <2>1
  <2>3. Health!Live \subseteq Health!Live'
    BY <1>l, <2>2, HealthSets DEF Health!Live
  <2> QED
    BY <1>l, <2>1, <2>2, <2>3, DictChanges
<1>2. ASSUME NEW c \in Checks, Health!Unregister(c) PROVE HealthStrong'
  <2>1. /\ entries' = [i \in DOMAIN entries |->
                         IF entries[i] = c THEN Health!Gap ELSE entries[i]]
        /\ stable' = stable \ {c} /\ UNCHANGED <<loop, results, overall>>
    BY <1>2 DEF Health!Unregister
  <2>2. /\ entries' \in Seq(Checks \cup {Health!Gap}) /\ Len(entries') = Len(entries)
        /\ \A i \in 1..Len(entries) :
             entries'[i] = IF entries[i] = c THEN Health!Gap ELSE entries[i]
    BY <1>l, <2>1
  <2>3. Health!Live \ {c} \subseteq Health!Live'
    BY <1>l, <2>2, HealthSets DEF Health!Live
  <2> QED
    BY <1>l, <2>1, <2>2, <2>3, DictChanges
<1>3. CASE Health!CheckAll
  <2>1. /\ loop' = [pos |-> 1, size |-> Cardinality(Health!Live)] /\ results' = <<>>
        /\ overall' = "none" /\ stable' = Health!Live /\ entries' = entries
    BY <1>3, HealthSets DEF Health!CheckAll
  <2>2. Cardinality(Health!Live) \in Nat
    BY LiveFinite
  <2>3. Health!Live \subseteq Checks /\ Health!Live' = Health!Live
    BY <1>l, <2>1, HealthSets DEF Health!Live
  <2>4. loop' \in [pos : Nat, size : Nat] /\ loop'.pos = 1
        /\ loop'.size = Cardinality(Health!Live)
    BY <2>1, <2>2
  <2>5. Health!TypeOK'
    BY <1>l, <2>1, <2>3, <2>4 DEF Health!TypeOK
  <2>6. Health!ReportInv'
    BY <2>1, <2>5 DEF Health!ReportInv, Health!Statuses
  <2> QED
    BY <1>l, <2>1, <2>2, <2>3, <2>4, <2>5, <2>6 DEF HealthStrong
<1>4. CASE Health!Step
  <2> DEFINE e == entries[loop.pos]
  <2>1. /\ Health!Running /\ ~Health!Changed /\ ~Health!AtEnd
        /\ loop' = [loop EXCEPT !.pos = @ + 1] /\ UNCHANGED <<entries, overall, stable>>
        /\ IF e = Health!Gap THEN results' = results ELSE Health!RunCheck(e)
    BY <1>4 DEF Health!Step
  <2>2. /\ overall = "none" /\ loop.pos \in 1..(Len(entries) + 1)
        /\ Len(results) <= loop.size /\ stable \subseteq Health!Live
        /\ \A i \in 1..(loop.pos - 1) :
             entries[i] # Health!Gap => \E j \in DOMAIN results : results[j][1] = entries[i]
    BY <2>1 DEF HealthStrong
  <2>3. /\ loop' \in [pos : Nat, size : Nat] /\ loop'.pos = loop.pos + 1
        /\ loop'.size = loop.size /\ loop.pos \in 1..Len(entries)
    BY <1>t, <1>l, <2>1, <2>2, SMTT(40) DEF Health!AtEnd
  <2>4. /\ results' \in Seq(Checks \X Health!Statuses)
        /\ Len(results') <= loop.size
        /\ \A i \in DOMAIN results' :
             results'[i][2] \in {"healthy", Health!FailStatus(results'[i][1])}
        /\ \A i \in 1..Len(results) : i \in DOMAIN results' /\ results'[i] = results[i]
        /\ e # Health!Gap => \E j \in DOMAIN results' : results'[j][1] = e
    <3>1. CASE e = Health!Gap
      BY <1>l, <2>1, <2>2, <3>1 DEF HealthStrong
    <3>2. CASE e # Health!Gap
      <4>1. PICK s \in {"healthy", Health!FailStatus(e)} : results' = Append(results, <<e, s>>)
        BY <2>1, <3>2 DEF Health!RunCheck
      <4>2. Len(results) < loop.size
        BY <1>l, <2>1, <2>3, <3>2 DEF Health!Changed
      <4>3. e \in Checks /\ s \in Health!Statuses
        BY <1>l, <2>3, <3>2, <4>1 DEF Health!FailStatus, Health!Statuses
      <4>6. PICK p : p = <<e, s>>
        OBVIOUS
      <4>7. p \in Checks \X Health!Statuses /\ p[1] = e /\ p[2] = s
        BY <4>3, <4>6
      <4>4. /\ results' \in Seq(Checks \X Health!Statuses) /\ Len(results') = Len(results) + 1
            /\ DOMAIN results' = 1..(Len(results) + 1)
            /\ \A i \in 1..Len(results) : results'[i] = results[i]
            /\ results'[Len(results) + 1] = p
        <5>1. results' = Append(results, p)
          BY <4>1, <4>6
        <5> QED
          BY <1>l, <4>7, <5>1
      <4>5. \A i \in 1..Len(results) :
              results[i][2] \in {"healthy", Health!FailStatus(results[i][1])}
        BY <1>l DEF HealthStrong
      <4>9. ASSUME NEW i \in DOMAIN results'
            PROVE  results'[i][2] \in {"healthy", Health!FailStatus(results'[i][1])}
        <5>1. CASE i \in 1..Len(results)
          BY <4>4, <4>5, <5>1
        <5>2. CASE i = Len(results) + 1
          BY <4>1, <4>4, <4>7, <5>2
        <5> QED
          BY <1>l, <4>4, <4>9, <5>1, <5>2
      <4>8. \E j \in DOMAIN results' : results'[j][1] = e
        BY <1>l, <4>4, <4>7, SMTT(40)
      <4> QED
        BY <1>l, <4>2, <4>4, <4>9, <4>8
    <3> QED
      BY <3>1, <3>2
  <2>5. Health!TypeOK'
    BY <1>t, <2>1, <2>3, <2>4 DEF Health!TypeOK
  <2>6. Health!ReportInv'
    BY <2>1, <2>2, <2>5 DEF Health!ReportInv, Health!Statuses
  <2>7. Health!Live' = Health!Live
    BY <2>1, HealthSets DEF Health!Live
  <2>8. ASSUME NEW i \in 1..loop.pos, entries[i] # Health!Gap
        PROVE  \E j \in DOMAIN results' : results'[j][1] = entries[i]
    <3>1. CASE i = loop.pos
      BY <2>4, <2>8, <3>1
    <3>2. CASE i # loop.pos
      <4>1. PICK j \in DOMAIN results : results[j][1] = entries[i]
        BY <1>l, <2>2, <2>8, <3>2
      <4> QED
        BY <1>l, <2>4, <4>1
    <3> QED
      BY <3>1, <3>2
  <2>9. loop'.pos - 1 = loop.pos /\ loop'.pos \in 1..(Len(entries) + 1)
    BY <1>l, <2>3
  <2> QED
    BY <2>1, <2>2, <2>3, <2>4, <2>5, <2>6, <2>7, <2>8, <2>9 DEF HealthStrong
<1>5. CASE Health!LoopFails
  <2>1. loop' = Health!Idle /\ overall' = "error" /\ UNCHANGED <<entries, results, stable>>
    BY <1>5 DEF Health!LoopFails
  <2>2. loop' \in [pos : Nat, size : Nat] /\ ~Health!Running'
    BY <2>1 DEF Health!Idle, Health!Running
  <2>3. Health!TypeOK'
    BY <1>t, <2>1, <2>2 DEF Health!TypeOK
  <2>4. Health!ReportInv'
    BY <2>1, <2>3 DEF Health!ReportInv, Health!Statuses
  <2> QED
    BY <2>1, <2>2, <2>3, <2>4 DEF HealthStrong, Health!FailStatus
<1>6. CASE Health!Report
  <2> DEFINE R == Health!Range(results)
             found == {r[2] : r \in R}
  <2>1. /\ Health!Running /\ ~Health!Changed /\ Health!AtEnd
        /\ overall' = IF "unhealthy" \in found THEN "unhealthy"
                      ELSE IF "degraded" \in found THEN "degraded" ELSE "healthy"
        /\ loop' = Health!Idle /\ UNCHANGED <<entries, results, stable>>
    BY <1>6 DEF Health!Report
  <2>2. loop' \in [pos : Nat, size : Nat] /\ ~Health!Running'
    BY <2>1 DEF Health!Idle, Health!Running
  <2>3. Health!TypeOK'
    BY <1>t, <2>1, <2>2 DEF Health!TypeOK, Health!Statuses
  <2>4. \A r \in R : /\ r[2] \in Health!Statuses
                     /\ r[2] \in {"healthy", Health!FailStatus(r[1])}
    BY <1>l, HealthSets DEF HealthStrong
  <2>5. overall' = "healthy" <=> \A r \in R : r[2] = "healthy"
    BY <2>1, <2>4 DEF Health!Statuses
  <2>6. overall' = "unhealthy" <=> \E r \in R : r[1] \in Critical /\ r[2] # "healthy"
    BY <2>1, <2>4 DEF Health!Statuses, Health!FailStatus
  <2>7. \A c \in stable : \E r \in R : r[1] = c
    <3>1. stable \subseteq Health!Live
      BY <2>1 DEF HealthStrong
    <3> QED
      BY <2>1, <3>1, AllVisited, HealthSets
  <2>8. \A i, j \in DOMAIN results : i # j => results[i][1] # results[j][1]
    BY <2>1, AllVisited
  <2>9. Health!Range(results)' = R
    BY <2>1, HealthSets
  <2>10. Health!ReportInv'
    BY <2>1, <2>3, <2>5, <2>6, <2>7, <2>8, <2>9 DEF Health!ReportInv
  <2> QED
    BY <2>1, <2>2, <2>3, <2>10 DEF HealthStrong, Health!FailStatus
<1>7. CASE UNCHANGED reporterVars
  <2>1. UNCHANGED <<entries, loop, results, overall, stable>>
    BY <1>7 DEF reporterVars
  <2>2. Health!Live' = Health!Live
    BY <2>1, HealthSets DEF Health!Live
  <2>3. /\ entries' \in Seq(Checks \cup {Health!Gap}) /\ Len(entries') >= Len(entries)
        /\ \A i \in 1..Len(entries) : entries'[i] \in {entries[i], Health!Gap}
    BY <1>l, <2>1
  <2> QED
    BY <2>1, <2>2, <2>3, DictChanges
<1> QED
  BY <1>1, <1>2, <1>3, <1>4, <1>5, <1>6, <1>7 DEF Health!Next, Health!Reporter

\* A report tells of each check that was registered all the while and of none twice, and
\* is as bad as its worst check, though checks come and go during it (health.py:72-116).
THEOREM ReportsAreRight == PartsSpec => []ReportInv
<1> DEFINE Inv == part = "health" => HealthStrong
<1>1. PartsInit => Inv
  BY HealthInitial DEF PartsInit
<1>2. Inv /\ [PartsNext]_allVars => Inv'
  BY HealthStep, StepOfPart
<1>3. Inv => ReportInv
  BY DEF ReportInv, HealthStrong
<1>4. PartsSpec => PartsInit /\ [][PartsNext]_allVars
  BY PTL DEF PartsSpec
<1> HIDE DEF Inv
<1> QED
  BY <1>1, <1>2, <1>3, <1>4, PTL
-----------------------------------------------------------------------------
\* The fractions of a refill add up.
LEMMA RefillAddsUp ==
  ASSUME NEW a \in Nat, NEW b \in Nat, NEW c \in Nat, NEW r \in Nat,
         a <= b, b <= c
  PROVE  /\ (c - a) * r = (b - a) * r + (c - b) * r
         /\ (b - a) * r \in Nat /\ (c - b) * r \in Nat /\ (c - a) * r \in Nat
<1> DEFINE x == b - a  y == c - b
<1>1. x \in Nat /\ y \in Nat /\ c - a = x + y
  OBVIOUS
<1> HIDE DEF x, y
<1>2. (x + y) * r = x * r + y * r /\ x * r \in Nat /\ y * r \in Nat
  BY <1>1
<1> QED
  BY <1>1, <1>2 DEF x, y

\* The refilled bucket is a natural number no larger than the bucket.
LEMMA RefilledType ==
  ASSUME TypeOK
  PROVE  /\ Refilled \in 0..MaxTokens
         /\ Refilled >= tokens
         /\ (now - lastRefill) * RefillRate \in Nat
<1>1. (now - lastRefill) * RefillRate \in Nat
  BY RefillAddsUp, ShedderAssumption DEF TypeOK
<1> QED
  BY <1>1, ShedderAssumption DEF TypeOK, Refilled, Lesser

\* A refill at the present time leaves nothing more to collect.
LEMMA NothingToCollect ==
  ASSUME NEW t \in 0..MaxTokens, NEW n \in Nat
  PROVE  Lesser(MaxTokens, t + (n - n) * RefillRate) = t
<1>1. n - n = 0 /\ RefillRate \in Nat /\ MaxTokens \in Nat
  BY ShedderAssumption
<1>2. 0 * RefillRate = 0
  BY <1>1
<1> QED
  BY <1>1, <1>2 DEF Lesser

LEMMA RefilledAtOnce == TypeOK' /\ lastRefill' = now' => Refilled' = tokens'
  BY NothingToCollect DEF Refilled, TypeOK

LEMMA BucketInitial == Init => BucketInv
<1> SUFFICES ASSUME Init PROVE BucketInv
  OBVIOUS
<1>1. TypeOK
  BY ShedderAssumption DEF Init, TypeOK
<1>2. (now - lastRefill) * RefillRate = 0 /\ (now - lastSpent) * RefillRate = 0
      /\ (now - windowStart) * RefillRate = 0
  BY ShedderAssumption DEF Init
<1> QED
  BY <1>1, <1>2, ShedderAssumption DEF Init, BucketInv, StatsAddUp, Refilled, Lesser

LEMMA BucketStep == BucketInv /\ [Next]_vars => BucketInv'
<1> SUFFICES ASSUME BucketInv, [Next]_vars PROVE BucketInv'
  OBVIOUS
<1> USE ShedderAssumption
<1> DEFINE earned == (now - windowStart) * RefillRate
           rested == (now - lastSpent) * RefillRate
<1>t. /\ TypeOK /\ StatsAddUp /\ Refilled \in 0..MaxTokens
      /\ earned \in Nat /\ rested \in Nat
      /\ spent + Refilled <= MaxTokens + earned
      /\ Refilled >= Lesser(MaxTokens, rested)
      /\ lastRefill >= lastSpent
  BY RefilledType, RefillAddsUp DEF BucketInv, TypeOK
<1>1. ASSUME NEW cost \in Costs, Check(cost) PROVE BucketInv'
  <2>1. now' = now /\ windowStart' = windowStart /\ lastRefill' = now
    BY <1>1 DEF Check
  <2>2. ActualCost(cost) \in Nat
    BY DEF ActualCost
  <2>3. CASE Shed(cost)
    <3>1. TypeOK'
      BY <1>1, <1>t, <2>1, <2>3 DEF TypeOK, Check, Shed
    <3>2. Refilled' = Refilled
      BY <1>t, <2>1, <2>3, <3>1, RefilledAtOnce DEF Shed
    <3> QED
      BY <1>1, <1>t, <2>1, <2>3, <3>1, <3>2 DEF Check, Shed, BucketInv, StatsAddUp, TypeOK
  <2>4. CASE Admit(cost) \/ Degrade(cost)
    <3>1. Take(cost)
      BY <2>4 DEF Admit, Degrade
    <3>2. /\ tokens' = Refilled - ActualCost(cost) /\ tokens' \in 0..MaxTokens
          /\ spent' = spent + ActualCost(cost) /\ lastSpent' = now
      BY <1>t, <2>2, <3>1 DEF Take
    <3>3. TypeOK'
      BY <1>1, <1>t, <2>1, <2>2, <2>4, <3>1, <3>2 DEF TypeOK, Check, Take, Admit, Degrade
    <3>4. Refilled' = tokens'
      BY <1>t, <2>1, <3>3, RefilledAtOnce
    <3>5. (now' - lastSpent') * RefillRate = 0
      BY <1>t, <2>1, <3>2 DEF TypeOK
    <3>6. Refilled' >= Lesser(MaxTokens, (now' - lastSpent') * RefillRate)
      BY <3>2, <3>4, <3>5 DEF Lesser
    <3>7. spent' + Refilled' = spent + Refilled
      BY <1>t, <2>2, <3>2, <3>4 DEF TypeOK
    <3>8. StatsAddUp'
      BY <1>1, <1>t, <2>4, <3>1 DEF StatsAddUp, TypeOK, Check, Admit, Degrade, Take
    <3> QED
      BY <1>t, <2>1, <3>2, <3>3, <3>6, <3>7, <3>8 DEF BucketInv, TypeOK
  <2> QED
    BY <1>1, <2>3, <2>4 DEF Check
<1>2. CASE Read
  <2>1. TypeOK'
    BY <1>2, <1>t DEF TypeOK, Read, stats, history
  <2>2. Refilled' = Refilled
    BY <1>2, <1>t, <2>1, RefilledAtOnce DEF Read
  <2> QED
    BY <1>2, <1>t, <2>1, <2>2 DEF Read, stats, history, BucketInv, StatsAddUp, TypeOK
<1>3. CASE Reset
  <2>1. TypeOK'
    BY <1>3, <1>t DEF TypeOK, Reset
  <2>2. Refilled' = MaxTokens
    BY <1>3, <1>t, <2>1, RefilledAtOnce DEF Reset
  <2>3. (now' - windowStart') * RefillRate = 0 /\ (now' - lastSpent') * RefillRate \in Nat
    BY <1>3, <1>t DEF Reset, TypeOK
  <2> QED
    BY <1>3, <1>t, <2>1, <2>2, <2>3 DEF Reset, BucketInv, StatsAddUp, TypeOK, Lesser
<1>4. CASE OpenWindow
  <2>1. TypeOK'
    BY <1>4, <1>t DEF TypeOK, OpenWindow, bucket, stats
  <2>2. Refilled' = Refilled
    BY <1>4 DEF OpenWindow, bucket, Refilled
  <2>3. (now' - windowStart') * RefillRate = 0
    BY <1>4, <1>t DEF OpenWindow, TypeOK
  <2> QED
    BY <1>4, <1>t, <2>1, <2>2, <2>3 DEF OpenWindow, bucket, stats, BucketInv, StatsAddUp, TypeOK
<1>5. CASE Tick
  <2>1. TypeOK'
    BY <1>5, <1>t DEF TypeOK, Tick, bucket, stats, history
  <2>2. /\ now' = now + 1
        /\ UNCHANGED <<tokens, lastRefill, windowStart, spent, lastSpent>>
    BY <1>5 DEF Tick, bucket, history
  <2>3. /\ (now' - windowStart') * RefillRate = earned + RefillRate
        /\ (now' - lastSpent') * RefillRate = rested + RefillRate
        /\ (now' - lastRefill') * RefillRate = (now - lastRefill) * RefillRate + RefillRate
    <3>1. (now + 1 - now) * RefillRate = RefillRate /\ now <= now + 1
      BY <1>t DEF TypeOK
    <3> QED
      BY <1>t, <2>2, <3>1, RefillAddsUp DEF TypeOK
  <2>4. (now - lastRefill) * RefillRate \in Nat
    BY <1>t, RefilledType
  <2>5. Refilled' = Lesser(MaxTokens, Refilled + RefillRate)
    BY <1>t, <2>2, <2>3, <2>4 DEF Refilled, Lesser, TypeOK
  <2> HIDE DEF earned, rested
  <2>6. /\ spent' + Refilled' <= MaxTokens + earned + RefillRate
        /\ Refilled' >= Lesser(MaxTokens, rested + RefillRate)
    BY <1>t, <2>2, <2>5 DEF Lesser, TypeOK
  <2>7. StatsAddUp'
    BY <1>5, <1>t DEF Tick, stats, StatsAddUp
  <2> QED
    BY <1>t, <2>1, <2>2, <2>3, <2>6, <2>7 DEF BucketInv, TypeOK
<1>6. CASE UNCHANGED vars
  <2>1. TypeOK' /\ Refilled' = Refilled
    BY <1>6, <1>t DEF vars, bucket, stats, history, TypeOK, Refilled
  <2> QED
    BY <1>6, <1>t, <2>1 DEF vars, bucket, stats, history, BucketInv, StatsAddUp
<1> QED
  BY <1>1, <1>2, <1>3, <1>4, <1>5, <1>6 DEF Next

\* The inductive invariant of the bucket (load_shedding.py:105-135, 170-178).
THEOREM BucketInvariant == Spec => []BucketInv
  BY BucketInitial, BucketStep, PTL DEF Spec

\* The shedder never admits more, in any window, than a full bucket and the
\* refill of the window (load_shedding.py:55-57).
THEOREM RateIsBounded == Spec => []WindowBound
<1>1. BucketInv => WindowBound
  <2> SUFFICES ASSUME BucketInv PROVE WindowBound
    OBVIOUS
  <2>1. TypeOK /\ Refilled \in Nat /\ spent + Refilled <= MaxTokens + (now - windowStart) * RefillRate
    BY RefilledType, ShedderAssumption DEF BucketInv
  <2>2. (now - windowStart) * RefillRate \in Nat
    BY <2>1, RefillAddsUp, ShedderAssumption DEF TypeOK
  <2> QED
    BY <2>1, <2>2, ShedderAssumption DEF WindowBound, TypeOK
<1> QED
  BY BucketInvariant, <1>1, PTL

\* A bucket nothing was spent from for long enough is full again: a request that
\* fits the bucket is not shed (load_shedding.py:109, 123).
THEOREM RestIsRewarded == Spec => []RestedBucketAdmits
<1>1. BucketInv => RestedBucketAdmits
  <2> SUFFICES ASSUME BucketInv, (now - lastSpent) * RefillRate >= MaxTokens
               PROVE  Refilled = MaxTokens
    BY DEF RestedBucketAdmits
  <2>1. Refilled \in 0..MaxTokens /\ (now - lastSpent) * RefillRate \in Int
    BY RefilledType, RefillAddsUp, ShedderAssumption DEF BucketInv, TypeOK
  <2>2. Refilled >= MaxTokens
    BY <2>1, ShedderAssumption DEF BucketInv, Lesser
  <2> QED
    BY <2>1, <2>2, ShedderAssumption
<1> QED
  BY BucketInvariant, <1>1, PTL
=============================================================================
