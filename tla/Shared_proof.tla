---------------------------- MODULE Shared_proof ----------------------------
(***************************************************************************)
(* What threads share: the bulkhead, the registry, the lazy counter and    *)
(* the pool of spans keep their promises for any number of threads,        *)
(* permits, objects, calls and spans.                                      *)
(***************************************************************************)
EXTENDS MCShared, CollectionLemmas

BulkheadInv ==
  /\ permits \in Nat /\ active \in Nat /\ rejected \in Nat
  /\ pc \in [Threads -> Location]
  /\ PermitsConserved
  /\ active = Cardinality(Inside)

LEMMA SetsFinite ==
  /\ IsFiniteSet(Inside) /\ IsFiniteSet(Holding)
  /\ Cardinality(Inside) \in Nat /\ Cardinality(Holding) \in Nat
  /\ Cardinality(Inside) <= Cardinality(Holding)
<1>1. Inside \subseteq Holding /\ Holding \subseteq Threads
  BY DEF Inside, Holding
<1> QED
  BY <1>1, FS_Subset, FS_CardinalityType, BulkheadAssumption

\* The callers inside hold permits, so the invariant bounds them.
LEMMA InvImplies == BulkheadInv => TypeOK /\ PermitsConserved /\ ActiveIsExact
<1> SUFFICES ASSUME BulkheadInv PROVE TypeOK /\ PermitsConserved /\ ActiveIsExact
  OBVIOUS
<1>1. permits + active <= MaxConcurrent /\ permits <= MaxConcurrent
  BY SetsFinite, BulkheadAssumption DEF BulkheadInv, PermitsConserved
<1> QED
  BY <1>1, BulkheadAssumption DEF BulkheadInv, TypeOK, ActiveIsExact

LEMMA InitInv == Init => BulkheadInv
<1> SUFFICES ASSUME Init PROVE BulkheadInv
  OBVIOUS
<1>1. Inside = {} /\ Holding = {}
  BY DEF Init, Inside, Holding
<1> QED
  BY <1>1, FS_EmptySet, BulkheadAssumption
     DEF Init, BulkheadInv, PermitsConserved, Location

LEMMA StepInv == BulkheadInv /\ [Next]_vars => BulkheadInv'
<1> SUFFICES ASSUME BulkheadInv, [Next]_vars PROVE BulkheadInv'
  OBVIOUS
<1> USE DEF BulkheadInv, PermitsConserved
<1>1. ASSUME NEW t \in Threads, TryPermit(t) \/ GetPermit(t) PROVE BulkheadInv'
  <2>1. /\ pc[t] \in {"idle", "waiting"} /\ pc' = [pc EXCEPT ![t] = "entering"]
        /\ permits > 0 /\ permits' = permits - 1
        /\ UNCHANGED <<active, rejected>>
    BY <1>1 DEF TryPermit, GetPermit, Move
  <2>2. Inside' = Inside /\ Holding' = Holding \cup {t} /\ t \notin Holding
    BY <2>1 DEF Inside, Holding
  <2>3. Cardinality(Holding') = Cardinality(Holding) + 1
    BY <2>2, SetsFinite, OneMore
  <2>4. permits' \in Nat /\ permits' + Cardinality(Holding') = MaxConcurrent
    BY <2>1, <2>3, SetsFinite
  <2>5. pc' \in [Threads -> Location]
    BY <2>1 DEF Location
  <2> QED
    BY <2>1, <2>2, <2>4, <2>5
<1>2. ASSUME NEW t \in Threads, NoPermit(t) \/ Wait(t) \/ TimeOut(t) \/ CountRejected(t)
      PROVE  BulkheadInv'
  <2>1. /\ pc[t] \in {"idle", "waiting", "rejecting"}
        /\ \E l \in {"idle", "waiting", "rejecting"} : pc' = [pc EXCEPT ![t] = l]
        /\ UNCHANGED <<permits, active>> /\ rejected' \in Nat
    BY <1>2 DEF NoPermit, Wait, TimeOut, CountRejected, Move
  <2>2. Inside' = Inside /\ Holding' = Holding
    BY <2>1 DEF Inside, Holding
  <2>3. pc' \in [Threads -> Location]
    BY <2>1 DEF Location
  <2> QED
    BY <2>1, <2>2, <2>3
<1>3. ASSUME NEW t \in Threads, CountIn(t) PROVE BulkheadInv'
  <2>1. /\ pc[t] = "entering" /\ pc' = [pc EXCEPT ![t] = "inside"]
        /\ active' = active + 1
        /\ UNCHANGED <<permits, rejected>>
    BY <1>3 DEF CountIn, Move
  <2>2. Inside' = Inside \cup {t} /\ t \notin Inside /\ Holding' = Holding
    BY <2>1 DEF Inside, Holding
  <2>3. active' = Cardinality(Inside')
    BY <2>1, <2>2, SetsFinite, OneMore
  <2>4. pc' \in [Threads -> Location]
    BY <2>1 DEF Location
  <2> QED
    BY <2>1, <2>2, <2>3, <2>4
<1>4. ASSUME NEW t \in Threads, CountOut(t) PROVE BulkheadInv'
  <2>1. /\ pc[t] = "inside" /\ pc' = [pc EXCEPT ![t] = "leaving"]
        /\ active' = active - 1
        /\ UNCHANGED <<permits, rejected>>
    BY <1>4 DEF CountOut, Move
  <2>2. Inside' = Inside \ {t} /\ t \in Inside /\ Holding' = Holding
    BY <2>1 DEF Inside, Holding
  <2>3. active' = Cardinality(Inside') /\ active' \in Nat
    BY <2>1, <2>2, SetsFinite, OneLess
  <2>4. pc' \in [Threads -> Location]
    BY <2>1 DEF Location
  <2> QED
    BY <2>1, <2>2, <2>3, <2>4
<1>5. ASSUME NEW t \in Threads, ReturnPermit(t) PROVE BulkheadInv'
  <2>1. /\ pc[t] = "leaving" /\ pc' = [pc EXCEPT ![t] = "idle"]
        /\ permits' = permits + 1
        /\ UNCHANGED <<active, rejected>>
    BY <1>5 DEF ReturnPermit, Move
  <2>2. Inside' = Inside /\ Holding' = Holding \ {t} /\ t \in Holding
    BY <2>1 DEF Inside, Holding
  <2>3. Cardinality(Holding') = Cardinality(Holding) - 1
    BY <2>2, SetsFinite, OneLess
  <2>4. permits' \in Nat /\ permits' + Cardinality(Holding') = MaxConcurrent
    BY <2>1, <2>3, SetsFinite
  <2>5. pc' \in [Threads -> Location]
    BY <2>1 DEF Location
  <2> QED
    BY <2>1, <2>2, <2>4, <2>5
<1>6. CASE UNCHANGED vars
  <2>1. Inside' = Inside /\ Holding' = Holding
    BY <1>6 DEF vars, Inside, Holding
  <2> QED
    BY <1>6, <2>1 DEF vars
<1> QED
  BY <1>1, <1>2, <1>3, <1>4, <1>5, <1>6 DEF Next, Acquiring

\* The inductive invariant of the bulkhead: permits and holders add up, and the count is
\* that of the threads inside (patterns.py:34-68).
THEOREM BulkheadInvariant == Spec => []BulkheadInv
  BY InitInv, StepInv, PTL DEF Spec

\* The counters of the bulkhead stay within its limit (patterns.py:34-52).
THEOREM TypeCorrect == Spec => []TypeOK
  BY BulkheadInvariant, InvImplies, PTL

\* No permit is lost or doubled, with any number of threads half way through
\* acquire() and release() (patterns.py:34-52).
THEOREM PermitsAreConserved == Spec => []PermitsConserved
  BY BulkheadInvariant, InvImplies, PTL

\* The count of active callers is exact, and available hides no free permit
\* (patterns.py:66-68).
THEOREM ActiveCountIsExact == Spec => []ActiveIsExact
  BY BulkheadInvariant, InvImplies, PTL
-----------------------------------------------------------------------------
\* A step of the composition is a step of its part and leaves the others alone.
LEMMA StepOfPart ==
  ASSUME [SharedNext]_allVars
  PROVE  /\ part' = part
         /\ part = "pool" => [Pool!Next]_poolVars
         /\ part = "registry" => [Names!Next]_registryVars
         /\ part = "lazy" => [Lazy!Next]_lazyVars
  BY DEF SharedNext, allVars

-----------------------------------------------------------------------------
\* A call that is about to look the name up finds an object, unless the registry was
\* cleared meanwhile; it finds the one it expects because nobody makes another.
RegistryStrong ==
  /\ Names!RegistryInv
  /\ \A t \in Threads : step[t] = "making" => expect[t] = 0
  /\ \A t \in Threads : step[t] = "reading" /\ ~cleared[t] =>
       /\ entry # 0
       /\ expect[t] # 0 => entry = expect[t] /\ \A u \in Threads : step[u] # "making"

LEMMA RegistryInitial == Names!Init => RegistryStrong
  BY SharedAssumption DEF Names!RegistryAssumption, Names!Init, RegistryStrong,
     Names!RegistryInv, Names!TypeOK, Names!CallsAgree, Names!KeyError

LEMMA RegistryStep == RegistryStrong /\ [Names!Next]_registryVars => RegistryStrong'
<1> SUFFICES ASSUME RegistryStrong, [Names!Next]_registryVars PROVE RegistryStrong'
  OBVIOUS
<1> USE SharedAssumption DEF Names!RegistryAssumption, Names!KeyError
<1>t. Names!TypeOK /\ Names!CallsAgree
  BY DEF RegistryStrong, Names!RegistryInv
<1>n. made \in Nat /\ entry \in Nat /\ entry <= made
  BY <1>t DEF Names!TypeOK
<1>1. ASSUME NEW t \in Threads, Names!Begin(t) PROVE RegistryStrong'
  <2>1. /\ step[t] = "idle" /\ UNCHANGED <<entry, made, got, clears>>
        /\ step' = [step EXCEPT ![t] = IF entry # 0 THEN "reading" ELSE "making"]
        /\ expect' = [expect EXCEPT ![t] =
                        IF \E u \in Threads : step[u] = "making" THEN 0 ELSE entry]
        /\ cleared' = [cleared EXCEPT ![t] = FALSE]
    BY <1>1 DEF Names!Begin, Names!Goto, Names!Test
  <2>2. /\ step'[t] = IF entry # 0 THEN "reading" ELSE "making"
        /\ expect'[t] = IF \E u \in Threads : step[u] = "making" THEN 0 ELSE entry
        /\ ~cleared'[t]
        /\ \A u \in Threads \ {t} : /\ step'[u] = step[u] /\ expect'[u] = expect[u]
                                    /\ cleared'[u] = cleared[u]
    BY <1>t, <2>1 DEF Names!TypeOK
  <2>3. step' \in [Threads -> {"idle", "making", "reading"}]
    BY <1>t, <2>1 DEF Names!TypeOK
  <2>4. expect' \in [Threads -> 0..made]
    BY <1>t, <1>n, <2>1 DEF Names!TypeOK
  <2>5. cleared' \in [Threads -> BOOLEAN]
    BY <1>t, <2>1 DEF Names!TypeOK
  <2>6. Names!TypeOK'
    BY <1>t, <2>1, <2>3, <2>4, <2>5 DEF Names!TypeOK
  <2>7. Names!CallsAgree'
    BY <1>t, <2>1, <2>2 DEF Names!CallsAgree
  <2>8. \A u \in Threads : step'[u] = "making" => expect'[u] = 0
    BY <2>2 DEF RegistryStrong
  <2>9. ASSUME NEW u \in Threads, step'[u] = "reading", ~cleared'[u]
        PROVE  /\ entry' # 0
               /\ expect'[u] # 0 =>
                    entry' = expect'[u] /\ \A v \in Threads : step'[v] # "making"
    BY <2>1, <2>2, <2>9 DEF RegistryStrong
  <2> QED
    BY <2>6, <2>7, <2>8, <2>9 DEF RegistryStrong, Names!RegistryInv
<1>2. ASSUME NEW t \in Threads, Names!Make(t) PROVE RegistryStrong'
  <2>1. /\ step[t] = "making" /\ made < MaxObjects /\ made' = made + 1 /\ entry' = made'
        /\ step' = [step EXCEPT ![t] = "reading"]
        /\ UNCHANGED <<got, expect, cleared, clears>>
    BY <1>2 DEF Names!Make, Names!Goto
  <2>2. /\ step'[t] = "reading" /\ \A u \in Threads \ {t} : step'[u] = step[u]
        /\ step' \in [Threads -> {"idle", "making", "reading"}]
    BY <1>t, <2>1 DEF Names!TypeOK
  <2>3. got \in [Threads -> -1..made'] /\ expect \in [Threads -> 0..made']
    BY <1>t, <1>n, <2>1 DEF Names!TypeOK
  <2>4. Names!TypeOK'
    BY <1>t, <1>n, <2>1, <2>2, <2>3 DEF Names!TypeOK
  <2>5. Names!CallsAgree'
    BY <1>t, <2>1, <2>2 DEF Names!CallsAgree
  <2> QED
    BY <1>n, <2>1, <2>2, <2>4, <2>5 DEF RegistryStrong, Names!RegistryInv
<1>3. ASSUME NEW t \in Threads, Names!Return(t) PROVE RegistryStrong'
  <2>1. /\ step[t] = "reading" /\ UNCHANGED <<entry, made, expect, cleared, clears>>
        /\ step' = [step EXCEPT ![t] = "idle"]
        /\ got' = [got EXCEPT ![t] = IF entry = 0 THEN Names!KeyError ELSE entry]
    BY <1>3 DEF Names!Return, Names!Goto
  <2>2. /\ step'[t] = "idle" /\ got'[t] = IF entry = 0 THEN Names!KeyError ELSE entry
        /\ \A u \in Threads \ {t} : step'[u] = step[u] /\ got'[u] = got[u]
        /\ step' \in [Threads -> {"idle", "making", "reading"}]
        /\ got' \in [Threads -> Names!KeyError..made]
    BY <1>t, <1>n, <2>1 DEF Names!TypeOK
  <2>3. Names!TypeOK'
    BY <1>t, <2>1, <2>2 DEF Names!TypeOK
  <2>4. Names!CallsAgree'
    BY <1>t, <1>n, <2>1, <2>2 DEF Names!CallsAgree, RegistryStrong
  <2> QED
    BY <2>1, <2>2, <2>3, <2>4 DEF RegistryStrong, Names!RegistryInv
<1>4. CASE Names!Clear
  <2>1. /\ entry' = 0 /\ cleared' = [t \in Threads |-> TRUE] /\ clears' \in 0..MaxClears
        /\ UNCHANGED <<made, step, got, expect>>
    BY <1>4, <1>t DEF Names!Clear, Names!TypeOK
  <2>2. Names!TypeOK'
    BY <1>t, <1>n, <2>1 DEF Names!TypeOK
  <2> QED
    BY <2>1, <2>2 DEF RegistryStrong, Names!RegistryInv, Names!CallsAgree
<1>5. CASE UNCHANGED registryVars
  BY <1>5 DEF registryVars, RegistryStrong, Names!RegistryInv, Names!TypeOK,
     Names!CallsAgree
<1> QED
  BY <1>1, <1>2, <1>3, <1>4, <1>5 DEF Names!Next
-----------------------------------------------------------------------------
\* The lock is held by the thread that has made the counter and not marked it; the one
\* counter has every increment, and what a get() owes is no more than those.
LazyStrong ==
  /\ Lazy!LazyInv
  /\ counter = counters
  /\ lock = {t \in Threads : phase[t] = "marking"}
  /\ counter = 0 => incs = 0 /\ \A t \in Threads : phase[t] # "using"
  /\ counter = 1 /\ ~initialized => \E t \in Threads : phase[t] = "marking"
  /\ \A t \in Threads : owed[t] <= incs
  /\ counter = 0 => lock = {}
  /\ \A c \in 1..Cardinality(Threads) : counter = 0 => values[c] = 0

LEMMA LazyCardinality == \A S : Lazy!Cardinality(S) = Cardinality(S)
  BY DEF Lazy!Cardinality, Cardinality

LEMMA ThreadsCounted ==
  /\ IsFiniteSet(Threads) /\ Cardinality(Threads) \in Nat /\ MaxIncs \in Nat
  /\ \A t \in Threads : 1 \in 1..Cardinality(Threads)
<1>1. IsFiniteSet(Threads) /\ MaxIncs \in Nat
  BY BulkheadAssumption, SharedAssumption DEF Lazy!LazyAssumption
<1>2. Cardinality(Threads) \in Nat /\ (Cardinality(Threads) = 0 <=> Threads = {})
  BY <1>1, FS_CardinalityType, FS_EmptySet
<1> QED
  BY <1>1, <1>2

LEMMA LazyInitial == Lazy!Init => LazyStrong
<1> SUFFICES ASSUME Lazy!Init PROVE LazyStrong
  OBVIOUS
<1>1. /\ counter = 0 /\ counters = 0 /\ initialized = FALSE /\ lock = {}
      /\ phase = [t \in Threads |-> "idle"] /\ call = [t \in Threads |-> "inc"]
      /\ values = [c \in 1..Cardinality(Threads) |-> 0]
      /\ answer = [t \in Threads |-> 0] /\ owed = [t \in Threads |-> 0]
      /\ incs = 0 /\ calls = 0
  BY LazyCardinality DEF Lazy!Init
<1>2. /\ 0 \in 0..Cardinality(Threads) /\ Cardinality(lock) <= 1 /\ lock \subseteq Threads
  BY <1>1, ThreadsCounted, FS_EmptySet
<1>3. Lazy!TypeOK
  <2>1. /\ phase \in [Threads -> Lazy!Steps] /\ call \in [Threads -> {"inc", "get"}]
        /\ values \in [1..Cardinality(Threads) -> Nat] /\ answer \in [Threads -> Nat]
        /\ owed \in [Threads -> Nat]
    BY <1>1 DEF Lazy!Steps
  <2>2. initialized \in BOOLEAN
    BY <1>1
  <2>3. counter \in 0..counters /\ counters \in 0..Cardinality(Threads)
        /\ incs \in Nat /\ calls \in 0..MaxIncs
    BY <1>1, <1>2, ThreadsCounted
  <2> QED
    BY <1>2, <2>1, <2>2, <2>3, LazyCardinality DEF Lazy!TypeOK
<1>4. Lazy!LazyInv
  BY <1>1, <1>3 DEF Lazy!LazyInv
<1> QED
  BY <1>1, <1>4 DEF LazyStrong

LEMMA LazyStep == LazyStrong /\ [Lazy!Next]_lazyVars => LazyStrong'
<1> SUFFICES ASSUME LazyStrong, [Lazy!Next]_lazyVars PROVE LazyStrong'
  OBVIOUS
<1>t. /\ counter \in {0, 1} /\ counters = counter /\ initialized \in BOOLEAN
      /\ lock = {t \in Threads : phase[t] = "marking"}
      /\ phase \in [Threads -> Lazy!Steps] /\ call \in [Threads -> {"inc", "get"}]
      /\ values \in [1..Cardinality(Threads) -> Nat] /\ answer \in [Threads -> Nat]
      /\ owed \in [Threads -> Nat] /\ incs \in Nat /\ calls \in 0..MaxIncs
  <2>1. Lazy!TypeOK /\ counters <= 1 /\ counter = counters
    BY DEF LazyStrong, Lazy!LazyInv
  <2>2. counters \in 0..Cardinality(Threads)
    BY <2>1, LazyCardinality DEF Lazy!TypeOK
  <2>3. counter \in {0, 1}
    BY <2>1, <2>2, ThreadsCounted
  <2> QED
    BY <2>1, <2>3, LazyCardinality DEF LazyStrong, Lazy!TypeOK
<1>m. \A t, u \in Threads : phase[t] = "marking" /\ phase[u] = "marking" => t = u
  <2>1. Cardinality(lock) <= 1 /\ lock \subseteq Threads
    BY LazyCardinality DEF LazyStrong, Lazy!LazyInv, Lazy!TypeOK
  <2>2. IsFiniteSet(lock)
    BY <2>1, ThreadsCounted, FS_Subset
  <2>3. Cardinality(lock) = 0 \/ Cardinality(lock) = 1
    BY <2>1, <2>2, FS_CardinalityType
  <2>4. lock = {} \/ \E x : lock = {x}
    BY <2>2, <2>3, FS_EmptySet, FS_Singleton
  <2> QED
    BY <1>t, <2>4
<1>s. /\ counter = 1 => values[1] = incs
      /\ \A t \in Threads : phase[t] = "idle" => answer[t] >= owed[t] \/ call[t] = "inc"
      /\ \A t \in Threads : owed[t] <= incs
      /\ counter = 0 => incs = 0 /\ \A t \in Threads : phase[t] # "using"
      /\ counter = 1 /\ ~initialized => \E t \in Threads : phase[t] = "marking"
  BY DEF LazyStrong, Lazy!LazyInv
<1>z. \A c \in 1..Cardinality(Threads) : counter = 0 => values[c] = 0
  BY DEF LazyStrong
<1>c. counter = 0 => lock = {}
  BY DEF LazyStrong
\* What is to be shown, with the types apart.
<1>g. ASSUME counter' \in {0, 1}, counters' = counter', initialized' \in BOOLEAN,
             counter' = 1 => 1 <= Cardinality(Threads),
             lock' = {t \in Threads : phase'[t] = "marking"},
             phase' \in [Threads -> Lazy!Steps], call' \in [Threads -> {"inc", "get"}],
             values' \in [1..Cardinality(Threads) -> Nat], answer' \in [Threads -> Nat],
             owed' \in [Threads -> Nat], incs' \in Nat, calls' \in 0..MaxIncs,
             \A t, u \in Threads : phase'[t] = "marking" /\ phase'[u] = "marking" => t = u,
             counter' = 1 => values'[1] = incs',
             \A t \in Threads :
               phase'[t] = "idle" => answer'[t] >= owed'[t] \/ call'[t] = "inc",
             \A t \in Threads : owed'[t] <= incs',
             counter' = 0 => incs' = 0 /\ \A t \in Threads : phase'[t] # "using",
             counter' = 1 /\ ~initialized' => \E t \in Threads : phase'[t] = "marking",
             \A c \in 1..Cardinality(Threads) : counter' = 0 => values'[c] = 0,
             counter' = 0 => lock' = {}
      PROVE  LazyStrong'
  <2>0. lock' \subseteq Threads /\ \A x, y \in lock' : x = y
    BY <1>g
  <2>1. Cardinality(lock') <= 1 /\ lock' \subseteq Threads
    <3>1. Cardinality(lock') \in 0..1
      BY <2>0, AtMostOne
    <3> QED
      BY <2>0, <3>1
  <2>2. counter' \in 0..counters' /\ counters' \in 0..Cardinality(Threads)
    BY <1>g, ThreadsCounted
  <2>3. Lazy!TypeOK'
    BY <1>g, <2>1, <2>2, LazyCardinality DEF Lazy!TypeOK
  <2>4. incs' > 0 /\ ~initialized' => \E t \in Threads : phase'[t] = "marking"
    BY <1>g
  <2>5. counters' <= 1 /\ (counters' = 1 => values'[1] = incs')
    BY <1>g
  <2>6. Lazy!LazyInv'
    BY <1>g, <2>3, <2>4, <2>5 DEF Lazy!LazyInv
  <2> QED
    BY <1>g, <2>6 DEF LazyStrong
<1>1. ASSUME NEW t \in Threads, NEW c \in {"inc", "get"}, Lazy!Begin(t, c)
      PROVE  LazyStrong'
  <2>1. /\ phase[t] = "idle" /\ (c = "inc" => calls < MaxIncs)
        /\ calls' = IF c = "inc" THEN calls + 1 ELSE calls
        /\ call' = [call EXCEPT ![t] = c]
        /\ UNCHANGED <<counter, counters, initialized, lock, values, incs>>
    BY <1>1 DEF Lazy!Begin
  <2>2. calls' \in 0..MaxIncs
    BY <1>t, <2>1, ThreadsCounted
  <2>3. /\ call' \in [Threads -> {"inc", "get"}] /\ call'[t] = c
        /\ \A u \in Threads \ {t} : call'[u] = call[u]
    BY <1>t, <2>1
  <2>4. CASE c = "get" /\ ~initialized
    <3>1. /\ answer' = [answer EXCEPT ![t] = 0] /\ owed' = [owed EXCEPT ![t] = 0]
          /\ phase' = phase
      BY <1>1, <2>4 DEF Lazy!Begin
    <3>2. /\ answer' \in [Threads -> Nat] /\ owed' \in [Threads -> Nat]
          /\ answer'[t] = 0 /\ owed'[t] = 0
          /\ \A u \in Threads \ {t} : answer'[u] = answer[u] /\ owed'[u] = owed[u]
      BY <1>t, <3>1
    <3> QED
      BY <1>g, <1>c, <1>t, <1>m, <1>s, <1>z, <2>1, <2>2, <2>3, <3>1, <3>2, ThreadsCounted
  <2>5. CASE ~(c = "get" /\ ~initialized)
    <3>1. /\ phase' = [phase EXCEPT ![t] = IF counter = 0 THEN "locking" ELSE "using"]
          /\ owed' = [owed EXCEPT ![t] = incs] /\ answer' = answer
      BY <1>1, <2>5 DEF Lazy!Begin, Lazy!Goto
    <3>2. /\ phase' \in [Threads -> Lazy!Steps]
          /\ phase'[t] = IF counter = 0 THEN "locking" ELSE "using"
          /\ \A u \in Threads \ {t} : phase'[u] = phase[u]
      BY <1>t, <3>1 DEF Lazy!Steps
    <3>3. /\ owed' \in [Threads -> Nat] /\ owed'[t] = incs
          /\ \A u \in Threads \ {t} : owed'[u] = owed[u]
      BY <1>t, <3>1
    <3>4. \A u \in Threads : phase'[u] = "marking" <=> phase[u] = "marking"
      BY <2>1, <3>2
    <3> QED
      BY <1>g, <1>c, <1>t, <1>m, <1>s, <1>z, <2>1, <2>2, <2>3, <3>1, <3>2, <3>3, <3>4,
         ThreadsCounted
  <2> QED
    BY <2>4, <2>5
<1>2. ASSUME NEW t \in Threads, Lazy!Ensure(t) PROVE LazyStrong'
  <2>1. /\ phase[t] = "locking" /\ lock = {}
        /\ UNCHANGED <<initialized, call, values, answer, owed, incs, calls>>
    BY <1>2 DEF Lazy!Ensure
  <2>2. CASE counter = 0
    <3>1. /\ counters' = 1 /\ counter' = 1 /\ lock' = {t}
          /\ phase' = [phase EXCEPT ![t] = "marking"]
      BY <1>2, <1>t, <2>2 DEF Lazy!Ensure, Lazy!Goto, Lazy!StillMissing
    <3>2. /\ phase' \in [Threads -> Lazy!Steps] /\ phase'[t] = "marking"
          /\ \A u \in Threads \ {t} : phase'[u] = phase[u]
      BY <1>t, <3>1 DEF Lazy!Steps
    <3>3. values[1] = 0 /\ 1 <= Cardinality(Threads)
      BY <1>z, <2>2, ThreadsCounted
    <3>4. \A u \in Threads \ {t} : phase'[u] # "marking"
      BY <1>t, <2>1, <3>2
    <3> QED
      BY <1>g, <1>c, <1>t, <1>s, <2>1, <2>2, <3>1, <3>2, <3>3, <3>4
  <2>3. CASE counter # 0
    <3>1. /\ UNCHANGED <<counter, counters, lock>>
          /\ phase' = [phase EXCEPT ![t] = "using"]
      BY <1>2, <2>3 DEF Lazy!Ensure, Lazy!Goto, Lazy!StillMissing
    <3>2. /\ phase' \in [Threads -> Lazy!Steps] /\ phase'[t] = "using"
          /\ \A u \in Threads \ {t} : phase'[u] = phase[u]
      BY <1>t, <3>1 DEF Lazy!Steps
    <3>3. \A u \in Threads : phase'[u] = "marking" <=> phase[u] = "marking"
      BY <2>1, <3>2
    <3> QED
      BY <1>g, <1>c, <1>t, <1>m, <1>s, <1>z, <2>1, <2>3, <3>1, <3>2, <3>3, ThreadsCounted
  <2> QED
    BY <2>2, <2>3
<1>3. ASSUME NEW t \in Threads, Lazy!Mark(t) PROVE LazyStrong'
  <2>1. /\ phase[t] = "marking" /\ initialized' = TRUE /\ lock' = {}
        /\ phase' = [phase EXCEPT ![t] = "using"]
        /\ UNCHANGED <<counter, counters, call, values, answer, owed, incs, calls>>
    BY <1>3 DEF Lazy!Mark, Lazy!Goto
  <2>2. /\ phase' \in [Threads -> Lazy!Steps] /\ phase'[t] = "using"
        /\ \A u \in Threads \ {t} : phase'[u] = phase[u]
    BY <1>t, <2>1 DEF Lazy!Steps
  <2>3. \A u \in Threads : phase'[u] # "marking"
    BY <1>m, <2>1, <2>2
  <2>4. counter = 1
    BY <1>c, <1>t, <2>1
  <2> QED
    BY <1>g, <1>c, <1>t, <1>s, <1>z, <2>1, <2>2, <2>3, <2>4, ThreadsCounted
<1>4. ASSUME NEW t \in Threads, Lazy!Use(t) PROVE LazyStrong'
  <2>1. /\ phase[t] = "using" /\ phase' = [phase EXCEPT ![t] = "idle"]
        /\ UNCHANGED <<counter, counters, initialized, lock, call, owed, calls>>
    BY <1>4 DEF Lazy!Use, Lazy!Goto
  <2>2. /\ phase' \in [Threads -> Lazy!Steps] /\ phase'[t] = "idle"
        /\ \A u \in Threads \ {t} : phase'[u] = phase[u]
    BY <1>t, <2>1 DEF Lazy!Steps
  <2>3. counter = 1 /\ 1 \in 1..Cardinality(Threads)
    BY <1>t, <1>s, <2>1, ThreadsCounted
  <2>4. \A u \in Threads : phase'[u] = "marking" <=> phase[u] = "marking"
    BY <2>1, <2>2
  <2>5. CASE call[t] = "inc"
    <3>1. /\ values' = [values EXCEPT ![1] = @ + 1] /\ incs' = incs + 1 /\ answer' = answer
      BY <1>4, <2>3, <2>5 DEF Lazy!Use
    <3>2. values' \in [1..Cardinality(Threads) -> Nat] /\ values'[1] = incs'
      BY <1>t, <1>s, <2>3, <3>1
    <3> QED
      BY <1>g, <1>c, <1>t, <1>m, <1>s, <2>1, <2>2, <2>3, <2>4, <2>5, <3>1, <3>2
  <2>6. CASE call[t] # "inc"
    <3>1. answer' = [answer EXCEPT ![t] = values[1]] /\ UNCHANGED <<values, incs>>
      BY <1>4, <2>3, <2>6 DEF Lazy!Use
    <3>2. /\ answer' \in [Threads -> Nat] /\ answer'[t] = incs
          /\ \A u \in Threads \ {t} : answer'[u] = answer[u]
      BY <1>t, <1>s, <2>3, <3>1
    <3> QED
      BY <1>g, <1>c, <1>t, <1>m, <1>s, <2>1, <2>2, <2>3, <2>4, <2>6, <3>1, <3>2
  <2> QED
    BY <2>5, <2>6
<1>5. CASE UNCHANGED lazyVars
  BY <1>5 DEF lazyVars, LazyStrong, Lazy!LazyInv, Lazy!TypeOK
<1> QED
  BY <1>1, <1>2, <1>3, <1>4, <1>5 DEF Lazy!Next

\* Unless it is cleared under them, callers of one name get an object and agree on it as
\* far as nobody is about to make one; a lazy counter is made once and has every increment
\* (_base.py:158-175, lazy.py:32-52).
THEOREM InstancesAgree == SharedSpec => []InstancesInv
<1> DEFINE Inv == /\ part = "registry" => RegistryStrong
                  /\ part = "lazy" => LazyStrong
<1>1. SharedInit => Inv
  BY RegistryInitial, LazyInitial DEF SharedInit
<1>2. Inv /\ [SharedNext]_allVars => Inv'
  BY RegistryStep, LazyStep, StepOfPart
<1>3. Inv => InstancesInv
  BY DEF InstancesInv, RegistryStrong, LazyStrong
<1>4. SharedSpec => SharedInit /\ [][SharedNext]_allVars
  BY PTL DEF SharedSpec
<1> HIDE DEF Inv
<1> QED
  BY <1>1, <1>2, <1>3, <1>4, PTL
-----------------------------------------------------------------------------
\* A thread holds a span from acquire() until it is returned, and owes its record until
\* it has made it.
Having == {"acquired", "using", "recording", "unmarking", "returning"}
Has(t)  == at[t] \in Having
Out     == {t \in Threads : at[t] \in Having}
Owing   == {t \in Threads : at[t] \in {"acquired", "using", "recording"}}

\* A thread whose span was never released twice.
Clean(t) == span[t] \notin doubled

\* Such a span is with one thread, or once in the pool.
OneHolder ==
  /\ \A t, u \in Threads : Has(t) /\ Has(u) /\ span[t] = span[u] /\ Clean(t) => t = u
  /\ \A i, j \in DOMAIN available :
       available[i] = available[j] => i = j \/ available[i] \in doubled
  /\ \A t \in Threads, i \in DOMAIN available : Has(t) /\ Clean(t) => available[i] # span[t]

\* Operations are numbered as they begin, and recorded once unless they are mixed.
Recorded ==
  /\ \A t \in Threads : at[t] # "idle" => op[t] \in 1..begun
  /\ \A t, u \in Threads : at[t] # "idle" /\ at[u] # "idle" /\ op[t] = op[u] => t = u
  /\ \A i \in DOMAIN ended : ended[i] \in 1..begun
  /\ \A i \in DOMAIN ended, t \in Owing : ended[i] = op[t] => op[t] \in mixed
  /\ \A i, j \in DOMAIN ended : ended[i] = ended[j] => i = j \/ ended[i] \in mixed
  /\ \A o \in 1..begun : \/ o \in mixed \/ \E t \in Owing : op[t] = o
                         \/ \E i \in DOMAIN ended : ended[i] = o

\* A marked span is in use, and a span in use is marked.
Marked ==
  /\ \A s \in 1..Pool!MaxSpans : inUse[s] => s \in doubled \/ \E t \in Threads :
       at[t] \in {"using", "recording", "unmarking"} /\ span[t] = s
  /\ \A t \in Threads : at[t] = "using" /\ Clean(t) => inUse[span[t]]

\* What is kept of a span is what its operation has left in it.
OwnData ==
  /\ \A t \in Threads :
       at[t] \in {"using", "recording"} /\ Clean(t) => content[span[t]] = op[t]
  /\ Len(completed) <= Len(ended)
  /\ \A i \in 1..Len(completed) :
       ended[Len(ended) - Len(completed) + i] \in {completed[i]} \cup mixed

\* Who has a span that was released twice is mixed, and a span once used is never empty.
Doubtful ==
  /\ \A t \in Threads : at[t] # "idle" /\ ~Clean(t) => op[t] \in mixed
  /\ \A t \in Threads : at[t] \notin {"idle", "acquired"} => content[span[t]] # 0

Conserved == doubled = {} => Len(available) + Cardinality(Out) >= PoolSize

PoolStrong ==
  /\ Pool!TypeOK /\ created <= PoolSize + begun
  /\ \A t \in Threads : at[t] # "idle" <=> span[t] # 0
  /\ OneHolder /\ Recorded /\ Marked /\ OwnData /\ Doubtful /\ Conserved

LEMMA SubsetsFinite ==
  \A S \in SUBSET Threads : IsFiniteSet(S) /\ Cardinality(S) \in Nat
  BY ThreadsCounted, FS_Subset, FS_CardinalityType

LEMMA PoolCardinality == \A S : Pool!Cardinality(S) = Cardinality(S)
  BY DEF Pool!Cardinality, Cardinality

LEMMA OwnDataKept ==
  ASSUME OwnData, UNCHANGED <<content, completed, ended>>, mixed \subseteq mixed',
         \A t \in Threads : at'[t] \in {"using", "recording"} /\ Clean(t)' =>
           /\ at[t] \in {"using", "recording"} /\ Clean(t)
           /\ span'[t] = span[t] /\ op'[t] = op[t]
  PROVE  OwnData'
<1>1. \A t \in Threads :
        at'[t] \in {"using", "recording"} /\ Clean(t)' => content'[span'[t]] = op'[t]
  BY DEF OwnData
<1>2. \A i \in 1..Len(completed) :
        ended[Len(ended) - Len(completed) + i] \in {completed[i]} \cup mixed'
  BY DEF OwnData
<1> QED
  BY <1>1, <1>2 DEF OwnData

LEMMA PoolInitial == Pool!Init => PoolStrong
<1> SUFFICES ASSUME Pool!Init PROVE PoolStrong
  OBVIOUS
<1> USE SharedAssumption DEF Pool!PoolAssumption, Pool!MaxSpans, Pool!NoSpan, Pool!NoOp
<1>1. /\ created = PoolSize /\ available = [i \in 1..PoolSize |-> i] /\ completed = <<>>
      /\ content = [s \in 1..Pool!MaxSpans |-> 0]
      /\ inUse = [s \in 1..Pool!MaxSpans |-> FALSE]
      /\ at = [t \in Threads |-> "idle"] /\ span = [t \in Threads |-> 0]
      /\ op = [t \in Threads |-> 0] /\ begun = 0 /\ ended = <<>>
      /\ doubled = {} /\ mixed = {}
  BY DEF Pool!Init
<1>2. available \in Seq(1..created) /\ Len(available) = PoolSize
  BY <1>1
<1>3. /\ completed \in Seq(1..MaxOps) /\ Len(completed) = 0
      /\ ended \in Seq(1..MaxOps) /\ Len(ended) = 0
  BY <1>1
<1>4. /\ content \in [1..Pool!MaxSpans -> 0..MaxOps]
      /\ span \in [Threads -> 0..created] /\ op \in [Threads -> 0..MaxOps]
      /\ at \in [Threads -> Pool!Location]
  BY <1>1 DEF Pool!Location
<1>5. inUse \in [1..Pool!MaxSpans -> BOOLEAN]
  BY <1>1
<1>6. Pool!TypeOK
  BY <1>1, <1>2, <1>3, <1>4, <1>5 DEF Pool!TypeOK
<1>7. Out = {} /\ Owing = {} /\ Cardinality({}) = 0
  BY <1>1, FS_EmptySet DEF Out, Owing, Having
<1>8. OneHolder /\ Recorded /\ Marked /\ OwnData /\ Doubtful
  BY <1>1, <1>2, <1>3, <1>7
     DEF OneHolder, Recorded, Marked, OwnData, Doubtful, Has, Having, Clean
<1> QED
  BY <1>1, <1>2, <1>6, <1>7, <1>8 DEF PoolStrong, Conserved

\* What the types of the pool say, spelled out.
LEMMA PoolTyped ==
  ASSUME PoolStrong
  PROVE  /\ PoolSize \in Nat /\ MaxOps \in Nat /\ MaxCompleted \in Nat \ {0}
         /\ created \in Nat /\ PoolSize <= created /\ created <= PoolSize + begun
         /\ begun \in Nat /\ begun <= MaxOps
         /\ available \in Seq(1..created) /\ Len(available) <= PoolSize
         /\ completed \in Seq(1..MaxOps) /\ Len(completed) <= MaxCompleted
         /\ content \in [1..PoolSize + MaxOps -> 0..MaxOps]
         /\ inUse \in [1..PoolSize + MaxOps -> BOOLEAN]
         /\ at \in [Threads -> Pool!Location]
         /\ span \in [Threads -> 0..created] /\ op \in [Threads -> 0..MaxOps]
         /\ ended \in Seq(1..MaxOps)
         /\ doubled \subseteq 1..created /\ mixed \subseteq 1..begun
         /\ \A t \in Threads : at[t] # "idle" =>
              span[t] \in 1..created /\ span[t] \in 1..PoolSize + MaxOps
<1>1. Pool!TypeOK /\ created <= PoolSize + begun
  BY DEF PoolStrong
<1>2. PoolSize \in Nat /\ MaxOps \in Nat /\ MaxCompleted \in Nat \ {0}
  BY SharedAssumption DEF Pool!PoolAssumption
<1>3. created \in PoolSize..PoolSize + MaxOps /\ begun \in 0..MaxOps
  BY <1>1 DEF Pool!TypeOK, Pool!MaxSpans
<1>4. created \in Nat /\ PoolSize <= created /\ begun \in Nat /\ begun <= MaxOps
  BY <1>2, <1>3
<1>5. ASSUME NEW t \in Threads, at[t] # "idle"
      PROVE  span[t] \in 1..created /\ span[t] \in 1..PoolSize + MaxOps
  BY <1>1, <1>2, <1>4, <1>5 DEF PoolStrong, Pool!TypeOK
<1> QED
  BY <1>1, <1>2, <1>4, <1>5 DEF Pool!TypeOK, Pool!MaxSpans

LEMMA AcquireKeeps ==
  ASSUME PoolStrong, NEW t \in Threads, Pool!Acquire(t)
  PROVE  PoolStrong'
<1>t. PoolSize \in Nat /\ MaxOps \in Nat /\ created \in Nat /\ PoolSize <= created
      /\ created <= PoolSize + begun /\ begun \in Nat
      /\ available \in Seq(1..created) /\ Len(available) <= PoolSize
      /\ at \in [Threads -> Pool!Location]
      /\ span \in [Threads -> 0..created] /\ op \in [Threads -> 0..MaxOps]
  BY PoolTyped
<1>1. /\ begun < MaxOps /\ at[t] = "idle" /\ begun' = begun + 1
      /\ at' = [at EXCEPT ![t] = "acquired"] /\ op' = [op EXCEPT ![t] = begun']
      /\ span' = [span EXCEPT ![t] = IF created' > created THEN created'
                                                           ELSE Head(available)]
      /\ mixed' = IF span'[t] \in doubled THEN mixed \cup {begun'} ELSE mixed
      /\ UNCHANGED <<completed, content, inUse, ended, doubled>>
  BY DEF Pool!Acquire, Pool!Move
<1>2. /\ at'[t] = "acquired" /\ op'[t] = begun'
      /\ span'[t] = IF created' > created THEN created' ELSE Head(available)
      /\ \A u \in Threads \ {t} : at'[u] = at[u] /\ op'[u] = op[u] /\ span'[u] = span[u]
  BY <1>t, <1>1
\* Where the span comes from: if it was released once it was not with a thread, and is not
\* in the pool any more.
<1>3. /\ created' \in Nat /\ created <= created' /\ created' <= PoolSize + begun'
      /\ span'[t] \in 1..created' /\ ~Has(t)
      /\ available' \in Seq(1..created') /\ Len(available') <= PoolSize
      /\ \A u \in Threads : Has(u) /\ Clean(u) => span[u] # span'[t]
      /\ \A i \in DOMAIN available' : available'[i] = span'[t] => span'[t] \in doubled
      /\ \A i, j \in DOMAIN available' :
           available'[i] = available'[j] => i = j \/ available'[i] \in doubled
      /\ \A i \in DOMAIN available' : \E j \in DOMAIN available : available'[i] = available[j]
      /\ Len(available') + 1 >= Len(available)
  <2>0. ~Has(t)
    BY <1>1 DEF Has, Having
  <2>1. CASE Pool!Take
    <3>1. available # <<>> /\ available' = Tail(available) /\ created' = created
      BY <2>1 DEF Pool!Take
    <3>2. /\ Len(available) >= 1 /\ Len(available') = Len(available) - 1
          /\ Head(available) = available[1] /\ available[1] \in 1..created
          /\ available' \in Seq(1..created)
          /\ \A i \in 1..Len(available') : available'[i] = available[i + 1]
      BY <1>t, <3>1
    <3>3. span'[t] = available[1]
      BY <1>2, <1>t, <3>1, <3>2
    <3>4. /\ \A i, j \in 1..Len(available) :
               available[i] = available[j] => i = j \/ available[i] \in doubled
          /\ \A u \in Threads, i \in 1..Len(available) :
               Has(u) /\ Clean(u) => available[i] # span[u]
      <4>1. DOMAIN available = 1..Len(available)
        BY <1>t
      <4>2. /\ \A i, j \in DOMAIN available :
                 available[i] = available[j] => i = j \/ available[i] \in doubled
            /\ \A u \in Threads, i \in DOMAIN available :
                 Has(u) /\ Clean(u) => available[i] # span[u]
        BY Zenon DEF PoolStrong, OneHolder
      <4> QED
        BY ONLY <4>1, <4>2
    <3>5. /\ DOMAIN available' = 1..Len(available') /\ DOMAIN available = 1..Len(available)
          /\ Len(available) \in Nat
      BY <1>t, <3>2
    <3>6. \A i \in 1..Len(available') : i + 1 \in 1..Len(available) /\ i + 1 # 1
      BY <3>2, <3>5
    <3>7. \A i \in DOMAIN available' : available'[i] = span'[t] => span'[t] \in doubled
      BY <3>2, <3>3, <3>4, <3>5, <3>6
    <3>8. \A i, j \in DOMAIN available' :
            available'[i] = available'[j] => i = j \/ available'[i] \in doubled
      BY <3>2, <3>4, <3>5, <3>6
    <3>9. \A i \in DOMAIN available' : \E j \in DOMAIN available : available'[i] = available[j]
      BY <3>2, <3>5, <3>6
    <3>10. \A u \in Threads : Has(u) /\ Clean(u) => span[u] # span'[t]
      BY <3>2, <3>3, <3>4
    <3> QED
      BY <1>t, <1>1, <2>0, <3>1, <3>2, <3>3, <3>7, <3>8, <3>9, <3>10
  <2>2. CASE Pool!Create
    <3>1. available = <<>> /\ available' = <<>> /\ created' = created + 1
      BY <2>2 DEF Pool!Create
    <3>2. span'[t] = created + 1
      BY <1>2, <1>t, <3>1
    <3>3. \A u \in Threads : span[u] # created + 1
      BY <1>t
    <3>4. available' \in Seq(1..created') /\ Len(available') = 0 /\ Len(available) = 0
          /\ DOMAIN available' = {}
      BY <3>1
    <3> QED
      BY <1>t, <1>1, <2>0, <3>1, <3>2, <3>3, <3>4
  <2> QED
    BY <2>1, <2>2 DEF Pool!Acquire
<1>4. Pool!TypeOK'
  <2>1. at' \in [Threads -> Pool!Location]
    BY <1>t, <1>1 DEF Pool!Location
  <2>2. begun' \in 0..MaxOps /\ op' \in [Threads -> 0..MaxOps]
    BY <1>t, <1>1
  <2>3. span' \in [Threads -> 0..created'] /\ created' \in PoolSize..Pool!MaxSpans
    <3>1. span \in [Threads -> 0..created'] /\ span'[t] \in 0..created'
      BY <1>t, <1>3
    <3>2. span' \in [Threads -> 0..created']
      BY <3>1, <1>1
    <3> QED
      BY <3>2, <1>t, <1>1, <1>3 DEF Pool!MaxSpans
  <2>4. Pool!TypeOK
    BY DEF PoolStrong
  <2>5. doubled' \subseteq 1..created' /\ mixed' \subseteq 1..begun'
    <3>1. doubled \subseteq 1..created /\ mixed \subseteq 1..begun
      BY PoolTyped
    <3>2. \A x \in doubled : x \in 1..created'
      BY <1>t, <1>3, <3>1
    <3>3. (\A x \in mixed : x \in 1..begun') /\ begun' \in 1..begun'
      BY <1>t, <1>1, <3>1
    <3>4. mixed' \subseteq mixed \cup {begun'} /\ doubled' = doubled
      BY <1>1
    <3> QED
      BY <3>2, <3>3, <3>4
  <2> QED
    BY <1>1, <1>3, <2>1, <2>2, <2>3, <2>4, <2>5 DEF Pool!TypeOK, Pool!MaxSpans
<1>5. /\ \A u \in Threads \ {t} : Has(u)' <=> Has(u)
      /\ Has(t)' /\ Out' = Out \cup {t} /\ t \notin Out
      /\ Owing' = Owing \cup {t} /\ t \notin Owing /\ Out \subseteq Threads
      /\ Owing \subseteq Threads
  BY <1>1, <1>2 DEF Has, Having, Out, Owing
<1>6. OneHolder'
  <2>1. ASSUME NEW u \in Threads, NEW v \in Threads,
               Has(u)', Has(v)', span'[u] = span'[v], Clean(u)', u # v
        PROVE  FALSE
    <3>1. span'[u] \notin doubled /\ span'[v] \notin doubled
      BY <1>1, <2>1 DEF Clean
    <3>2. CASE u # t /\ v # t
      <4>1. Has(u) /\ Has(v) /\ span[u] = span[v] /\ Clean(u)
        BY <1>2, <1>5, <2>1, <3>1, <3>2 DEF Clean
      <4> QED
        BY <2>1, <4>1 DEF PoolStrong, OneHolder
    <3>3. CASE u = t
      <4>1. Has(v) /\ Clean(v) /\ span[v] = span'[t]
        BY <1>2, <1>5, <2>1, <3>1, <3>3 DEF Clean
      <4> QED
        BY <1>3, <4>1
    <3>4. CASE v = t
      <4>1. Has(u) /\ Clean(u) /\ span[u] = span'[t]
        BY <1>2, <1>5, <2>1, <3>1, <3>4 DEF Clean
      <4> QED
        BY <1>3, <4>1
    <3> QED
      BY <3>2, <3>3, <3>4
  <2>2. ASSUME NEW u \in Threads, NEW i \in DOMAIN available', Has(u)', Clean(u)'
        PROVE  available'[i] # span'[u]
    <3>1. CASE u = t
      BY <1>1, <1>3, <2>2, <3>1 DEF Clean
    <3>2. CASE u # t
      <4>1. PICK j \in DOMAIN available : available'[i] = available[j]
        BY <1>3
      <4>2. Has(u) /\ span'[u] = span[u] /\ Clean(u)
        BY <1>1, <1>2, <1>5, <2>2, <3>2 DEF Clean
      <4> QED
        BY <4>1, <4>2 DEF PoolStrong, OneHolder
    <3> QED
      BY <3>1, <3>2
  <2>3. \A i, j \in DOMAIN available' :
          available'[i] = available'[j] => i = j \/ available'[i] \in doubled'
    BY <1>1, <1>3
  <2> QED
    BY <2>1, <2>2, <2>3 DEF OneHolder
<1>7. Recorded'
  <2>1. \A u \in Threads : at'[u] # "idle" => op'[u] \in 1..begun'
    BY <1>t, <1>1, <1>2 DEF PoolStrong, Recorded
  <2>2. \A u \in Threads : at[u] # "idle" => op[u] # begun'
    BY <1>t, <1>1 DEF PoolStrong, Recorded
  <2>3. \A u, v \in Threads : at'[u] # "idle" /\ at'[v] # "idle" /\ op'[u] = op'[v] => u = v
    BY <1>2, <2>2 DEF PoolStrong, Recorded
  <2>4. \A i \in DOMAIN ended : ended[i] \in 1..begun' /\ ended[i] # begun'
    BY <1>t, <1>1 DEF PoolStrong, Recorded
  <2>5. mixed \subseteq mixed' /\ begun' \in Nat
    BY <1>t, <1>1
  <2>6. \A i \in DOMAIN ended', u \in Owing' : ended'[i] = op'[u] => op'[u] \in mixed'
    BY <1>1, <1>2, <1>5, <2>4, <2>5 DEF PoolStrong, Recorded
  <2>7. \A i, j \in DOMAIN ended' : ended'[i] = ended'[j] => i = j \/ ended'[i] \in mixed'
    BY <1>1, <2>5 DEF PoolStrong, Recorded
  <2>8. ASSUME NEW o \in 1..begun'
        PROVE  \/ o \in mixed' \/ \E u \in Owing' : op'[u] = o
               \/ \E i \in DOMAIN ended' : ended'[i] = o
    <3>1. CASE o = begun'
      BY <1>2, <1>5, <3>1
    <3>2. CASE o # begun'
      <4>1. o \in 1..begun
        BY <1>t, <1>1, <3>2
      <4>2. \/ o \in mixed \/ \E u \in Owing : op[u] = o
            \/ \E i \in DOMAIN ended : ended[i] = o
        BY <4>1 DEF PoolStrong, Recorded
      <4>3. \A u \in Owing : u \in Owing' /\ op'[u] = op[u]
        BY <1>2, <1>5
      <4> QED
        BY <1>1, <2>5, <4>2, <4>3
    <3> QED
      BY <3>1, <3>2
  <2> QED
    BY <1>1, <2>1, <2>3, <2>4, <2>6, <2>7, <2>8 DEF Recorded
<1>8. Marked'
  <2>1. \A s \in 1..Pool!MaxSpans : inUse'[s] => s \in doubled' \/ \E u \in Threads :
          at'[u] \in {"using", "recording", "unmarking"} /\ span'[u] = s
    <3> SUFFICES ASSUME NEW s \in 1..Pool!MaxSpans, inUse'[s], s \notin doubled'
                 PROVE  \E u \in Threads :
                          at'[u] \in {"using", "recording", "unmarking"} /\ span'[u] = s
      OBVIOUS
    <3>1. PICK u \in Threads : at[u] \in {"using", "recording", "unmarking"} /\ span[u] = s
      BY <1>1 DEF PoolStrong, Marked
    <3> QED
      BY <1>1, <1>2, <3>1
  <2>2. \A u \in Threads : at'[u] = "using" /\ Clean(u)' => inUse'[span'[u]]
    BY <1>1, <1>2 DEF PoolStrong, Marked, Clean
  <2> QED
    BY <2>1, <2>2 DEF Marked, Pool!MaxSpans
<1>9. Conserved'
  <2> SUFFICES ASSUME doubled = {} PROVE Len(available') + Cardinality(Out') >= PoolSize
    BY <1>1 DEF Conserved
  <2>1. Cardinality(Out') = Cardinality(Out) + 1 /\ Cardinality(Out) \in Nat
    BY <1>5, SubsetsFinite, OneMore
  <2>2. Len(available) + Cardinality(Out) >= PoolSize
    BY DEF PoolStrong, Conserved
  <2>3. Len(available) \in Nat /\ Len(available') \in Nat
    BY <1>t, <1>3
  <2> QED
    BY <1>t, <1>3, <2>1, <2>2, <2>3
<1>10. \A u \in Threads : at'[u] # "idle" <=> span'[u] # 0
  BY <1>2, <1>3 DEF PoolStrong
<1>11. OwnData'
  <2>1. \A u \in Threads : at'[u] \in {"using", "recording"} =>
          u # t /\ at[u] \in {"using", "recording"}
    BY <1>2
  <2> QED
    BY <1>1, <1>2, <2>1, OwnDataKept DEF PoolStrong, Clean
<1>12. Doubtful'
  <2>1. \A u \in Threads : at'[u] # "idle" /\ ~Clean(u)' => op'[u] \in mixed'
    BY <1>1, <1>2 DEF PoolStrong, Doubtful, Clean
  <2>2. \A u \in Threads : at'[u] \notin {"idle", "acquired"} => content'[span'[u]] # 0
    BY <1>1, <1>2 DEF PoolStrong, Doubtful
  <2> QED
    BY <2>1, <2>2 DEF Doubtful
<1> QED
  BY <1>3, <1>4, <1>6, <1>7, <1>8, <1>9, <1>10, <1>11, <1>12 DEF PoolStrong

\* A thread that moves on with its span, and leaves the pool and the operations alone.
LEMMA HolderMoves ==
  ASSUME PoolStrong, NEW t \in Threads, NEW l \in Having,
         at[t] \in Having, at' = [at EXCEPT ![t] = l],
         UNCHANGED <<available, created, span, op, begun, doubled, mixed>>
  PROVE  /\ at'[t] = l /\ \A u \in Threads \ {t} : at'[u] = at[u]
         /\ \A u \in Threads : Has(u)' <=> Has(u)
         /\ \A u \in Threads : Clean(u)' <=> Clean(u)
         /\ at' \in [Threads -> Pool!Location]
         /\ \A u \in Threads : at'[u] # "idle" <=> span'[u] # 0
         /\ OneHolder' /\ Conserved'
         /\ \A u \in Threads : at'[u] # "idle" => op'[u] \in 1..begun'
         /\ \A u, v \in Threads : at'[u] # "idle" /\ at'[v] # "idle" /\ op'[u] = op'[v] => u = v
         /\ \A u \in Threads : at'[u] # "idle" /\ ~Clean(u)' => op'[u] \in mixed'
<1>t. at \in [Threads -> Pool!Location]
  BY PoolTyped
<1>1. at'[t] = l /\ \A u \in Threads \ {t} : at'[u] = at[u]
  BY <1>t
<1>2. l \in Pool!Location /\ l # "idle" /\ at[t] # "idle"
  BY DEF Pool!Location, Having
<1>3. at' \in [Threads -> Pool!Location]
  BY <1>t, <1>2
<1>4. \A u \in Threads : (Has(u)' <=> Has(u)) /\ (Clean(u)' <=> Clean(u))
  BY <1>1 DEF Has, Clean
<1>5. Out' = Out
  BY <1>4 DEF Out, Has
<1>6. OneHolder' /\ Conserved'
  BY <1>4, <1>5 DEF PoolStrong, OneHolder, Conserved
<1>7. \A u \in Threads : at'[u] # "idle" <=> at[u] # "idle"
  BY <1>1, <1>2
<1> QED
  BY <1>1, <1>3, <1>4, <1>6, <1>7 DEF PoolStrong, Recorded, Doubtful

LEMMA ResetKeeps ==
  ASSUME PoolStrong, NEW t \in Threads, Pool!ResetSpan(t)
  PROVE  PoolStrong'
<1>t. /\ content \in [1..PoolSize + MaxOps -> 0..MaxOps]
      /\ inUse \in [1..PoolSize + MaxOps -> BOOLEAN] /\ op \in [Threads -> 0..MaxOps]
      /\ at[t] # "idle" => span[t] \in 1..PoolSize + MaxOps
  BY PoolTyped
<1>1. /\ at[t] = "acquired" /\ at' = [at EXCEPT ![t] = "using"]
      /\ content' = [content EXCEPT ![span[t]] = op[t]]
      /\ inUse' = [inUse EXCEPT ![span[t]] = TRUE]
      /\ UNCHANGED <<available, created, completed, span, op, begun, ended, doubled, mixed>>
  BY DEF Pool!ResetSpan, Pool!Move
<1>2. "using" \in Having /\ at[t] \in Having
  BY <1>1 DEF Having
<1>3. /\ at'[t] = "using" /\ \A u \in Threads \ {t} : at'[u] = at[u]
      /\ \A u \in Threads : Has(u)' <=> Has(u)
      /\ at' \in [Threads -> Pool!Location]
      /\ \A u \in Threads : Clean(u)' <=> Clean(u)
      /\ \A u \in Threads : at'[u] # "idle" <=> span'[u] # 0
      /\ OneHolder' /\ Conserved'
      /\ \A u \in Threads : at'[u] # "idle" /\ ~Clean(u)' => op'[u] \in mixed'
      /\ \A u \in Threads : at'[u] # "idle" => op'[u] \in 1..begun'
      /\ \A u, v \in Threads : at'[u] # "idle" /\ at'[v] # "idle" /\ op'[u] = op'[v] => u = v
  BY <1>1, <1>2, HolderMoves, Zenon
<1>4. Owing' = Owing
  BY <1>1, <1>3 DEF Owing
<1>5. Recorded'
  BY <1>1, <1>3, <1>4 DEF PoolStrong, Recorded
<1>6. content' \in [1..PoolSize + MaxOps -> 0..MaxOps]
  BY <1>t, <1>1
<1>7. inUse' \in [1..PoolSize + MaxOps -> BOOLEAN]
  BY <1>t, <1>1
<1>8. Pool!TypeOK'
  BY <1>1, <1>3, <1>6, <1>7 DEF PoolStrong, Pool!TypeOK, Pool!MaxSpans
<1>9. /\ inUse'[span[t]]
      /\ \A s \in 1..PoolSize + MaxOps : s # span[t] => inUse'[s] = inUse[s]
  BY <1>t, <1>1
<1>10. \A s \in 1..Pool!MaxSpans : inUse'[s] => s \in doubled' \/ \E u \in Threads :
         at'[u] \in {"using", "recording", "unmarking"} /\ span'[u] = s
  <2> SUFFICES ASSUME NEW s \in 1..Pool!MaxSpans, inUse'[s], s \notin doubled
               PROVE  \E u \in Threads :
                        at'[u] \in {"using", "recording", "unmarking"} /\ span'[u] = s
    BY <1>1
  <2>1. CASE s = span[t]
    BY <1>1, <1>3, <2>1
  <2>2. CASE s # span[t]
    <3>1. inUse[s]
      BY <1>9, <2>2 DEF Pool!MaxSpans
    <3>2. PICK u \in Threads : at[u] \in {"using", "recording", "unmarking"} /\ span[u] = s
      BY <3>1 DEF PoolStrong, Marked
    <3> QED
      BY <1>1, <1>3, <3>2
  <2> QED
    BY <2>1, <2>2
<1>11. \A u \in Threads : at'[u] = "using" /\ Clean(u)' => inUse'[span'[u]]
  <2> SUFFICES ASSUME NEW u \in Threads, at'[u] = "using", Clean(u) PROVE inUse'[span[u]]
    BY <1>1, <1>3
  <2>1. CASE span[u] = span[t]
    BY <1>9, <2>1
  <2>2. CASE span[u] # span[t]
    <3>1. at[u] = "using" /\ inUse[span[u]]
      BY <1>3, <2>2 DEF PoolStrong, Marked
    <3>2. span[u] \in 1..PoolSize + MaxOps
      BY <3>1, PoolTyped
    <3> QED
      BY <1>9, <2>2, <3>1, <3>2
  <2> QED
    BY <2>1, <2>2
<1>12. Marked'
  BY <1>3, <1>10, <1>11 DEF Marked
<1>14. /\ content'[span[t]] = op[t]
       /\ \A s \in 1..PoolSize + MaxOps : s # span[t] => content'[s] = content[s]
  BY <1>t, <1>1
<1>13. OwnData'
  <2>2. ASSUME NEW u \in Threads, at'[u] \in {"using", "recording"}, Clean(u)'
        PROVE  content'[span[u]] = op[u]
    <3>1. CASE u = t
      BY <1>14, <3>1
    <3>2. CASE u # t
      <4>1. at[u] \in {"using", "recording"} /\ Has(u) /\ Has(t) /\ Clean(u)
        BY <1>1, <1>3, <2>2, <3>2 DEF Has, Having
      <4>2. span[u] # span[t] /\ span[u] \in 1..PoolSize + MaxOps
        BY <3>2, <4>1, PoolTyped DEF PoolStrong, OneHolder
      <4> QED
        BY <1>14, <4>1, <4>2 DEF PoolStrong, OwnData
    <3> QED
      BY <3>1, <3>2
  <2> QED
    BY <1>1, <2>2 DEF PoolStrong, OwnData
<1>15. Doubtful'
  <2> SUFFICES ASSUME NEW u \in Threads, at'[u] \notin {"idle", "acquired"}
               PROVE  content'[span[u]] # 0
    BY <1>1, <1>3 DEF Doubtful
  <2>1. op[t] # 0
    BY <1>1, PoolTyped DEF PoolStrong, Recorded
  <2>2. CASE span[u] = span[t]
    BY <1>14, <2>1, <2>2
  <2>3. CASE span[u] # span[t]
    <3>1. at[u] \notin {"idle", "acquired"}
      BY <1>3, <2>3
    <3>2. span[u] \in 1..PoolSize + MaxOps
      BY <3>1, PoolTyped
    <3> QED
      BY <1>14, <2>3, <3>1, <3>2 DEF PoolStrong, Doubtful
  <2> QED
    BY <2>2, <2>3
<1> QED
  BY <1>1, <1>3, <1>5, <1>8, <1>12, <1>13, <1>15 DEF PoolStrong

LEMMA PoolRests == ASSUME PoolStrong, UNCHANGED poolVars PROVE PoolStrong'
<1>1. UNCHANGED <<available, created, completed, content, inUse, at, span, op, begun, ended,
                  doubled, mixed>>
  BY DEF poolVars
<1>2. /\ Out' = Out /\ Owing' = Owing
      /\ \A t \in Threads : (Has(t)' <=> Has(t)) /\ (Clean(t)' <=> Clean(t))
  BY <1>1 DEF Out, Owing, Has, Clean
<1>3. Pool!TypeOK' /\ OneHolder' /\ Conserved'
  BY <1>1, <1>2 DEF PoolStrong, Pool!TypeOK, OneHolder, Conserved
<1>4. Recorded' /\ Marked' /\ Doubtful'
  BY <1>1, <1>2 DEF PoolStrong, Recorded, Marked, Doubtful
<1>5. OwnData'
  BY <1>1, <1>2, OwnDataKept DEF PoolStrong
<1> QED
  BY <1>1, <1>2, <1>3, <1>4, <1>5 DEF PoolStrong

LEMMA ReleaseKeeps ==
  ASSUME PoolStrong, NEW t \in Threads, Pool!ReleaseOnce(t)
  PROVE  PoolStrong'
<1>t. /\ at \in [Threads -> Pool!Location]
      /\ at[t] # "idle" => span[t] \in 1..PoolSize + MaxOps
  BY PoolTyped
<1>1. /\ at[t] = "using"
      /\ at' = [at EXCEPT ![t] = IF inUse[span[t]] THEN "recording" ELSE "released"]
      /\ UNCHANGED <<available, created, completed, content, inUse, span, op, begun, ended,
                     doubled, mixed>>
  BY DEF Pool!ReleaseOnce, Pool!Release
<1>2. CASE inUse[span[t]]
  <2>2. at' = [at EXCEPT ![t] = "recording"] /\ "recording" \in Having /\ at[t] \in Having
    BY <1>1, <1>2 DEF Having
  <2>3. /\ at'[t] = "recording" /\ \A u \in Threads \ {t} : at'[u] = at[u]
        /\ \A u \in Threads : Has(u)' <=> Has(u)
        /\ \A u \in Threads : Clean(u)' <=> Clean(u)
        /\ at' \in [Threads -> Pool!Location]
        /\ \A u \in Threads : at'[u] # "idle" <=> span'[u] # 0
        /\ OneHolder' /\ Conserved'
        /\ \A u \in Threads : at'[u] # "idle" => op'[u] \in 1..begun'
        /\ \A u, v \in Threads :
             at'[u] # "idle" /\ at'[v] # "idle" /\ op'[u] = op'[v] => u = v
        /\ \A u \in Threads : at'[u] # "idle" /\ ~Clean(u)' => op'[u] \in mixed'
    BY <1>1, <2>2, HolderMoves, Zenon
  <2>4. Owing' = Owing
    BY <1>1, <2>3 DEF Owing
  <2>5. Recorded'
    BY <1>1, <2>3, <2>4 DEF PoolStrong, Recorded
  <2>6. Pool!TypeOK'
    BY <1>1, <2>3 DEF PoolStrong, Pool!TypeOK, Pool!MaxSpans
  <2>7. \A u \in Threads : at[u] \in {"using", "recording", "unmarking"} =>
          at'[u] \in {"using", "recording", "unmarking"}
    BY <1>1, <2>3
  <2>8. Marked'
    BY <1>1, <2>3, <2>7 DEF PoolStrong, Marked, Pool!MaxSpans
  <2>9. \A u \in Threads : at'[u] \in {"using", "recording"} => at[u] \in {"using", "recording"}
    BY <1>1, <2>3
  <2>10. OwnData'
    BY <1>1, <2>3, <2>9, OwnDataKept DEF PoolStrong
  <2>11. Doubtful'
    BY <1>1, <2>3 DEF PoolStrong, Doubtful
  <2> QED
    BY <1>1, <2>3, <2>5, <2>6, <2>8, <2>10, <2>11 DEF PoolStrong
\* Only a second release() can have unmarked the span.
<1>3. CASE ~inUse[span[t]]
  <2>1. ~Clean(t) /\ span[t] \in doubled /\ op[t] \in mixed
    BY <1>1, <1>3 DEF PoolStrong, Marked, Doubtful, Clean
  <2>2. /\ at'[t] = "released" /\ \A u \in Threads \ {t} : at'[u] = at[u]
        /\ at' \in [Threads -> Pool!Location]
    BY <1>t, <1>1, <1>3 DEF Pool!Location
  <2>3. /\ Owing' = Owing \ {t} /\ t \in Owing
        /\ \A u \in Threads : (Has(u)' => Has(u)) /\ (Clean(u)' <=> Clean(u))
    BY <1>1, <2>2 DEF Owing, Has, Having, Clean
  <2>4. OneHolder'
    BY <1>1, <2>3 DEF PoolStrong, OneHolder
  <2>5. \A u \in Threads : at'[u] # "idle" <=> at[u] # "idle"
    BY <1>1, <2>2
  <2>6. Recorded'
    <3>1. \A o \in 1..begun' : \/ o \in mixed' \/ \E u \in Owing' : op'[u] = o
                               \/ \E i \in DOMAIN ended' : ended'[i] = o
      BY <1>1, <2>1, <2>3 DEF PoolStrong, Recorded
    <3> QED
      BY <1>1, <2>3, <2>5, <3>1 DEF PoolStrong, Recorded
  <2>7. Marked'
    <3>1. \A s \in 1..Pool!MaxSpans : inUse'[s] => s \in doubled' \/ \E u \in Threads :
            at'[u] \in {"using", "recording", "unmarking"} /\ span'[u] = s
      <4> SUFFICES ASSUME NEW s \in 1..Pool!MaxSpans, inUse[s], s \notin doubled
                   PROVE  \E u \in Threads :
                            at'[u] \in {"using", "recording", "unmarking"} /\ span[u] = s
        BY <1>1
      <4>1. PICK u \in Threads :
              at[u] \in {"using", "recording", "unmarking"} /\ span[u] = s
        BY DEF PoolStrong, Marked
      <4> QED
        BY <2>1, <2>2, <4>1
    <3>2. \A u \in Threads : at'[u] = "using" /\ Clean(u)' => inUse'[span'[u]]
      BY <1>1, <2>2, <2>3 DEF PoolStrong, Marked
    <3> QED
      BY <1>1, <3>1, <3>2 DEF Marked, Pool!MaxSpans
  <2>8. \A u \in Threads : at'[u] \in {"using", "recording"} => at[u] \in {"using", "recording"}
    BY <1>1, <2>2
  <2>9. OwnData'
    BY <1>1, <2>3, <2>8, OwnDataKept DEF PoolStrong
  <2>10. Doubtful'
    BY <1>1, <2>2, <2>3, <2>5 DEF PoolStrong, Doubtful
  <2>11. Conserved'
    BY <1>1, <2>1 DEF Conserved
  <2>12. Pool!TypeOK'
    BY <1>1, <2>2 DEF PoolStrong, Pool!TypeOK, Pool!MaxSpans
  <2> QED
    BY <1>1, <2>4, <2>5, <2>6, <2>7, <2>9, <2>10, <2>11, <2>12 DEF PoolStrong
<1> QED
  BY <1>2, <1>3

\* The second release(): it does nothing, or the span is doubled from here on, and whoever
\* has it is mixed.
LEMMA ReleaseAgainKeeps ==
  ASSUME PoolStrong, NEW t \in Threads, Pool!ReleaseAgain(t)
  PROVE  PoolStrong'
<1>t. /\ at \in [Threads -> Pool!Location] /\ begun \in Nat
      /\ doubled \subseteq 1..created /\ mixed \subseteq 1..begun
      /\ at[t] # "idle" => span[t] \in 1..created
  BY PoolTyped
<1>1. /\ at[t] = "released"
      /\ at' = [at EXCEPT ![t] = IF inUse[span[t]] THEN "recording" ELSE "released"]
      /\ UNCHANGED <<available, created, completed, content, inUse, span, op, begun, ended>>
      /\ IF inUse[span[t]]
           THEN /\ doubled' = doubled \cup {span[t]}
                /\ mixed' = mixed \cup {op[u] : u \in {v \in Threads : span[v] = span[t]}}
           ELSE UNCHANGED <<doubled, mixed>>
  BY DEF Pool!ReleaseAgain, Pool!Release
<1>2. CASE ~inUse[span[t]]
  <2>1. at' = at
    BY <1>t, <1>1, <1>2
  <2> QED
    BY <1>1, <1>2, <2>1, PoolRests DEF poolVars
<1>3. CASE inUse[span[t]]
  <2>1. /\ doubled' = doubled \cup {span[t]} /\ mixed \subseteq mixed'
        /\ \A u \in Threads : span[u] = span[t] => op[u] \in mixed'
        /\ \A o \in mixed' :
             o \in mixed \/ \E u \in Threads : span[u] = span[t] /\ o = op[u]
    BY <1>1, <1>3
  <2>2. /\ at'[t] = "recording" /\ \A u \in Threads \ {t} : at'[u] = at[u]
        /\ at' \in [Threads -> Pool!Location]
    BY <1>t, <1>1, <1>3 DEF Pool!Location
  <2>3. /\ \A u \in Threads : Clean(u)' => Clean(u) /\ span[u] # span[t] /\ u # t
        /\ \A u \in Threads \ {t} : Has(u)' <=> Has(u)
        /\ Owing' = Owing \cup {t} /\ op[t] \in mixed'
    BY <1>1, <2>1, <2>2 DEF Clean, Has, Having, Owing
  <2>4. \A u \in Threads : at'[u] # "idle" <=> at[u] # "idle"
    BY <1>1, <2>2
  <2>5. OneHolder'
    <3>1. ASSUME NEW u \in Threads, NEW v \in Threads,
                 Has(u)', Has(v)', span'[u] = span'[v], Clean(u)'
          PROVE  u = v
      <4>1. u # t /\ v # t /\ Clean(u) /\ span[u] = span[v]
        BY <1>1, <2>3, <3>1
      <4> QED
        BY <2>3, <3>1, <4>1 DEF PoolStrong, OneHolder
    <3>2. \A i, j \in DOMAIN available' :
            available'[i] = available'[j] => i = j \/ available'[i] \in doubled'
      BY <1>1, <2>1 DEF PoolStrong, OneHolder
    <3>3. \A u \in Threads, i \in DOMAIN available' :
            Has(u)' /\ Clean(u)' => available'[i] # span'[u]
      BY <1>1, <2>3 DEF PoolStrong, OneHolder
    <3> QED
      BY <3>1, <3>2, <3>3 DEF OneHolder
  <2>6. Recorded'
    <3>1. \A i \in DOMAIN ended', u \in Owing' : ended'[i] = op'[u] => op'[u] \in mixed'
      BY <1>1, <2>1, <2>3 DEF PoolStrong, Recorded
    <3>2. \A i, j \in DOMAIN ended' : ended'[i] = ended'[j] => i = j \/ ended'[i] \in mixed'
      BY <1>1, <2>1 DEF PoolStrong, Recorded
    <3>3. \A o \in 1..begun' : \/ o \in mixed' \/ \E u \in Owing' : op'[u] = o
                               \/ \E i \in DOMAIN ended' : ended'[i] = o
      BY <1>1, <2>1, <2>3 DEF PoolStrong, Recorded
    <3> QED
      BY <1>1, <2>4, <3>1, <3>2, <3>3 DEF PoolStrong, Recorded
  <2>7. Marked'
    <3>1. \A s \in 1..Pool!MaxSpans : inUse'[s] => s \in doubled' \/ \E u \in Threads :
            at'[u] \in {"using", "recording", "unmarking"} /\ span'[u] = s
      <4> SUFFICES ASSUME NEW s \in 1..Pool!MaxSpans, inUse[s], s \notin doubled
                   PROVE  \E u \in Threads :
                            at'[u] \in {"using", "recording", "unmarking"} /\ span[u] = s
        BY <1>1, <2>1
      <4>1. PICK u \in Threads :
              at[u] \in {"using", "recording", "unmarking"} /\ span[u] = s
        BY DEF PoolStrong, Marked
      <4> QED
        BY <1>1, <2>2, <4>1
    <3>2. \A u \in Threads : at'[u] = "using" /\ Clean(u)' => inUse'[span'[u]]
      BY <1>1, <2>2, <2>3 DEF PoolStrong, Marked
    <3> QED
      BY <1>1, <3>1, <3>2 DEF Marked, Pool!MaxSpans
  <2>8. OwnData'
    BY <1>1, <2>1, <2>2, <2>3, OwnDataKept DEF PoolStrong
  <2>9. Doubtful'
    <3>1. \A u \in Threads : at'[u] # "idle" /\ ~Clean(u)' => op'[u] \in mixed'
      BY <1>1, <2>1, <2>4 DEF PoolStrong, Doubtful, Clean
    <3>2. \A u \in Threads : at'[u] \notin {"idle", "acquired"} => content'[span'[u]] # 0
      BY <1>1, <2>2 DEF PoolStrong, Doubtful
    <3> QED
      BY <3>1, <3>2 DEF Doubtful
  <2>10. Conserved'
    BY <2>1 DEF Conserved
  <2>11. doubled' \subseteq 1..created' /\ mixed' \subseteq 1..begun'
    <3>1. span[t] # 0 /\ span[t] \in 1..created
      BY <1>t, <1>1 DEF PoolStrong
    <3>2. \A u \in Threads : span[u] = span[t] => op[u] \in 1..begun
      BY <3>1 DEF PoolStrong, Recorded
    <3> QED
      BY <1>t, <1>1, <2>1, <3>1, <3>2
  <2>12. Pool!TypeOK'
    BY <1>1, <2>2, <2>11 DEF PoolStrong, Pool!TypeOK, Pool!MaxSpans
  <2> QED
    BY <1>1, <2>4, <2>5, <2>6, <2>7, <2>8, <2>9, <2>10, <2>12 DEF PoolStrong
<1> QED
  BY <1>2, <1>3

LEMMA RecordKeeps ==
  ASSUME PoolStrong, NEW t \in Threads, Pool!Record(t)
  PROVE  PoolStrong'
<1>t. /\ content \in [1..PoolSize + MaxOps -> 0..MaxOps] /\ ended \in Seq(1..MaxOps)
      /\ completed \in Seq(1..MaxOps) /\ Len(completed) <= MaxCompleted
      /\ MaxCompleted \in Nat \ {0} /\ begun \in Nat /\ begun <= MaxOps /\ MaxOps \in Nat
      /\ op \in [Threads -> 0..MaxOps]
      /\ at[t] # "idle" => span[t] \in 1..PoolSize + MaxOps
  BY PoolTyped
<1>1. /\ at[t] = "recording" /\ at' = [at EXCEPT ![t] = "unmarking"]
      /\ ended' = Append(ended, op[t])
      /\ UNCHANGED <<available, created, content, inUse, span, op, begun, doubled, mixed>>
  BY DEF Pool!Record, Pool!Move
<1>2. "unmarking" \in Having /\ at[t] \in Having
  BY <1>1 DEF Having
<1>3. /\ at'[t] = "unmarking" /\ \A u \in Threads \ {t} : at'[u] = at[u]
      /\ \A u \in Threads : Has(u)' <=> Has(u)
      /\ at' \in [Threads -> Pool!Location]
      /\ \A u \in Threads : Clean(u)' <=> Clean(u)
      /\ \A u \in Threads : at'[u] # "idle" <=> span'[u] # 0
      /\ OneHolder' /\ Conserved'
      /\ \A u \in Threads : at'[u] # "idle" /\ ~Clean(u)' => op'[u] \in mixed'
      /\ \A u \in Threads : at'[u] # "idle" => op'[u] \in 1..begun'
      /\ \A u, v \in Threads : at'[u] # "idle" /\ at'[v] # "idle" /\ op'[u] = op'[v] => u = v
  BY <1>1, <1>2, HolderMoves, Zenon
<1>4. /\ Owing' = Owing \ {t} /\ t \in Owing /\ Owing \subseteq Threads
      /\ op[t] \in 1..begun /\ op[t] \in 1..MaxOps
  BY <1>1, <1>3, <1>t DEF Owing, PoolStrong, Recorded
<1>5. /\ ended' \in Seq(1..MaxOps) /\ Len(ended') = Len(ended) + 1
      /\ DOMAIN ended = 1..Len(ended) /\ DOMAIN ended' = 1..Len(ended')
      /\ Len(ended) \in Nat
      /\ ended'[Len(ended')] = op[t] /\ \A i \in 1..Len(ended) : ended'[i] = ended[i]
  BY <1>1, <1>4, <1>t
<1>6. Recorded'
  <2>0. /\ \A i \in 1..Len(ended) :
             /\ ended[i] \in 1..begun
             /\ \A u \in Owing : ended[i] = op[u] => op[u] \in mixed
        /\ \A i, j \in 1..Len(ended) : ended[i] = ended[j] => i = j \/ ended[i] \in mixed
        /\ \A u, v \in Threads : at[u] # "idle" /\ at[v] # "idle" /\ op[u] = op[v] => u = v
    BY <1>5 DEF PoolStrong, Recorded
  <2>1. \A i \in DOMAIN ended' : i = Len(ended') \/ i \in 1..Len(ended)
    BY <1>5
  <2>2. \A u \in Owing' : op[t] # op[u]
    BY <1>1, <1>4, <2>0 DEF Owing
  <2>3. \A i \in DOMAIN ended' : ended'[i] \in 1..begun'
    BY <1>1, <1>4, <1>5, <2>0, <2>1
  <2>4. \A i \in DOMAIN ended', u \in Owing' : ended'[i] = op'[u] => op'[u] \in mixed'
    <3> SUFFICES ASSUME NEW i \in DOMAIN ended', NEW u \in Owing', ended'[i] = op[u]
                 PROVE  op[u] \in mixed
      BY <1>1
    <3>1. i \in 1..Len(ended) /\ ended[i] = op[u] /\ u \in Owing
      BY <1>4, <1>5, <2>1, <2>2
    <3> QED
      BY <2>0, <3>1
  <2>5. \A i, j \in DOMAIN ended' : ended'[i] = ended'[j] => i = j \/ ended'[i] \in mixed'
    <3> SUFFICES ASSUME NEW i \in DOMAIN ended', NEW j \in DOMAIN ended',
                        ended'[i] = ended'[j], i # j
                 PROVE  ended'[i] \in mixed
      BY <1>1
    <3>1. CASE i \in 1..Len(ended) /\ j \in 1..Len(ended)
      BY <1>5, <2>0, <3>1
    <3>2. CASE i = Len(ended') /\ j \in 1..Len(ended)
      <4>1. ended[j] = op[t] /\ ended'[i] = op[t]
        BY <1>5, <3>2
      <4> QED
        BY <1>4, <2>0, <3>2, <4>1
    <3>3. CASE j = Len(ended') /\ i \in 1..Len(ended)
      <4>1. ended[i] = op[t] /\ ended'[i] = op[t]
        BY <1>5, <3>3
      <4> QED
        BY <1>4, <2>0, <3>3, <4>1
    <3> QED
      BY <2>1, <3>1, <3>2, <3>3
  <2>6. ASSUME NEW o \in 1..begun'
        PROVE  \/ o \in mixed' \/ \E u \in Owing' : op'[u] = o
               \/ \E i \in DOMAIN ended' : ended'[i] = o
    <3>1. CASE o = op[t]
      <4>1. Len(ended') \in DOMAIN ended'
        BY <1>5
      <4> QED
        BY <1>5, <3>1, <4>1
    <3>2. CASE o # op[t]
      <4>1. \/ o \in mixed \/ \E u \in Owing : op[u] = o
            \/ \E i \in 1..Len(ended) : ended[i] = o
        BY <1>1, <1>5 DEF PoolStrong, Recorded
      <4>2. \A i \in 1..Len(ended) : i \in DOMAIN ended' /\ ended'[i] = ended[i]
        BY <1>5
      <4> QED
        BY <1>1, <1>4, <3>2, <4>1, <4>2
    <3> QED
      BY <3>1, <3>2
  <2> QED
    BY <1>3, <2>3, <2>4, <2>5, <2>6 DEF Recorded
<1>c. /\ content[span[t]] \in 1..MaxOps
      /\ op[t] \in {content[span[t]]} \cup mixed
  <2>1. content[span[t]] # 0 /\ content[span[t]] \in 0..MaxOps
    BY <1>t, <1>1 DEF PoolStrong, Doubtful
  <2>2. content[span[t]] = op[t] \/ op[t] \in mixed
    BY <1>1 DEF PoolStrong, OwnData, Doubtful
  <2> QED
    BY <1>t, <2>1, <2>2
<1>7. completed' \in Seq(1..MaxOps) /\ Len(completed') <= MaxCompleted
  <2> DEFINE longer == Append(completed, content[span[t]])
  <2>2. longer \in Seq(1..MaxOps) /\ Len(longer) = Len(completed) + 1
    BY <1>t, <1>c
  <2>3. completed' = IF Len(longer) > MaxCompleted THEN Tail(longer) ELSE longer
    BY DEF Pool!Record
  <2> HIDE DEF longer
  <2>4. CASE Len(longer) > MaxCompleted
    BY <1>t, <2>2, <2>3, <2>4
  <2>5. CASE ~(Len(longer) > MaxCompleted)
    BY <1>t, <2>2, <2>3, <2>5
  <2> QED
    BY <2>4, <2>5
\* The copy is of the operation that is recorded, and the oldest is dropped.
<1>8. OwnData'
  <2> DEFINE longer == Append(completed, content[span[t]])
  <2>2. /\ longer \in Seq(1..MaxOps) /\ Len(longer) = Len(completed) + 1
        /\ longer[Len(longer)] = content[span[t]]
        /\ \A i \in 1..Len(completed) : longer[i] = completed[i]
    BY <1>t, <1>c
  <2>3. completed' = IF Len(longer) > MaxCompleted THEN Tail(longer) ELSE longer
    BY DEF Pool!Record
  <2>4. /\ Len(completed) \in Nat /\ Len(completed) <= Len(ended)
        /\ \A i \in 1..Len(completed) :
             ended[Len(ended) - Len(completed) + i] \in {completed[i]} \cup mixed
    BY <1>t DEF PoolStrong, OwnData
  <2> HIDE DEF longer
  <2>5. \A i \in 1..Len(longer) :
          ended'[Len(ended') - Len(longer) + i] \in {longer[i]} \cup mixed
    <3> SUFFICES ASSUME NEW i \in 1..Len(longer)
                 PROVE  ended'[Len(ended') - Len(longer) + i] \in {longer[i]} \cup mixed
      OBVIOUS
    <3>1. CASE i = Len(longer)
      BY <1>5, <1>c, <2>2, <2>4, <3>1
    <3>2. CASE i # Len(longer)
      <4>1. i \in 1..Len(completed)
        BY <2>2, <2>4, <3>2
      <4>2. /\ Len(ended') - Len(longer) + i = Len(ended) - Len(completed) + i
            /\ Len(ended) - Len(completed) + i \in 1..Len(ended)
        BY <1>5, <2>2, <2>4, <4>1
      <4> QED
        BY <1>5, <2>2, <2>4, <4>1, <4>2
    <3> QED
      BY <3>1, <3>2
  <2>n. /\ Len(longer) \in Nat /\ Len(ended') \in Nat /\ Len(longer) <= Len(ended')
        /\ Len(longer) >= 1
    BY <1>5, <2>2, <2>4
  <2>6. /\ Len(completed') <= Len(ended')
        /\ \A i \in 1..Len(completed') :
             ended'[Len(ended') - Len(completed') + i] \in {completed'[i]} \cup mixed
    <3>1. CASE Len(longer) > MaxCompleted
      <4>1. /\ completed' = Tail(longer) /\ Len(completed') = Len(longer) - 1
            /\ \A i \in 1..Len(completed') : completed'[i] = longer[i + 1]
        BY <2>2, <2>3, <2>4, <3>1
      <4>2. Len(completed') = Len(longer) - 1
        BY <4>1
      <4>3. ASSUME NEW i \in 1..Len(completed')
            PROVE  ended'[Len(ended') - Len(completed') + i] \in {completed'[i]} \cup mixed
        <5>1. i + 1 \in 1..Len(longer)
          BY <2>2, <2>4, <4>1
        <5>2. Len(ended') - Len(longer) + (i + 1) = Len(ended') - Len(completed') + i
          BY <2>n, <4>2
        <5>3. ended'[Len(ended') - Len(longer) + (i + 1)] \in {longer[i + 1]} \cup mixed
          BY <2>5, <5>1
        <5>4. completed'[i] = longer[i + 1]
          BY <4>1
        <5> QED
          BY <5>2, <5>3, <5>4
      <4>4. Len(completed') <= Len(ended')
        BY <2>n, <4>2
      <4> QED
        BY <4>3, <4>4
    <3>2. CASE ~(Len(longer) > MaxCompleted)
      <4>1. completed' = longer
        BY <2>3, <3>2
      <4> QED
        BY <2>n, <2>5, <4>1
    <3> QED
      BY <3>1, <3>2
  <2>7. \A u \in Threads :
          at'[u] \in {"using", "recording"} /\ Clean(u)' => content'[span'[u]] = op'[u]
    BY <1>1, <1>3 DEF PoolStrong, OwnData
  <2> QED
    BY <1>1, <2>6, <2>7 DEF OwnData
<1>9. Pool!TypeOK'
  BY <1>1, <1>3, <1>5, <1>7 DEF PoolStrong, Pool!TypeOK, Pool!MaxSpans
<1>10. Marked'
  <2>1. \A u \in Threads : at[u] \in {"using", "recording", "unmarking"} =>
          at'[u] \in {"using", "recording", "unmarking"}
    BY <1>1, <1>3
  <2> QED
    BY <1>1, <1>3, <2>1 DEF PoolStrong, Marked, Pool!MaxSpans
<1>11. Doubtful'
  BY <1>1, <1>3 DEF PoolStrong, Doubtful
<1> QED
  BY <1>1, <1>3, <1>6, <1>8, <1>9, <1>10, <1>11 DEF PoolStrong

LEMMA UnmarkKeeps ==
  ASSUME PoolStrong, NEW t \in Threads, Pool!Unmark(t)
  PROVE  PoolStrong'
<1>t. /\ inUse \in [1..PoolSize + MaxOps -> BOOLEAN]
      /\ at[t] # "idle" => span[t] \in 1..PoolSize + MaxOps
  BY PoolTyped
<1>1. /\ at[t] = "unmarking" /\ at' = [at EXCEPT ![t] = "returning"]
      /\ inUse' = [inUse EXCEPT ![span[t]] = FALSE]
      /\ UNCHANGED <<available, created, completed, content, span, op, begun, ended, doubled,
                     mixed>>
  BY DEF Pool!Unmark, Pool!Move
<1>2. "returning" \in Having /\ at[t] \in Having
  BY <1>1 DEF Having
<1>3. /\ at'[t] = "returning" /\ \A u \in Threads \ {t} : at'[u] = at[u]
      /\ \A u \in Threads : Has(u)' <=> Has(u)
      /\ at' \in [Threads -> Pool!Location]
      /\ \A u \in Threads : Clean(u)' <=> Clean(u)
      /\ \A u \in Threads : at'[u] # "idle" <=> span'[u] # 0
      /\ OneHolder' /\ Conserved'
      /\ \A u \in Threads : at'[u] # "idle" /\ ~Clean(u)' => op'[u] \in mixed'
      /\ \A u \in Threads : at'[u] # "idle" => op'[u] \in 1..begun'
      /\ \A u, v \in Threads : at'[u] # "idle" /\ at'[v] # "idle" /\ op'[u] = op'[v] => u = v
  BY <1>1, <1>2, HolderMoves, Zenon
<1>4. Owing' = Owing
  BY <1>1, <1>3 DEF Owing
<1>5. Recorded'
  BY <1>1, <1>3, <1>4 DEF PoolStrong, Recorded
<1>6. inUse' \in [1..PoolSize + MaxOps -> BOOLEAN]
  BY <1>t, <1>1
<1>7. Pool!TypeOK'
  BY <1>1, <1>3, <1>6 DEF PoolStrong, Pool!TypeOK, Pool!MaxSpans
<1>8. /\ ~inUse'[span[t]]
      /\ \A s \in 1..PoolSize + MaxOps : s # span[t] => inUse'[s] = inUse[s]
  BY <1>t, <1>1
<1>9. \A s \in 1..Pool!MaxSpans : inUse'[s] => s \in doubled' \/ \E u \in Threads :
        at'[u] \in {"using", "recording", "unmarking"} /\ span'[u] = s
  <2> SUFFICES ASSUME NEW s \in 1..Pool!MaxSpans, inUse'[s], s \notin doubled
               PROVE  \E u \in Threads :
                        at'[u] \in {"using", "recording", "unmarking"} /\ span'[u] = s
    BY <1>1
  <2>1. inUse[s] /\ s # span[t]
    BY <1>8 DEF Pool!MaxSpans
  <2>2. PICK u \in Threads : at[u] \in {"using", "recording", "unmarking"} /\ span[u] = s
    BY <2>1 DEF PoolStrong, Marked
  <2> QED
    BY <1>1, <1>3, <2>1, <2>2
<1>10. \A u \in Threads : at'[u] = "using" /\ Clean(u)' => inUse'[span'[u]]
  <2> SUFFICES ASSUME NEW u \in Threads, at'[u] = "using", Clean(u) PROVE inUse'[span[u]]
    BY <1>1, <1>3
  <2>1. at[u] = "using" /\ u # t /\ Has(u) /\ Has(t)
    BY <1>1, <1>3 DEF Has, Having
  <2>2. span[u] # span[t] /\ inUse[span[u]] /\ span[u] \in 1..PoolSize + MaxOps
    BY <2>1, PoolTyped DEF PoolStrong, OneHolder, Marked
  <2> QED
    BY <1>8, <2>2
<1>11. Marked'
  BY <1>3, <1>9, <1>10 DEF Marked
<1>12. \A u \in Threads :
         at'[u] \in {"using", "recording"} => at[u] \in {"using", "recording"}
  BY <1>1, <1>3
<1>13. OwnData'
  BY <1>1, <1>3, <1>12, OwnDataKept DEF PoolStrong
<1>14. Doubtful'
  BY <1>1, <1>3 DEF PoolStrong, Doubtful
<1> QED
  BY <1>1, <1>3, <1>5, <1>7, <1>11, <1>13, <1>14 DEF PoolStrong

LEMMA ReturnKeeps ==
  ASSUME PoolStrong, NEW t \in Threads, Pool!Return(t)
  PROVE  PoolStrong'
<1>t. /\ at \in [Threads -> Pool!Location] /\ available \in Seq(1..created)
      /\ Len(available) <= PoolSize /\ PoolSize \in Nat
      /\ (at[t] # "idle" => span[t] \in 1..created)
  BY PoolTyped
<1>1. /\ at[t] = "returning" /\ at' = [at EXCEPT ![t] = "released"]
      /\ available' = IF Len(available) < PoolSize THEN Append(available, span[t])
                                                   ELSE available
      /\ UNCHANGED <<created, completed, content, inUse, span, op, begun, ended, doubled, mixed>>
  BY DEF Pool!Return, Pool!Move
<1>2. /\ at'[t] = "released" /\ \A u \in Threads \ {t} : at'[u] = at[u]
      /\ at' \in [Threads -> Pool!Location]
  BY <1>t, <1>1 DEF Pool!Location
<1>3. /\ Has(t) /\ ~Has(t)' /\ \A u \in Threads \ {t} : Has(u)' <=> Has(u)
      /\ Out' = Out \ {t} /\ t \in Out /\ Out \subseteq Threads /\ Owing' = Owing
      /\ \A u \in Threads : Clean(u)' <=> Clean(u)
  BY <1>1, <1>2 DEF Has, Having, Out, Owing, Clean
<1>4. /\ span[t] \in 1..created /\ Len(available) \in Nat
      /\ DOMAIN available = 1..Len(available)
  BY <1>t, <1>1
<1>5. /\ available' \in Seq(1..created') /\ Len(available') <= PoolSize
      /\ Len(available') \in Nat
      /\ Len(available') = Len(available) + 1 \/ Len(available') = PoolSize
      /\ \A i \in DOMAIN available' :
           \/ i \in DOMAIN available /\ available'[i] = available[i]
           \/ i = Len(available) + 1 /\ available'[i] = span[t]
  <2>1. CASE Len(available) < PoolSize
    <3>1. available' = Append(available, span[t]) /\ created' = created
      BY <1>1, <2>1
    <3>2. /\ available' \in Seq(1..created) /\ Len(available') = Len(available) + 1
          /\ available'[Len(available) + 1] = span[t]
          /\ \A i \in 1..Len(available) : available'[i] = available[i]
      BY <1>t, <1>4, <3>1
    <3>3. DOMAIN available' = 1..Len(available) + 1
      BY <3>2
    <3>4. \A i \in DOMAIN available' :
            \/ i \in DOMAIN available /\ available'[i] = available[i]
            \/ i = Len(available) + 1 /\ available'[i] = span[t]
      BY <1>4, <3>2, <3>3
    <3> QED
      BY <1>t, <1>4, <2>1, <3>1, <3>2, <3>4
  <2>2. CASE ~(Len(available) < PoolSize)
    <3>1. available' = available /\ created' = created
      BY <1>1, <2>2
    <3>2. Len(available) = PoolSize
      <4>1. Len(available) \in Nat /\ PoolSize \in Nat /\ Len(available) <= PoolSize
        BY <1>t, <1>4
      <4> QED
        BY <2>2, <4>1
    <3> QED
      BY <1>t, <1>4, <3>1, <3>2
  <2> QED
    BY <2>1, <2>2
<1>6. OneHolder'
  <2>1. \A u, v \in Threads :
          Has(u)' /\ Has(v)' /\ span'[u] = span'[v] /\ Clean(u)' => u = v
    BY <1>1, <1>3 DEF PoolStrong, OneHolder
  <2>2. \A i \in DOMAIN available : available[i] = span[t] => span[t] \in doubled
    BY <1>3 DEF PoolStrong, OneHolder, Clean
  <2>3. \A i, j \in DOMAIN available' :
          available'[i] = available'[j] => i = j \/ available'[i] \in doubled'
    <3>1. \A i, j \in DOMAIN available :
            available[i] = available[j] => i = j \/ available[i] \in doubled
      BY DEF PoolStrong, OneHolder
    <3> QED
      BY <1>1, <1>5, <2>2, <3>1
  <2>4. \A u \in Threads, i \in DOMAIN available' :
          Has(u)' /\ Clean(u)' => available'[i] # span'[u]
    <3> SUFFICES ASSUME NEW u \in Threads, NEW i \in DOMAIN available', Has(u)', Clean(u)'
                 PROVE  available'[i] # span[u]
      BY <1>1
    <3>1. u # t /\ Has(u) /\ Clean(u) /\ span[u] # span[t]
      BY <1>3 DEF PoolStrong, OneHolder
    <3>2. \A j \in DOMAIN available : available[j] # span[u]
      BY <3>1 DEF PoolStrong, OneHolder
    <3> QED
      BY <1>5, <3>1, <3>2
  <2> QED
    BY <2>1, <2>3, <2>4 DEF OneHolder
<1>7. Recorded'
  <2>1. \A u \in Threads : at'[u] # "idle" <=> at[u] # "idle"
    BY <1>1, <1>2
  <2> QED
    BY <1>1, <1>3, <2>1 DEF PoolStrong, Recorded
<1>8. Marked'
  <2>1. \A u \in Threads : at[u] \in {"using", "recording", "unmarking"} =>
          at'[u] \in {"using", "recording", "unmarking"}
    BY <1>1, <1>2
  <2>2. \A u \in Threads : at'[u] = "using" /\ Clean(u)' => inUse'[span'[u]]
    BY <1>1, <1>2, <1>3 DEF PoolStrong, Marked
  <2> QED
    BY <1>1, <2>1, <2>2 DEF PoolStrong, Marked, Pool!MaxSpans
<1>9. OwnData'
  <2>1. \A u \in Threads :
          at'[u] \in {"using", "recording"} => at[u] \in {"using", "recording"}
    BY <1>1, <1>2
  <2> QED
    BY <1>1, <1>3, <2>1, OwnDataKept DEF PoolStrong
<1>10. Pool!TypeOK'
  BY <1>1, <1>2, <1>5 DEF PoolStrong, Pool!TypeOK, Pool!MaxSpans
\* A span is given up when the pool is full without it.
<1>11. Conserved'
  <2> SUFFICES ASSUME doubled = {} PROVE Len(available') + Cardinality(Out') >= PoolSize
    BY <1>1 DEF Conserved
  <2>1. Cardinality(Out') = Cardinality(Out) - 1 /\ Cardinality(Out) \in Nat
        /\ Cardinality(Out) > 0
    BY <1>3, SubsetsFinite, OneLess
  <2>2. Len(available) + Cardinality(Out) >= PoolSize
    BY DEF PoolStrong, Conserved
  <2> QED
    BY <1>t, <1>4, <1>5, <2>1, <2>2
<1>12. \A u \in Threads : at'[u] # "idle" <=> span'[u] # 0
  BY <1>1, <1>2 DEF PoolStrong
<1>13. Doubtful'
  BY <1>1, <1>2, <1>3 DEF PoolStrong, Doubtful
<1> QED
  BY <1>1, <1>6, <1>7, <1>8, <1>9, <1>10, <1>11, <1>12, <1>13 DEF PoolStrong

LEMMA ForgetKeeps ==
  ASSUME PoolStrong, NEW t \in Threads, Pool!Forget(t)
  PROVE  PoolStrong'
<1>t. /\ at \in [Threads -> Pool!Location] /\ created \in Nat /\ MaxOps \in Nat
      /\ span \in [Threads -> 0..created] /\ op \in [Threads -> 0..MaxOps]
  BY PoolTyped
<1>1. /\ at[t] = "released" /\ at' = [at EXCEPT ![t] = "idle"]
      /\ span' = [span EXCEPT ![t] = 0] /\ op' = [op EXCEPT ![t] = 0]
      /\ UNCHANGED <<available, created, completed, content, inUse, begun, ended, doubled, mixed>>
  BY DEF Pool!Forget, Pool!Move, Pool!NoSpan, Pool!NoOp
<1>2. /\ at'[t] = "idle" /\ at' \in [Threads -> Pool!Location]
      /\ span' \in [Threads -> 0..created] /\ op' \in [Threads -> 0..MaxOps]
      /\ \A u \in Threads \ {t} : at'[u] = at[u] /\ span'[u] = span[u] /\ op'[u] = op[u]
  BY <1>t, <1>1 DEF Pool!Location
<1>3. /\ \A u \in Threads : Has(u)' <=> Has(u)
      /\ \A u \in Threads : Has(u) => u # t
      /\ Out' = Out /\ Owing' = Owing
      /\ \A u \in Owing : op'[u] = op[u]
      /\ \A u \in Threads \ {t} : Clean(u)' <=> Clean(u)
  BY <1>1, <1>2 DEF Has, Having, Out, Owing, Clean
<1>4. OneHolder'
  BY <1>1, <1>2, <1>3 DEF PoolStrong, OneHolder
<1>5. Recorded'
  <2>1. \A u \in Threads : at'[u] # "idle" => at[u] # "idle" /\ op'[u] = op[u]
    BY <1>2
  <2> QED
    BY <1>1, <1>3, <2>1 DEF PoolStrong, Recorded
<1>6. \A u \in Threads : at[u] \in {"using", "recording", "unmarking"} =>
        at'[u] \in {"using", "recording", "unmarking"} /\ span'[u] = span[u]
  BY <1>1, <1>2
<1>7. Marked'
  <2>1. \A u \in Threads : at'[u] = "using" /\ Clean(u)' => inUse'[span'[u]]
    BY <1>1, <1>2, <1>3 DEF PoolStrong, Marked
  <2>3. \A s \in 1..Pool!MaxSpans : inUse'[s] => s \in doubled' \/ \E u \in Threads :
          at'[u] \in {"using", "recording", "unmarking"} /\ span'[u] = s
    <3> SUFFICES ASSUME NEW s \in 1..Pool!MaxSpans, inUse[s], s \notin doubled
                 PROVE  \E u \in Threads :
                          at'[u] \in {"using", "recording", "unmarking"} /\ span'[u] = s
      BY <1>1
    <3>1. PICK u \in Threads : at[u] \in {"using", "recording", "unmarking"} /\ span[u] = s
      BY DEF PoolStrong, Marked
    <3> QED
      BY <1>6, <3>1
  <2> QED
    BY <2>1, <2>3 DEF Marked, Pool!MaxSpans
<1>8. OwnData'
  <2>1. \A u \in Threads :
          at'[u] \in {"using", "recording"} => u # t /\ at[u] \in {"using", "recording"}
    BY <1>2
  <2> QED
    BY <1>1, <1>2, <1>3, <2>1, OwnDataKept DEF PoolStrong
<1>9. Pool!TypeOK'
  BY <1>1, <1>2 DEF PoolStrong, Pool!TypeOK, Pool!MaxSpans
<1>10. \A u \in Threads : at'[u] # "idle" <=> span'[u] # 0
  BY <1>1, <1>2 DEF PoolStrong
<1>11. Doubtful' /\ Conserved'
  BY <1>1, <1>2, <1>3 DEF PoolStrong, Doubtful, Conserved
<1> QED
  BY <1>1, <1>3, <1>4, <1>5, <1>7, <1>8, <1>9, <1>10, <1>11 DEF PoolStrong

LEMMA PoolStep == PoolStrong /\ [Pool!Next]_poolVars => PoolStrong'
<1> SUFFICES ASSUME PoolStrong, [Pool!Next]_poolVars PROVE PoolStrong'
  OBVIOUS
<1>1. CASE Pool!Clear
  <2>1. completed' = <<>> /\ completed' \in Seq(1..MaxOps) /\ Len(completed') = 0
        /\ UNCHANGED <<available, created, content, inUse, at, span, op, begun, ended, doubled,
                       mixed>>
    BY <1>1 DEF Pool!Clear
  <2>2. /\ Out' = Out /\ Owing' = Owing
        /\ \A t \in Threads : (Has(t)' <=> Has(t)) /\ (Clean(t)' <=> Clean(t))
    BY <2>1 DEF Out, Owing, Has, Clean
  <2>3. OneHolder' /\ Recorded' /\ Marked' /\ Doubtful' /\ Conserved'
    BY <2>1, <2>2 DEF PoolStrong, OneHolder, Recorded, Marked, Doubtful, Conserved
  <2>4. OwnData'
    <3>1. Len(ended) \in Nat
      BY PoolTyped
    <3> QED
      BY <2>1, <2>2, <3>1 DEF PoolStrong, OwnData
  <2>5. Pool!TypeOK'
    BY <2>1, PoolTyped DEF PoolStrong, Pool!TypeOK
  <2> QED
    BY <2>1, <2>2, <2>3, <2>4, <2>5 DEF PoolStrong
<1>2. CASE UNCHANGED poolVars
  BY <1>2, PoolRests
<1> QED
  BY <1>1, <1>2, AcquireKeeps, ResetKeeps, ReleaseKeeps, ReleaseAgainKeeps, RecordKeeps,
     UnmarkKeeps, ReturnKeeps, ForgetKeeps DEF Pool!Next

-----------------------------------------------------------------------------
\* What the invariant says of the holders of a span, the places of the pool and the
\* records is what the runs check.
LEMMA PoolImplies == PoolStrong => Pool!PoolInv
<1> SUFFICES ASSUME PoolStrong PROVE Pool!PoolInv
  OBVIOUS
<1>t. /\ created \in Nat /\ PoolSize \in Nat /\ available \in Seq(1..created)
      /\ DOMAIN available = 1..Len(available) /\ Len(available) \in Nat
      /\ ended \in Seq(1..MaxOps) /\ DOMAIN ended = 1..Len(ended) /\ Len(ended) \in Nat
      /\ begun \in Nat /\ created <= PoolSize + begun /\ begun <= MaxOps /\ MaxOps \in Nat
  BY PoolTyped
<1>h. \A s : Pool!Holders(s) = {t \in Threads : Has(t) /\ span[t] = s}
  BY DEF Pool!Holders, Pool!Holds, Has, Having
<1>1. Pool!Exclusive
  <2> SUFFICES ASSUME NEW s \in 1..created \ doubled
               PROVE  Cardinality(Pool!Holders(s)) + Cardinality(Pool!Pooled(s)) <= 1
    BY PoolCardinality DEF Pool!Exclusive
  <2>1. \A x, y \in Pool!Holders(s) : x = y
    BY <1>h DEF PoolStrong, OneHolder, Clean
  <2>2. \A x, y \in Pool!Pooled(s) : x = y
    BY DEF PoolStrong, OneHolder, Pool!Pooled
  <2>3. Pool!Holders(s) = {} \/ Pool!Pooled(s) = {}
    BY <1>h DEF PoolStrong, OneHolder, Pool!Pooled, Clean
  <2>4. /\ Cardinality(Pool!Holders(s)) \in 0..1
        /\ Pool!Holders(s) = {} => Cardinality(Pool!Holders(s)) = 0
    BY <2>1, AtMostOne
  <2>5. /\ Cardinality(Pool!Pooled(s)) \in 0..1
        /\ Pool!Pooled(s) = {} => Cardinality(Pool!Pooled(s)) = 0
    BY <2>2, AtMostOne
  <2> QED
    BY <2>3, <2>4, <2>5
<1>2. Pool!SpansConserved
  <2>1. UNION {Pool!Holders(s) : s \in 1..created} = Out
    <3>1. \A t \in Threads : Has(t) => span[t] \in 1..created
      BY PoolTyped DEF Has, Having
    <3> QED
      BY <1>h, <3>1 DEF Out, Has
  <2> QED
    BY <2>1, PoolCardinality DEF Pool!SpansConserved, PoolStrong, Conserved
<1>3. Pool!RecordedOnce
  <2> SUFFICES ASSUME NEW o \in 1..begun \ mixed
               PROVE  Cardinality({i \in DOMAIN ended : ended[i] = o})
                        = IF Pool!Owes(o) THEN 0 ELSE 1
    BY PoolCardinality DEF Pool!RecordedOnce
  <2> DEFINE S == {i \in DOMAIN ended : ended[i] = o}
  <2>1. \A i, j \in S : i = j
    BY DEF PoolStrong, Recorded
  <2>2. Cardinality(S) \in 0..1 /\ (S = {} => Cardinality(S) = 0)
    <3> HIDE DEF S
    <3> QED
      BY <2>1, AtMostOne
  <2>3. Pool!Owes(o) <=> \E t \in Owing : op[t] = o
    BY DEF Pool!Owes, Owing
  <2>4. CASE Pool!Owes(o)
    <3>1. S = {}
      BY <2>3, <2>4 DEF PoolStrong, Recorded
    <3> QED
      BY <2>2, <2>4, <3>1
  <2>5. CASE ~Pool!Owes(o)
    <3>1. S # {}
      BY <2>3, <2>5 DEF PoolStrong, Recorded
    <3>2. IsFiniteSet(S)
      <4> HIDE DEF S
      <4> QED
        BY <2>1, AtMostOne
    <3>3. Cardinality(S) # 0
      <4> HIDE DEF S
      <4> QED
        BY <3>1, <3>2, FS_EmptySet
    <3> QED
      BY <2>2, <2>5, <3>3
  <2> QED
    BY <2>4, <2>5
\* A marked span is with a thread, so it is not in the pool.
<1>4. \A s \in Pool!ToSet(available) \ doubled : ~inUse[s]
  <2> SUFFICES ASSUME NEW i \in DOMAIN available, inUse[available[i]],
                      available[i] \notin doubled
               PROVE  FALSE
    BY DEF Pool!ToSet
  <2>1. available[i] \in 1..Pool!MaxSpans
    <3>1. available[i] \in 1..created
      BY <1>t
    <3> QED
      BY <1>t, <3>1 DEF Pool!MaxSpans
  <2>2. PICK t \in Threads :
          at[t] \in {"using", "recording", "unmarking"} /\ span[t] = available[i]
    BY <2>1 DEF PoolStrong, Marked
  <2>3. Has(t)
    BY <2>2 DEF Has, Having
  <2> QED
    BY <2>2, <2>3 DEF PoolStrong, OneHolder, Clean
<1> QED
  BY <1>1, <1>2, <1>3, <1>4 DEF PoolStrong, Pool!PoolInv

LEMMA DataImplies == PoolStrong => Pool!KeepsOwnData
<1> SUFFICES ASSUME PoolStrong PROVE Pool!KeepsOwnData
  OBVIOUS
<1>1. Len(ended) \in Nat /\ Len(completed) \in Nat /\ DOMAIN completed = 1..Len(completed)
  BY PoolTyped
<1>2. Len(completed) <= Len(ended) /\ \A i \in 1..Len(completed) :
        ended[Len(ended) - Len(completed) + i] \in {completed[i]} \cup mixed
  BY DEF PoolStrong, OwnData
<1> QED
  BY <1>1, <1>2 DEF Pool!KeepsOwnData

\* Whatever the threads do, a span serves one operation at a time and is recorded once for
\* each, until a second release() finds that a later operation has marked it; no other span
\* and no other operation suffers from that, and while it has not happened none is lost
\* (span_pool.py:119-159).
THEOREM SpansAreSafe == SharedSpec => []PoolInv
<1> DEFINE Inv == part = "pool" => PoolStrong
<1>1. SharedInit => Inv
  BY PoolInitial DEF SharedInit
<1>2. Inv /\ [SharedNext]_allVars => Inv'
  BY PoolStep, StepOfPart
<1>3. Inv => PoolInv
  BY PoolImplies DEF PoolInv
<1>4. SharedSpec => SharedInit /\ [][SharedNext]_allVars
  BY PTL DEF SharedSpec
<1> HIDE DEF Inv
<1> QED
  BY <1>1, <1>2, <1>3, <1>4, PTL

\* The kept spans are the latest that were released, each with its operation's own data
\* unless the operation had a span that was released twice (span_pool.py:148-154).
THEOREM SpansKeepTheirData == SharedSpec => []KeepsOwnData
<1> DEFINE Inv == part = "pool" => PoolStrong
<1>1. SharedInit => Inv
  BY PoolInitial DEF SharedInit
<1>2. Inv /\ [SharedNext]_allVars => Inv'
  BY PoolStep, StepOfPart
<1>3. Inv => KeepsOwnData
  BY DataImplies DEF KeepsOwnData
<1>4. SharedSpec => SharedInit /\ [][SharedNext]_allVars
  BY PTL DEF SharedSpec
<1> HIDE DEF Inv
<1> QED
  BY <1>1, <1>2, <1>3, <1>4, PTL
=============================================================================
