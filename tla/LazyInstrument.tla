--------------------------- MODULE LazyInstrument ---------------------------
(***************************************************************************)
(* The lazy counter of performance/lazy.py, which the lazy gauge and the   *)
(* lazy histogram repeat: the counter is made by the first call that needs *)
(* it, under a lock that is taken only when there is none yet.             *)
(***************************************************************************)
EXTENDS Integers, FiniteSets

CONSTANTS Threads, MaxIncs   \* bound on the calls of inc()

LazyAssumption == IsFiniteSet(Threads) /\ MaxIncs \in Nat

VARIABLES counter,       \* the number of the counter _counter, 0 for None
          made,          \* the number of counters made
          initialized,   \* _initialized
          lock,          \* the threads that hold _lock
          step,          \* where each thread is
          call,          \* "inc" or "get"
          values,        \* the value of each counter
          answer,        \* what the last get() of each thread returned
          owed,          \* history: the increments a get() must answer with
          incs, calls    \* history: increments done, and begun

lazyVars == <<counter, made, initialized, lock, step, call, values, answer, owed, incs, calls>>

Steps == {"idle", "locking", "marking", "using"}

TypeOK ==
  /\ counter \in 0..made /\ made \in 0..Cardinality(Threads) /\ initialized \in BOOLEAN
  /\ lock \subseteq Threads /\ Cardinality(lock) <= 1
  /\ step \in [Threads -> Steps] /\ call \in [Threads -> {"inc", "get"}]
  /\ values \in [1..Cardinality(Threads) -> Nat] /\ answer \in [Threads -> Nat]
  /\ owed \in [Threads -> Nat] /\ incs \in Nat /\ calls \in 0..MaxIncs

Init ==
  /\ counter = 0 /\ made = 0 /\ initialized = FALSE /\ lock = {}
  /\ step = [t \in Threads |-> "idle"] /\ call = [t \in Threads |-> "inc"]
  /\ values = [c \in 1..Cardinality(Threads) |-> 0]
  /\ answer = [t \in Threads |-> 0] /\ owed = [t \in Threads |-> 0]
  /\ incs = 0 /\ calls = 0

Goto(t, s) == step' = [step EXCEPT ![t] = s]

\* The first test of _ensure(), without the lock; get() answers 0 instead as long as
\* the counter is not marked as initialized.
Begin(t, c) ==
  /\ step[t] = "idle" /\ (c = "inc" => calls < MaxIncs)
  /\ calls' = IF c = "inc" THEN calls + 1 ELSE calls
  /\ call' = [call EXCEPT ![t] = c]
  /\ IF c = "get" /\ ~initialized
       THEN answer' = [answer EXCEPT ![t] = 0] /\ owed' = [owed EXCEPT ![t] = 0]
            /\ UNCHANGED step
       ELSE /\ Goto(t, IF counter = 0 THEN "locking" ELSE "using")
            /\ owed' = [owed EXCEPT ![t] = incs] /\ UNCHANGED answer
  /\ UNCHANGED <<counter, made, initialized, lock, values, incs>>

\* Faulty: the test is not repeated under the lock.
StillMissing_Assumed == TRUE

StillMissing == counter = 0

\* The second test, under the lock, and the assignment of the counter, ...
Ensure(t) ==
  /\ step[t] = "locking" /\ lock = {}
  /\ IF StillMissing
       THEN /\ made' = made + 1 /\ counter' = made' /\ lock' = {t} /\ Goto(t, "marking")
       ELSE Goto(t, "using") /\ UNCHANGED <<counter, made, lock>>
  /\ UNCHANGED <<initialized, call, values, answer, owed, incs, calls>>

\* ... and after it that of _initialized.
Mark(t) ==
  /\ step[t] = "marking" /\ initialized' = TRUE /\ lock' = {} /\ Goto(t, "using")
  /\ UNCHANGED <<counter, made, call, values, answer, owed, incs, calls>>

\* Counter.inc() or Counter.get() of the counter _ensure() has returned.
Use(t) ==
  /\ step[t] = "using" /\ Goto(t, "idle")
  /\ IF call[t] = "inc"
       THEN /\ values' = [values EXCEPT ![counter] = @ + 1] /\ incs' = incs + 1
            /\ UNCHANGED answer
       ELSE answer' = [answer EXCEPT ![t] = values[counter]] /\ UNCHANGED <<values, incs>>
  /\ UNCHANGED <<counter, made, initialized, lock, call, owed, calls>>

Next == \E t \in Threads :
          Ensure(t) \/ Mark(t) \/ Use(t) \/ \E c \in {"inc", "get"} : Begin(t, c)

-----------------------------------------------------------------------------
\* One counter is made and has every increment, so get() misses none that was done
\* when it began; it answers 0 in spite of one only while the maker of the counter
\* has not marked it yet (lazy.py:32-48).
LazyInv ==
  /\ TypeOK /\ made <= 1 /\ (made = 1 => values[1] = incs)
  /\ \A t \in Threads : step[t] = "idle" => answer[t] >= owed[t] \/ call[t] = "inc"
  /\ incs > 0 /\ ~initialized => \E t \in Threads : step[t] = "marking"
=============================================================================
