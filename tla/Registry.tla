------------------------------ MODULE Registry ------------------------------
(***************************************************************************)
(* Get-or-create without a lock, as get_circuit_breaker (_base.py),        *)
(* get_collector and the instruments of a collector (metrics.py, lazy.py,  *)
(* batching.py) do it for one name: a test, a creation, and a look-up.     *)
(* Objects are numbered in the order of their creation.                    *)
(***************************************************************************)
EXTENDS Integers

CONSTANTS Threads, MaxObjects, MaxClears   \* bounds on the objects and the clearings

RegistryAssumption == MaxObjects \in Nat /\ MaxClears \in Nat

VARIABLES entry,    \* the object of the name, 0 if there is none
          made,     \* the number of objects created
          step,     \* where each thread is
          got,      \* what its last call returned, or KeyError
          expect,   \* history: what its call must return, 0 if that is open
          cleared,  \* history: whether the registry was cleared during its call
          clears    \* history: the number of clearings

registryVars == <<entry, made, step, got, expect, cleared, clears>>

KeyError == -1

TypeOK ==
  /\ entry \in 0..made /\ made \in 0..MaxObjects /\ clears \in 0..MaxClears
  /\ step \in [Threads -> {"idle", "making", "reading"}]
  /\ got \in [Threads -> KeyError..made] /\ expect \in [Threads -> 0..made]
  /\ cleared \in [Threads -> BOOLEAN]

Init ==
  /\ entry = 0 /\ made = 0 /\ clears = 0
  /\ step = [t \in Threads |-> "idle"] /\ got = [t \in Threads |-> 0]
  /\ expect = [t \in Threads |-> 0] /\ cleared = [t \in Threads |-> FALSE]

Goto(t, s) == step' = [step EXCEPT ![t] = s]

\* Faulty: the object is always made anew.
Test_Never == FALSE

Test == entry # 0

\* "if name not in registry".
Begin(t) ==
  /\ step[t] = "idle" /\ Goto(t, IF Test THEN "reading" ELSE "making")
  /\ expect' = [expect EXCEPT ![t] =
                  IF \E u \in Threads : step[u] = "making" THEN 0 ELSE entry]
  /\ cleared' = [cleared EXCEPT ![t] = FALSE]
  /\ UNCHANGED <<entry, made, got, clears>>

\* "registry[name] = ...".
Make(t) ==
  /\ step[t] = "making" /\ made < MaxObjects
  /\ made' = made + 1 /\ entry' = made' /\ Goto(t, "reading")
  /\ UNCHANGED <<got, expect, cleared, clears>>

\* "return registry[name]".
Return(t) ==
  /\ step[t] = "reading" /\ Goto(t, "idle")
  /\ got' = [got EXCEPT ![t] = IF entry = 0 THEN KeyError ELSE entry]
  /\ UNCHANGED <<entry, made, expect, cleared, clears>>

\* reset_all_breakers() and reset_collectors().
Clear ==
  /\ clears < MaxClears /\ clears' = clears + 1 /\ entry' = 0
  /\ cleared' = [t \in Threads |-> TRUE]
  /\ UNCHANGED <<made, step, got, expect>>

Next == Clear \/ \E t \in Threads : Begin(t) \/ Make(t) \/ Return(t)

Spec == Init /\ [][Next]_registryVars

-----------------------------------------------------------------------------
\* Unless the registry is cleared under it, a call gets an object, and the one that
\* was there when it began if no other thread was about to make one by then.
CallsAgree ==
  \A t \in Threads :
    step[t] = "idle" /\ ~cleared[t] =>
      got[t] # KeyError /\ (expect[t] # 0 => got[t] = expect[t])

RegistryInv == TypeOK /\ CallsAgree

\* _base.py:163: "Get or create a named circuit breaker (singleton per name)."
Singleton ==
  \A t, u \in Threads : clears = 0 /\ got[t] > 0 /\ got[u] > 0 => got[t] = got[u]
=============================================================================
