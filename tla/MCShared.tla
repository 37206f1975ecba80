------------------------------ MODULE MCShared ------------------------------
(***************************************************************************)
(* What the threads of a service share: the bulkhead, the pool of spans,   *)
(* the registries and the lazy instruments.  They do not touch each other: *)
(* a behaviour works with one of them.                                     *)
(***************************************************************************)
EXTENDS Bulkhead

CONSTANTS PoolSize, MaxCompleted, MaxOps,
          MaxObjects, MaxClears, MaxIncs

VARIABLES
  part,   \* which of them
  available, created, completed, content, inUse, at, span, op, begun, ended, doubled,
  mixed,
  entry, made, step, got, expect, cleared, clears,
  counter, counters, initialized, lock, phase, call, values, answer, owed, incs, calls

Pool  == INSTANCE SpanPool WITH pc <- at
Names == INSTANCE Registry
Lazy  == INSTANCE LazyInstrument WITH made <- counters, step <- phase

ASSUME SharedAssumption ==
  Pool!PoolAssumption /\ Names!RegistryAssumption /\ Lazy!LazyAssumption

poolVars     == <<available, created, completed, content, inUse, at, span, op, begun, ended,
                  doubled, mixed>>
registryVars == <<entry, made, step, got, expect, cleared, clears>>
lazyVars     == <<counter, counters, initialized, lock, phase, call, values, answer, owed,
                  incs, calls>>
allVars      == <<part, vars, poolVars, registryVars, lazyVars>>

SharedInit ==
  /\ part \in {"bulkhead", "pool", "registry", "lazy"}
  /\ Init /\ Pool!Init /\ Names!Init /\ Lazy!Init

SharedNext ==
  /\ UNCHANGED part
  /\ \/ part = "bulkhead" /\ Next
        /\ UNCHANGED <<poolVars, registryVars, lazyVars>>
     \/ part = "pool" /\ Pool!Next
        /\ UNCHANGED <<vars, registryVars, lazyVars>>
     \/ part = "registry" /\ Names!Next
        /\ UNCHANGED <<vars, poolVars, lazyVars>>
     \/ part = "lazy" /\ Lazy!Next
        /\ UNCHANGED <<vars, poolVars, registryVars>>

\* A release() that was begun is completed; nothing makes a caller leave the bulkhead.
SharedSpec ==
  /\ SharedInit /\ [][SharedNext]_allVars
  /\ \A t \in Threads : WF_vars(Acquiring(t)) /\ WF_vars(ReturnPermit(t))

\* No span serves two operations, is lost, or is recorded twice, except one that was
\* released again when a later operation had it (span_pool.py:119-159).
PoolInv == part = "pool" => Pool!PoolInv

\* What is kept of a released span is its operation's data, with the same exception
\* (span_pool.py:148-154).
KeepsOwnData == part = "pool" => Pool!KeepsOwnData

\* Callers of one name agree as far as nobody is about to make an object, and a lazy
\* counter is made once and misses no increment (_base.py:158-175, lazy.py:32-52).
InstancesInv == /\ part = "registry" => Names!RegistryInv
                /\ part = "lazy" => Lazy!LazyInv
=============================================================================
