------------------------------ MODULE Bulkhead ------------------------------
(***************************************************************************)
(* The Bulkhead of patterns.py: a semaphore, and beside it a count of the  *)
(* active callers under a lock of its own.  The two are updated one after  *)
(* the other, so each is a step.                                           *)
(***************************************************************************)
EXTENDS Integers, FiniteSets

CONSTANTS Threads,         \* the threads that use the bulkhead
          MaxConcurrent,   \* max_concurrent
          MaxRejected      \* bound on the count of rejections

ASSUME BulkheadAssumption ==
  /\ IsFiniteSet(Threads)
  /\ MaxConcurrent \in Nat \ {0} /\ MaxRejected \in Nat

VARIABLES
  permits,    \* the value of _semaphore
  active,     \* _active
  rejected,   \* _rejected
  pc          \* where each thread is

vars == <<permits, active, rejected, pc>>

Location == {"idle", "waiting", "entering", "inside", "leaving", "rejecting"}

Init ==
  /\ permits = MaxConcurrent
  /\ active = 0 /\ rejected = 0
  /\ pc = [t \in Threads |-> "idle"]

Move(t, from, to) == pc[t] = from /\ pc' = [pc EXCEPT ![t] = to]

\* acquire(), not blocking, takes a permit or finds none.
TryPermit(t) ==
  /\ permits > 0
  /\ Move(t, "idle", "entering")
  /\ permits' = permits - 1
  /\ UNCHANGED <<active, rejected>>

NoPermit(t) ==
  /\ permits = 0
  /\ rejected < MaxRejected
  /\ Move(t, "idle", "rejecting")
  /\ UNCHANGED <<permits, active, rejected>>

\* acquire(timeout) waits for a permit; when the time is up the semaphore looks
\* at its value once more.
Wait(t) ==
  /\ rejected < MaxRejected
  /\ Move(t, "idle", "waiting")
  /\ UNCHANGED <<permits, active, rejected>>

GetPermit(t) ==
  /\ permits > 0
  /\ Move(t, "waiting", "entering")
  /\ permits' = permits - 1
  /\ UNCHANGED <<active, rejected>>

\* Faulty: a wait that timed out starts again.
TimeOut_Restarts(t) ==
  /\ permits = 0 /\ Move(t, "waiting", "waiting")
  /\ UNCHANGED <<permits, active, rejected>>

TimeOut(t) ==
  /\ permits = 0
  /\ Move(t, "waiting", "rejecting")
  /\ UNCHANGED <<permits, active, rejected>>

\* The count follows the permit, under the lock.
CountIn(t) ==
  /\ Move(t, "entering", "inside")
  /\ active' = active + 1
  /\ UNCHANGED <<permits, rejected>>

\* Faulty: a caller that was rejected gives back a permit it never had.
CountRejected_Releases(t) ==
  /\ Move(t, "rejecting", "idle")
  /\ rejected' = rejected + 1 /\ permits' = permits + 1
  /\ UNCHANGED active

\* Faulty: a caller that was rejected is counted out.
CountRejected_CountsOut(t) ==
  /\ Move(t, "rejecting", "idle")
  /\ rejected' = rejected + 1 /\ active' = active - 1
  /\ UNCHANGED permits

CountRejected(t) ==
  /\ Move(t, "rejecting", "idle")
  /\ rejected' = rejected + 1
  /\ UNCHANGED <<permits, active>>

\* release() counts the caller out first, and gives the permit back after that.
CountOut(t) ==
  /\ Move(t, "inside", "leaving")
  /\ active' = active - 1
  /\ UNCHANGED <<permits, rejected>>

ReturnPermit(t) ==
  /\ Move(t, "leaving", "idle")
  /\ permits' = permits + 1
  /\ UNCHANGED <<active, rejected>>

\* acquire() has a timeout, and goes on once it has its answer.
Acquiring(t) == GetPermit(t) \/ TimeOut(t) \/ CountIn(t) \/ CountRejected(t)

Next == \E t \in Threads :
          \/ TryPermit(t) \/ NoPermit(t) \/ Wait(t) \/ Acquiring(t)
          \/ CountOut(t) \/ ReturnPermit(t)

Spec == Init /\ [][Next]_vars

-----------------------------------------------------------------------------
Inside  == {t \in Threads : pc[t] = "inside"}
Holding == {t \in Threads : pc[t] \in {"entering", "inside", "leaving"}}

TypeOK ==
  /\ permits \in 0..MaxConcurrent
  /\ active \in 0..MaxConcurrent
  /\ rejected \in Nat
  /\ pc \in [Threads -> Location]

\* Every permit is free or held by one caller: none is lost or doubled between
\* the two halves of acquire() and of release().
PermitsConserved == permits + Cardinality(Holding) = MaxConcurrent

\* The count is the number of callers inside, at most the limit, and available,
\* MaxConcurrent - active, never hides a permit that is free.
ActiveIsExact ==
  /\ active = Cardinality(Inside)
  /\ permits <= MaxConcurrent - active

\* An acquire() with a timeout comes to an answer, and a caller that was given a
\* permit gets inside, though the others never leave.
AcquireReturns == \A t \in Threads : pc[t] = "waiting" ~> pc[t] \in {"inside", "idle"}
=============================================================================
