---------------------------- MODULE RateLimiter ----------------------------
(***************************************************************************)
(* The threaded RateLimiter of patterns.py.  A thread reads the clock      *)
(* before it takes the lock, so the time it works with may be old.         *)
(***************************************************************************)
EXTENDS SlidingWindow

CONSTANTS Threads,
          MaxLag,     \* how long a thread may be kept from the lock, in ticks
          MaxTime     \* bound on the clock

ASSUME LagAssumption == MaxLag \in Nat /\ MaxTime \in Nat

VARIABLES pc, clock   \* where each thread is, and the time it has read

vars == <<log, first, now, pc, clock>>

TypeOK ==
  /\ log \in Seq(Admission)
  /\ first \in 1..Len(log) + 1
  /\ now \in Nat
  /\ pc \in [Threads -> {"idle", "allow", "wait"}]
  /\ clock \in [Threads -> 0..now]

Init ==
  /\ WindowInit /\ now = 0
  /\ pc = [t \in Threads |-> "idle"]
  /\ clock = [t \in Threads |-> 0]

\* allow() and wait() begin with the clock ...
ReadClock(t) ==
  /\ pc[t] = "idle"
  /\ clock' = [clock EXCEPT ![t] = now]
  /\ \E method \in {"allow", "wait"} : pc' = [pc EXCEPT ![t] = method]
  /\ UNCHANGED <<log, first, now>>

Finish(t) ==
  /\ pc' = [pc EXCEPT ![t] = "idle"]
  /\ clock' = [clock EXCEPT ![t] = 0]

\* ... and do the rest under the lock.
Allow(t) ==
  /\ pc[t] = "allow"
  /\ first' = PruneStop(clock[t])
  /\ log' = IF HasRoom(first') THEN Stamp(clock[t]) ELSE log
  /\ Finish(t)
  /\ UNCHANGED now

\* wait() and get_stats() prune, and leave the rest as it is.
Look(t) ==
  /\ pc[t] = "wait"
  /\ first' = PruneStop(clock[t])
  /\ Finish(t)
  /\ UNCHANGED <<log, now>>

\* The scheduler lets no thread wait for the lock longer than MaxLag.
Tick ==
  /\ now < MaxTime
  /\ \A t \in Threads : pc[t] # "idle" => now < clock[t] + MaxLag
  /\ now' = now + 1
  /\ UNCHANGED <<log, first, pc, clock>>

Next == (\E t \in Threads : ReadClock(t) \/ Allow(t) \/ Look(t)) \/ Tick

Spec == Init /\ [][Next]_vars

-----------------------------------------------------------------------------
\* What the limiter does keep: over a window shortened by the longest delay
\* between the clock and the lock, the limit holds.
LaggedLimit == Cardinality(Recent(Window - MaxLag)) <= MaxRequests

\* Why: an admission that was pruned has left the shortened window.
LimiterInv ==
  /\ TypeOK /\ DequeBounded
  /\ \A i \in DOMAIN log : log[i].at <= log[i].stamp + MaxLag
  /\ \A i \in 1..first-1 : log[i].at <= now - (Window - MaxLag)
  /\ \A t \in Threads : pc[t] # "idle" => now <= clock[t] + MaxLag
=============================================================================
