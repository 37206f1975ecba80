---------------------------- MODULE LoadShedder ----------------------------
(***************************************************************************)
(* The token bucket of resilience/load_shedding.py.  Every public method   *)
(* runs under the shedder's lock and reads the clock inside it, so each is *)
(* one step, whatever thread calls it.  Tokens, costs and ticks are whole  *)
(* numbers.  An observer may open a window at any time; the history        *)
(* variables say what was spent in it.                                     *)
(***************************************************************************)
EXTENDS Integers

CONSTANTS MaxTokens,      \* max_tokens
          RefillRate,     \* refill_rate, tokens per tick
          DegradeBelow,   \* max_tokens * degrade_threshold
          DefaultCost,    \* cost_per_request
          Costs,          \* the values callers pass for cost
          MaxRequests,    \* bound on the number of checks between resets
          MaxTime         \* bound on the clock

ASSUME ShedderAssumption ==
  /\ MaxTokens \in Nat /\ RefillRate \in Nat /\ DegradeBelow \in Nat
  /\ DefaultCost \in Nat \ {0}
  /\ Costs \subseteq Int
  /\ MaxRequests \in Nat /\ MaxTime \in Nat

VARIABLES
  tokens, lastRefill,             \* the bucket
  total, admitted, shed, degraded,\* the statistics
  now,                            \* time.monotonic()
  windowStart, spent,             \* history: tokens spent since the window opened
  lastSpent                       \* history: when tokens were last spent

bucket  == <<tokens, lastRefill>>
stats   == <<total, admitted, shed, degraded>>
history == <<windowStart, spent, lastSpent>>
vars    == <<bucket, stats, now, history>>

TypeOK ==
  /\ tokens \in 0..MaxTokens
  /\ lastRefill \in Nat /\ now \in Nat /\ lastRefill <= now
  /\ total \in Nat /\ admitted \in Nat /\ shed \in Nat /\ degraded \in Nat
  /\ windowStart \in 0..now /\ lastSpent \in 0..now
  /\ spent \in Nat

Init ==
  /\ tokens = MaxTokens /\ lastRefill = 0
  /\ total = 0 /\ admitted = 0 /\ shed = 0 /\ degraded = 0
  /\ now = 0
  /\ windowStart = 0 /\ spent = 0 /\ lastSpent = 0

Lesser(a, b) == IF a <= b THEN a ELSE b

\* Faulty: no cap at max_tokens.
Refilled_Uncapped == tokens + (now - lastRefill) * RefillRate

\* What _refill makes of the tokens; it stores the time as well.
Refilled == Lesser(MaxTokens, tokens + (now - lastRefill) * RefillRate)

ActualCost(cost) == IF cost > 0 THEN cost ELSE DefaultCost

\* Faulty: a request that is shed loses what was refilled.
Shed_KeepsTokens(cost) ==
  /\ Refilled < ActualCost(cost)
  /\ shed' = shed + 1
  /\ UNCHANGED <<tokens, admitted, degraded, spent, lastSpent>>

Shed(cost) ==
  /\ Refilled < ActualCost(cost)
  /\ tokens' = Refilled
  /\ shed' = shed + 1
  /\ UNCHANGED <<admitted, degraded, spent, lastSpent>>

Take(cost) ==
  /\ Refilled >= ActualCost(cost)
  /\ tokens' = Refilled - ActualCost(cost)
  /\ spent' = spent + ActualCost(cost)
  /\ lastSpent' = now
  /\ UNCHANGED shed

Admit(cost) ==
  /\ Take(cost)
  /\ tokens' >= DegradeBelow
  /\ admitted' = admitted + 1 /\ UNCHANGED degraded

Degrade(cost) ==
  /\ Take(cost)
  /\ tokens' < DegradeBelow
  /\ degraded' = degraded + 1 /\ UNCHANGED admitted

\* check, and try_acquire and __enter__, which call it and translate its answer.
Check(cost) ==
  /\ total < MaxRequests
  /\ total' = total + 1
  /\ lastRefill' = now
  /\ Shed(cost) \/ Admit(cost) \/ Degrade(cost)
  /\ UNCHANGED <<now, windowStart>>

\* Faulty: a reader stores the time of the refill and not the tokens.
Read_KeepsTokens ==
  /\ lastRefill' = now
  /\ UNCHANGED <<tokens, stats, now, history>>

\* available_tokens, utilization and get_stats refill before they read.
Read ==
  /\ tokens' = Refilled /\ lastRefill' = now
  /\ UNCHANGED <<stats, now, history>>

\* A reset fills the bucket, so a new window begins with it.
Reset ==
  /\ tokens' = MaxTokens /\ lastRefill' = now
  /\ total' = 0 /\ admitted' = 0 /\ shed' = 0 /\ degraded' = 0
  /\ windowStart' = now /\ spent' = 0
  /\ UNCHANGED <<now, lastSpent>>

OpenWindow ==
  /\ windowStart' = now /\ spent' = 0
  /\ UNCHANGED <<bucket, stats, now, lastSpent>>

Tick ==
  /\ now < MaxTime
  /\ now' = now + 1
  /\ UNCHANGED <<bucket, stats, history>>

Next == (\E cost \in Costs : Check(cost)) \/ Read \/ Reset \/ OpenWindow \/ Tick

Spec == Init /\ [][Next]_vars

-----------------------------------------------------------------------------
\* In any window without a reset, the admitted requests cost no more than a full
\* bucket and what the time in the window refills, however often the fractions
\* of the refill are collected by other calls.
WindowBound == spent <= MaxTokens + (now - windowStart) * RefillRate

\* Every check since the last reset was counted once, in total and in one of
\* the three outcomes.
StatsAddUp == total = admitted + degraded + shed

\* No request is shed without need: if nothing was spent for the time it takes to
\* fill the bucket, one of at most the bucket's size is let through.
RestedBucketAdmits ==
  (now - lastSpent) * RefillRate >= MaxTokens => Refilled = MaxTokens

\* Why WindowBound is inductive: what the window has spent, and what the bucket
\* holds or is owed, is paid for by the full bucket and the time.
BucketInv ==
  /\ TypeOK
  /\ StatsAddUp
  /\ spent + Refilled <= MaxTokens + (now - windowStart) * RefillRate
  /\ Refilled >= Lesser(MaxTokens, (now - lastSpent) * RefillRate)
  /\ lastRefill >= lastSpent
=============================================================================
