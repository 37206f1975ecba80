--------------------------- MODULE SlidingWindow ---------------------------
(***************************************************************************)
(* The sliding window that RateLimiter and AsyncRateLimiter of patterns.py *)
(* share.  log holds every admission with the time stamped on it and the   *)
(* time it was made; the deque _timestamps is the part of log from first   *)
(* on, and _prune moves first forward.                                     *)
(***************************************************************************)
EXTENDS Integers, Sequences, FiniteSets

CONSTANTS MaxRequests,   \* max_requests
          Window         \* window_seconds, in clock ticks

ASSUME WindowAssumption == MaxRequests \in Nat \ {0} /\ Window \in Nat \ {0}

VARIABLES log, first,    \* the admissions, and where the deque begins
          now            \* time.monotonic()

Admission == [stamp : Nat, at : Nat]

\* Faulty: a stamp is dropped a tick before its window is over.
StopsPruning_Early(i, t) == \/ i = Len(log) + 1
                            \/ i \in DOMAIN log /\ log[i].stamp > t - Window + 1

\* _prune at time t drops a prefix: it stops at the first stamp that is fresh.
StopsPruning(i, t) == \/ i = Len(log) + 1
                      \/ i \in DOMAIN log /\ log[i].stamp > t - Window

\* Faulty: the first stale stamp takes all the others with it.
PruneStop_All(t) == IF StopsPruning(first, t) THEN first ELSE Len(log) + 1

PruneStop(t) ==
  CHOOSE i \in first..Len(log) + 1 :
    /\ StopsPruning(i, t)
    /\ \A j \in first..i-1 : ~StopsPruning(j, t)

\* How many stamps are left if the deque begins at i, and whether one more fits.
Held(i) == Len(log) + 1 - i

HasRoom(i) == Held(i) < MaxRequests

Stamp(t) == Append(log, [stamp |-> t, at |-> now])

\* Faulty: a whole window, whatever is left of it.
WaitTime_Whole(t) == IF HasRoom(PruneStop(t)) THEN 0 ELSE Window

\* What wait() answers at time t.
WaitTime(t) ==
  LET i == PruneStop(t)
      d == log[i].stamp + Window - t
  IN  IF HasRoom(i) THEN 0 ELSE IF d > 0 THEN d ELSE 0

WindowInit == log = <<>> /\ first = 1

\* The admissions of the last w ticks.
Recent(w) == {i \in DOMAIN log : log[i].at > now - w}

\* patterns.py:81: a sliding window: no more than so many requests are admitted
\* in any window, by the clock ...
WindowLimit == Cardinality(Recent(Window)) <= MaxRequests

\* ... and by the limiter's own stamps.
StampedIn(lo, hi) == {i \in DOMAIN log : lo < log[i].stamp /\ log[i].stamp <= hi}

StampLimit ==
  \A i \in DOMAIN log :
    Cardinality(StampedIn(log[i].stamp - Window, log[i].stamp)) <= MaxRequests

\* The deque never outgrows the limit.
DequeBounded == Held(first) \in 0..MaxRequests

\* What wait() answers is the time until the next request would be admitted,
\* neither sooner nor later, though the stamps need not be in order.
WaitIsExact ==
  LET d == WaitTime(now) IN
  /\ HasRoom(PruneStop(now + d))
  /\ \A e \in 0..d-1 : ~HasRoom(PruneStop(now + e))
=============================================================================
