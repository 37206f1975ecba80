------------------------- MODULE RateLimiter_proof -------------------------
(***************************************************************************)
(* What limit the threaded rate limiter keeps, for any number of threads,  *)
(* any limit, window and delay between the clock and the lock.             *)
(***************************************************************************)
EXTENDS MCRateLimiters, CollectionLemmas

USE WindowAssumption, LagAssumption

\* The log is a sequence of admissions with two times each.
LEMMA LogTyped ==
  ASSUME log \in Seq(Admission)
  PROVE  /\ Len(log) \in Nat /\ DOMAIN log = 1..Len(log)
         /\ \A i \in 1..Len(log) : log[i].at \in Nat /\ log[i].stamp \in Nat
<1>1. Len(log) \in Nat /\ DOMAIN log = 1..Len(log)
  OBVIOUS
<1>2. \A i \in 1..Len(log) : log[i] \in Admission
  OBVIOUS
<1> QED
  BY <1>1, <1>2 DEF Admission

\* _prune (patterns.py:96-100) stops within the deque or at its end, and what it
\* drops is stale.
LEMMA PruneDropsStale ==
  ASSUME log \in Seq(Admission), first \in 1..Len(log) + 1, NEW t \in Nat
  PROVE  /\ PruneStop(t) \in first..Len(log) + 1
         /\ \A j \in first..PruneStop(t) - 1 : j \in DOMAIN log /\ log[j].stamp <= t - Window
<1> DEFINE S == {i \in first..Len(log) + 1 : StopsPruning(i, t)}
<1>1. first \in Nat /\ Len(log) \in Nat /\ first >= 1 /\ first <= Len(log) + 1
  OBVIOUS
<1>2. Len(log) + 1 \in S
  BY <1>1 DEF StopsPruning
<1>3. S \in SUBSET Nat
  BY <1>1
<1>4. PICK i \in S : \A j \in S : i <= j
  BY <1>2, <1>3, LeastNat
<1>5. \A j \in first..i-1 : ~StopsPruning(j, t)
  BY <1>1, <1>4
<1>6. /\ PruneStop(t) \in first..Len(log) + 1
      /\ \A j \in first..PruneStop(t)-1 : ~StopsPruning(j, t)
  BY <1>4, <1>5 DEF PruneStop
<1> SUFFICES ASSUME NEW j \in first..PruneStop(t) - 1
             PROVE  j \in DOMAIN log /\ log[j].stamp <= t - Window
  BY <1>6
<1>7. ~StopsPruning(j, t) /\ j \in 1..Len(log)
  BY <1>1, <1>6
<1>8. j \in DOMAIN log /\ log[j].stamp \in Nat
  BY <1>7, LogTyped
<1> QED
  BY <1>7, <1>8 DEF StopsPruning

\* What is pruned at a time that is at most MaxLag old was admitted before the
\* shortened window.
LEMMA PrunedIsOld ==
  ASSUME LimiterInv, NEW t \in Nat, t <= now, now <= t + MaxLag
  PROVE  \A i \in 1..PruneStop(t)-1 : i \in DOMAIN log /\ log[i].at <= now - (Window - MaxLag)
<1> SUFFICES ASSUME NEW i \in 1..PruneStop(t)-1
             PROVE  i \in DOMAIN log /\ log[i].at <= now - (Window - MaxLag)
  OBVIOUS
<1>1. /\ PruneStop(t) \in first..Len(log) + 1 /\ TypeOK
      /\ log \in Seq(Admission) /\ first \in 1..Len(log) + 1 /\ now \in Nat
  BY PruneDropsStale DEF LimiterInv, TypeOK
<1>2. i \in DOMAIN log /\ log[i].at \in Nat /\ log[i].stamp \in Nat
  BY <1>1, LogTyped
<1>3. CASE i < first
  BY <1>1, <1>2, <1>3 DEF LimiterInv
<1>4. CASE i >= first
  <2>1. log[i].stamp <= t - Window
    BY <1>1, <1>4, PruneDropsStale
  <2>2. log[i].at <= log[i].stamp + MaxLag
    BY <1>2 DEF LimiterInv
  <2> QED
    BY <1>1, <1>2, <2>1, <2>2
<1> QED
  BY <1>1, <1>3, <1>4

LEMMA InitInv == Init => LimiterInv
  BY DEF Init, WindowInit, LimiterInv, TypeOK, Admission, DequeBounded, Held

LEMMA StepInv == LimiterInv /\ [Next]_vars => LimiterInv'
<1> SUFFICES ASSUME LimiterInv, [Next]_vars PROVE LimiterInv'
  OBVIOUS
<1>t. /\ TypeOK /\ log \in Seq(Admission) /\ first \in 1..Len(log) + 1 /\ now \in Nat
      /\ Len(log) \in Nat
      /\ Held(first) \in 0..MaxRequests
  BY DEF LimiterInv, TypeOK, DequeBounded
<1>1. ASSUME NEW c \in Threads, ReadClock(c) PROVE LimiterInv'
  <2>1. UNCHANGED <<log, first, now>>
    BY <1>1 DEF ReadClock
  <2>2. TypeOK'
    BY <1>1, <1>t, <2>1 DEF ReadClock, TypeOK
  <2>3. \A t \in Threads : pc'[t] # "idle" => now' <= clock'[t] + MaxLag
    BY <1>1, <1>t, <2>1 DEF ReadClock, TypeOK, LimiterInv
  <2> QED
    BY <2>1, <2>2, <2>3 DEF LimiterInv, DequeBounded, Held
<1>2. ASSUME NEW c \in Threads, Allow(c) \/ Look(c) PROVE LimiterInv'
  <2>1. /\ clock[c] \in Nat /\ clock[c] <= now /\ now <= clock[c] + MaxLag
        /\ now' = now /\ first' = PruneStop(clock[c])
        /\ \/ log' = log
           \/ /\ HasRoom(first')
              /\ log' = Append(log, [stamp |-> clock[c], at |-> now])
    BY <1>2, <1>t DEF Allow, Look, TypeOK, LimiterInv, Stamp
  <2>2. /\ pc' \in [Threads -> {"idle", "allow", "wait"}]
        /\ clock' \in [Threads -> 0..now']
        /\ \A t \in Threads : pc'[t] # "idle" => now' <= clock'[t] + MaxLag
    <3>1. /\ pc' = [pc EXCEPT ![c] = "idle"] /\ clock' = [clock EXCEPT ![c] = 0]
          /\ pc \in [Threads -> {"idle", "allow", "wait"}]
          /\ clock \in [Threads -> 0..now]
      BY <1>2, <1>t DEF Allow, Look, Finish, TypeOK
    <3>2. pc' \in [Threads -> {"idle", "allow", "wait"}] /\ clock' \in [Threads -> 0..now']
      BY <1>t, <2>1, <3>1
    <3>3. \A t \in Threads \ {c} : pc'[t] = pc[t] /\ clock'[t] = clock[t]
      BY <3>1
    <3>4. pc'[c] = "idle"
      BY <3>1
    <3> QED
      BY <2>1, <3>2, <3>3, <3>4 DEF LimiterInv
  <2>3. /\ first' \in first..Len(log) + 1
        /\ \A i \in 1..first'-1 : i \in DOMAIN log /\ log[i].at <= now - (Window - MaxLag)
    BY <1>t, <2>1, PruneDropsStale, PrunedIsOld
  <2>4. Len(log) + 1 - first' \in 0..MaxRequests
    BY <1>t, <2>3 DEF Held
  <2>5. CASE log' = log
    <3>1. TypeOK'
      BY <1>t, <2>1, <2>2, <2>3, <2>5 DEF TypeOK
    <3>2. DequeBounded'
      BY <2>4, <2>5 DEF DequeBounded, Held
    <3>3. \A i \in DOMAIN log' : log'[i].at <= log'[i].stamp + MaxLag
      BY <2>5 DEF LimiterInv
    <3>4. \A i \in 1..first'-1 : log'[i].at <= now' - (Window - MaxLag)
      BY <2>1, <2>3, <2>5
    <3> QED
      BY <2>2, <3>1, <3>2, <3>3, <3>4 DEF LimiterInv
  <2>6. CASE /\ HasRoom(first')
             /\ log' = Append(log, [stamp |-> clock[c], at |-> now])
    <3> DEFINE new == [stamp |-> clock[c], at |-> now]
    <3>1. new \in Admission /\ new.at <= new.stamp + MaxLag
      BY <1>t, <2>1 DEF Admission
    <3> HIDE DEF new
    <3>2. /\ log' \in Seq(Admission) /\ Len(log') = Len(log) + 1
          /\ DOMAIN log' = 1..Len(log) + 1 /\ DOMAIN log = 1..Len(log)
          /\ log'[Len(log) + 1] = new
          /\ \A i \in 1..Len(log) : log'[i] = log[i]
      BY <1>t, <2>6, <3>1 DEF new
    <3>3. TypeOK'
      BY <1>t, <2>1, <2>2, <2>3, <3>2 DEF TypeOK
    <3>4. DequeBounded'
      BY <1>t, <2>3, <2>4, <2>6, <3>2 DEF DequeBounded, Held, HasRoom
    <3>5. \A i \in DOMAIN log' : log'[i].at <= log'[i].stamp + MaxLag
      BY <1>t, <3>1, <3>2 DEF LimiterInv
    <3>6. \A i \in 1..first'-1 : log'[i].at <= now' - (Window - MaxLag)
      BY <1>t, <2>1, <2>3, <3>2
    <3> QED
      BY <2>2, <3>3, <3>4, <3>5, <3>6 DEF LimiterInv
  <2> QED
    BY <2>1, <2>5, <2>6
<1>3. CASE Tick
  <2>1. now' = now + 1 /\ UNCHANGED <<log, first, pc, clock>>
    BY <1>3 DEF Tick
  <2>2. TypeOK'
    BY <1>t, <2>1 DEF TypeOK
  <2>3. \A t \in Threads : pc'[t] # "idle" => now' <= clock'[t] + MaxLag
    BY <1>3, <1>t, <2>1 DEF Tick, TypeOK
  <2>4. \A i \in 1..first'-1 : log'[i].at <= now' - (Window - MaxLag)
    <3> SUFFICES ASSUME NEW i \in 1..first-1
                 PROVE  log[i].at <= (now + 1) - (Window - MaxLag)
      BY <2>1
    <3>1. log[i].at \in Nat
      BY <1>t, LogTyped
    <3>2. log[i].at <= now - (Window - MaxLag)
      BY DEF LimiterInv
    <3> QED
      BY <1>t, <3>1, <3>2
  <2> QED
    BY <2>1, <2>2, <2>3, <2>4 DEF LimiterInv, DequeBounded, Held
<1>4. CASE UNCHANGED vars
  BY <1>4 DEF vars, LimiterInv, TypeOK, DequeBounded, Held
<1> QED
  BY <1>1, <1>2, <1>3, <1>4 DEF Next

\* The inductive invariant of the threaded limiter (patterns.py:96-121).
THEOREM LimiterInvariant == Spec => []LimiterInv
  BY InitInv, StepInv, PTL DEF Spec

\* The deque of stamps never outgrows the limit (patterns.py:107-108).
THEOREM DequeIsBounded == Spec => []DequeBounded
<1>1. LimiterInv => DequeBounded
  BY DEF LimiterInv
<1> QED
  BY LimiterInvariant, <1>1, PTL

-----------------------------------------------------------------------------
\* Where _prune stops, and that it stops nowhere else.
LEMMA PruneStops ==
  ASSUME log \in Seq(Admission), first \in 1..Len(log) + 1, NEW t \in Nat
  PROVE  /\ PruneStop(t) \in first..Len(log) + 1
         /\ StopsPruning(PruneStop(t), t)
         /\ \A j \in first..PruneStop(t) - 1 : ~StopsPruning(j, t)
         /\ \A i \in first..Len(log) + 1 :
              StopsPruning(i, t) /\ (\A j \in first..i - 1 : ~StopsPruning(j, t))
                => i = PruneStop(t)
<1> DEFINE S == {i \in first..Len(log) + 1 : StopsPruning(i, t)}
<1>1. first \in Nat /\ Len(log) \in Nat /\ first >= 1 /\ first <= Len(log) + 1
  OBVIOUS
<1>2. Len(log) + 1 \in S
  BY <1>1 DEF StopsPruning
<1>3. S \in SUBSET Nat
  BY <1>1
<1>4. PICK i \in S : \A j \in S : i <= j
  BY <1>2, <1>3, LeastNat
<1>5. \A j \in first..i-1 : ~StopsPruning(j, t)
  BY <1>1, <1>4
<1>6. /\ PruneStop(t) \in first..Len(log) + 1 /\ StopsPruning(PruneStop(t), t)
      /\ \A j \in first..PruneStop(t)-1 : ~StopsPruning(j, t)
  BY <1>4, <1>5 DEF PruneStop
<1>7. ASSUME NEW k \in first..Len(log) + 1, StopsPruning(k, t),
             \A j \in first..k - 1 : ~StopsPruning(j, t)
      PROVE  k = PruneStop(t)
  <2>1. k \in Int /\ PruneStop(t) \in Int /\ first \in Int /\ k >= first /\ PruneStop(t) >= first
    BY <1>1, <1>6
  <2>2. ~(k < PruneStop(t))
    <3>1. k < PruneStop(t) => k \in first..PruneStop(t) - 1
      BY <2>1
    <3> QED
      BY <1>6, <1>7, <3>1
  <2>3. ~(PruneStop(t) < k)
    <3>1. PruneStop(t) < k => PruneStop(t) \in first..k - 1
      BY <2>1
    <3> QED
      BY <1>6, <1>7, <3>1
  <2> QED
    BY <2>1, <2>2, <2>3
<1> QED
  BY <1>6, <1>7

\* What wait() answers is exact, whatever the order of the stamps.
LEMMA WaitExact ==
  ASSUME log \in Seq(Admission), first \in 1..Len(log) + 1, now \in Nat, DequeBounded
  PROVE  WaitIsExact
<1> DEFINE i == PruneStop(now)
           d == WaitTime(now)
<1>1. /\ first \in Nat /\ Len(log) \in Nat /\ first >= 1 /\ first <= Len(log) + 1
      /\ DOMAIN log = 1..Len(log)
      /\ \A j \in 1..Len(log) : log[j].stamp \in Nat
      /\ Len(log) + 1 - first \in 0..MaxRequests
  BY LogTyped DEF DequeBounded, Held
<1>2. /\ i \in first..Len(log) + 1 /\ StopsPruning(i, now)
      /\ \A j \in first..i - 1 : ~StopsPruning(j, now)
  BY PruneStops
<1>3. CASE HasRoom(i)
  <2>1. d = 0
    BY <1>3 DEF WaitTime
  <2>2. PruneStop(now + d) = i
    BY <2>1
  <2>3. 0..d - 1 = {}
    BY <2>1
  <2> QED
    BY <1>3, <2>2, <2>3 DEF WaitIsExact
<1>4. CASE ~HasRoom(i)
  <2>1. i # Len(log) + 1
    BY <1>1, <1>4 DEF HasRoom, Held
  <2>2. i \in 1..Len(log) /\ i \in Nat /\ log[i].stamp \in Nat
    BY <1>1, <1>2, <2>1
  <2>3. log[i].stamp > now - Window
    BY <1>1, <1>2, <2>1, <2>2 DEF StopsPruning
  <2>4. d = log[i].stamp + Window - now /\ d \in Nat /\ d > 0
    <3>1. log[i].stamp + Window - now > 0 /\ log[i].stamp + Window - now \in Nat
      BY <2>2, <2>3
    <3>2. d = log[i].stamp + Window - now
      BY <1>4, <3>1 DEF WaitTime
    <3> QED
      BY <3>1, <3>2
  <2>5. ASSUME NEW e \in Nat, NEW j \in first..i - 1 PROVE ~StopsPruning(j, now + e)
    <3>1. j \in 1..Len(log) /\ ~(log[j].stamp > now - Window) /\ log[j].stamp \in Nat
          /\ j # Len(log) + 1
      BY <1>1, <1>2, <2>2 DEF StopsPruning
    <3>2. ~(log[j].stamp > (now + e) - Window)
      BY <3>1
    <3> QED
      BY <3>1, <3>2 DEF StopsPruning
  <2>6. ASSUME NEW e \in 0..d - 1 PROVE ~HasRoom(PruneStop(now + e))
    <3>1. e \in Nat /\ now + e \in Nat /\ log[i].stamp > (now + e) - Window
      <4> HIDE DEF d
      <4>1. e \in Nat /\ e < d
        BY <2>4
      <4> QED
        BY <2>2, <2>4, <4>1
    <3>2. StopsPruning(i, now + e)
      BY <1>1, <2>2, <3>1 DEF StopsPruning
    <3>3. i = PruneStop(now + e)
      <4> HIDE DEF i
      <4> QED
        BY <1>2, <2>5, <3>1, <3>2, PruneStops
    <3> QED
      BY <1>4, <3>3
  <2>7. HasRoom(PruneStop(now + d))
    <3> DEFINE k == PruneStop(now + d)
    <3>1. now + d \in Nat
      <4> HIDE DEF d
      <4> QED
        BY <2>4
    <3>2. k \in first..Len(log) + 1 /\ StopsPruning(k, now + d)
      <4> HIDE DEF d
      <4> QED
        BY <3>1, PruneStops
    <3>3. ~StopsPruning(i, now + d)
      <4>1. (now + d) - Window = log[i].stamp
        <5> HIDE DEF d, i
        <5> QED
          BY <2>2, <2>4, SMTT(40)
      <4>2. ~(log[i].stamp > (now + d) - Window)
        BY <2>2, <4>1
      <4> QED
        BY <2>1, <4>2 DEF StopsPruning
    <3>4. \A j \in first..i - 1 : ~StopsPruning(j, now + d)
      <4> HIDE DEF d, i
      <4> QED
        BY <2>4, <2>5
    <3>5. k > i
      <4>1. k # i
        BY <3>2, <3>3
      <4>2. ~(k \in first..i - 1)
        BY <3>2, <3>4
      <4> HIDE DEF k, i
      <4> QED
        BY <1>1, <1>2, <3>2, <4>1, <4>2
    <3>6. Len(log) + 1 - k < MaxRequests
      <4> HIDE DEF k, i
      <4> QED
        BY <1>1, <1>2, <3>2, <3>5
    <3> QED
      BY <3>6 DEF HasRoom, Held
  <2> QED
    BY <2>6, <2>7 DEF WaitIsExact
<1> QED
  BY <1>3, <1>4

\* If what was pruned has left the window, what is in it is in the deque.
LEMMA WindowInDeque ==
  ASSUME log \in Seq(Admission), first \in 1..Len(log) + 1, now \in Nat, DequeBounded,
         NEW w \in Int, \A i \in 1..first - 1 : log[i].at <= now - w
  PROVE  Cardinality(Recent(w)) <= MaxRequests
<1>1. /\ Len(log) \in Nat /\ DOMAIN log = 1..Len(log)
      /\ Held(first) \in 0..MaxRequests
  BY DEF DequeBounded
<1>2. Recent(w) \subseteq first..Len(log)
  <2> SUFFICES ASSUME NEW i \in Recent(w) PROVE i \in first..Len(log)
    OBVIOUS
  <2>1. i \in 1..Len(log) /\ log[i].at > now - w /\ log[i].at \in Nat
    BY <1>1, LogTyped DEF Recent
  <2>2. ~(i \in 1..first-1)
    BY <2>1
  <2> QED
    BY <1>1, <2>1, <2>2
<1>3. IsFiniteSet(first..Len(log)) /\ Cardinality(first..Len(log)) = Held(first)
  <2>1. first \in Int /\ Len(log) \in Int /\ (first > Len(log) => first = Len(log) + 1)
    BY <1>1
  <2>2. /\ IsFiniteSet(first..Len(log))
        /\ Cardinality(first..Len(log))
             = IF first > Len(log) THEN 0 ELSE Len(log) - first + 1
    BY <2>1, FS_Interval, Zenon
  <2> QED
    BY <2>1, <2>2 DEF Held
<1>4. Cardinality(Recent(w)) <= Held(first) /\ Cardinality(Recent(w)) \in Nat
  BY <1>2, <1>3, FS_Subset, FS_CardinalityType
<1> QED
  BY <1>1, <1>4

\* In a window shortened by the longest delay between time.monotonic() and the
\* lock (patterns.py:104-105), no more than max_requests are admitted; without
\* a delay this is the limit the class promises.
THEOREM LaggedLimitHolds == Spec => []LaggedLimit
<1>1. LimiterInv => LaggedLimit
  <2> SUFFICES ASSUME LimiterInv PROVE LaggedLimit
    OBVIOUS
  <2>1. /\ log \in Seq(Admission) /\ first \in 1..Len(log) + 1 /\ now \in Nat /\ DequeBounded
        /\ \A i \in 1..first - 1 : log[i].at <= now - (Window - MaxLag)
    BY DEF LimiterInv, TypeOK
  <2>2. Window - MaxLag \in Int
    OBVIOUS
  <2> QED
    BY <2>1, <2>2, WindowInDeque DEF LaggedLimit
<1> QED
  BY LimiterInvariant, <1>1, PTL

-----------------------------------------------------------------------------
\* The tasks of one event loop: the stamp of an admission is its time, what was pruned
\* has left the window, and a call with a deadline sleeps until it at most.
TasksInv ==
  /\ Async!TypeOK /\ DequeBounded
  /\ \A i \in DOMAIN log : log[i].at = log[i].stamp
  /\ \A i \in 1..first-1 : log[i].at <= now - Window
  /\ \A c \in Tasks : outcome[c] = "sleeping" /\ deadline[c] # Async!Never =>
       now <= wakeAt[c] /\ wakeAt[c] <= deadline[c]

LimitersStrong ==
  /\ callers \in {"threads", "tasks"}
  /\ callers = "threads" => LimiterInv
  /\ callers = "tasks" => TasksInv

\* The operators of the instance are those of the window.
LEMMA SameWindow ==
  /\ \A t : Async!PruneStop(t) = PruneStop(t) /\ Async!Stamp(t) = Stamp(t)
  /\ \A i : Async!HasRoom(i) <=> HasRoom(i)
  /\ Async!Admission = Admission
<1>1. \A t : Async!PruneStop(t) = PruneStop(t) /\ Async!Stamp(t) = Stamp(t)
  BY DEF Async!PruneStop, Async!StopsPruning, PruneStop, StopsPruning, Async!Stamp, Stamp
<1>2. \A i : Async!HasRoom(i) <=> HasRoom(i)
  BY DEF Async!HasRoom, Async!Held, HasRoom, Held
<1>3. Async!Admission = Admission
  BY DEF Async!Admission, Admission
<1> QED
  BY <1>1, <1>2, <1>3

LEMMA TasksTyped ==
  ASSUME TasksInv
  PROVE  /\ log \in Seq(Admission) /\ first \in 1..Len(log) + 1 /\ now \in Nat /\ now <= MaxTime
         /\ deadline \in [Tasks -> 0..Async!Never]
         /\ wakeAt \in [Tasks -> 0..MaxTime + PollInterval]
         /\ outcome \in [Tasks -> {"idle", "timed_out", "sleeping"}]
         /\ DequeBounded /\ PollInterval \in Nat \ {0} /\ MaxTime \in Nat
         /\ Timeouts \subseteq Nat /\ Async!Never = MaxTime + 1
<1>1. now \in 0..MaxTime /\ log \in Seq(Admission) /\ first \in 1..Len(log) + 1
  BY SameWindow DEF TasksInv, Async!TypeOK
<1>2. /\ deadline \in [Tasks -> 0..Async!Never]
      /\ wakeAt \in [Tasks -> 0..MaxTime + PollInterval]
      /\ outcome \in [Tasks -> {"idle", "timed_out", "sleeping"}]
      /\ DequeBounded
  BY DEF TasksInv, Async!TypeOK
<1>3. PollInterval \in Nat \ {0} /\ Timeouts \subseteq Nat
  BY TasksAssumption DEF Async!PollAssumption
<1> QED
  BY <1>1, <1>2, <1>3 DEF Async!Never

\* An attempt to get a token: what is stale goes, and what is granted is stamped.
LEMMA AttemptKeeps ==
  ASSUME TasksInv, first' = PruneStop(now), now' = now,
         \/ log' = log
         \/ HasRoom(first') /\ log' = Append(log, [stamp |-> now, at |-> now])
  PROVE  /\ log' \in Seq(Admission) /\ first' \in 1..Len(log') + 1 /\ DequeBounded'
         /\ \A i \in DOMAIN log' : log'[i].at = log'[i].stamp
         /\ \A i \in 1..first'-1 : log'[i].at <= now' - Window
<1>1. /\ log \in Seq(Admission) /\ first \in 1..Len(log) + 1 /\ now \in Nat
      /\ Len(log) \in Nat /\ DOMAIN log = 1..Len(log)
      /\ Held(first) \in 0..MaxRequests
      /\ \A i \in 1..Len(log) : log[i].at \in Nat /\ log[i].stamp \in Nat
                                /\ log[i].at = log[i].stamp
  BY TasksTyped, LogTyped DEF DequeBounded, TasksInv
<1>2. /\ first' \in first..Len(log) + 1
      /\ \A j \in first..first' - 1 : j \in DOMAIN log /\ log[j].stamp <= now - Window
  BY <1>1, PruneDropsStale
<1>3. \A i \in 1..first' - 1 : i \in DOMAIN log /\ log[i].at <= now - Window
  <2> SUFFICES ASSUME NEW i \in 1..first' - 1
               PROVE  i \in DOMAIN log /\ log[i].at <= now - Window
    OBVIOUS
  <2>1. CASE i < first
    BY <1>1, <1>2, <2>1 DEF TasksInv
  <2>2. CASE ~(i < first)
    <3>1. i \in first..first' - 1
      BY <1>1, <1>2, <2>2
    <3> QED
      BY <1>1, <1>2, <3>1
  <2> QED
    BY <2>1, <2>2
<1>4. Len(log) + 1 - first' \in 0..MaxRequests
  BY <1>1, <1>2 DEF Held
<1>5. CASE log' = log
  <2>1. first' \in 1..Len(log') + 1
    BY <1>1, <1>2, <1>5
  <2>2. DequeBounded'
    BY <1>4, <1>5 DEF DequeBounded, Held
  <2> QED
    BY <1>1, <1>3, <1>5, <2>1, <2>2
<1>6. CASE HasRoom(first') /\ log' = Append(log, [stamp |-> now, at |-> now])
  <2> DEFINE new == [stamp |-> now, at |-> now]
  <2>1. new \in Admission /\ new.at = new.stamp
    BY <1>1 DEF Admission
  <2> HIDE DEF new
  <2>2. /\ log' \in Seq(Admission) /\ Len(log') = Len(log) + 1
        /\ DOMAIN log' = 1..Len(log) + 1
        /\ log'[Len(log) + 1] = new
        /\ \A i \in 1..Len(log) : log'[i] = log[i]
    BY <1>1, <1>6, <2>1 DEF new
  <2>3. first' \in 1..Len(log') + 1
    BY <1>1, <1>2, <2>2
  <2>4. DequeBounded'
    <3>1. Len(log) + 1 - first' < MaxRequests
      BY <1>6 DEF HasRoom, Held
    <3>2. MaxRequests \in Nat
      BY WindowAssumption
    <3>3. Len(log') + 1 - first' \in 0..MaxRequests
      BY <1>1, <1>2, <1>4, <2>2, <3>1, <3>2, SMTT(40)
    <3> QED
      BY <3>3 DEF DequeBounded, Held
  <2>5. \A i \in DOMAIN log' : log'[i].at = log'[i].stamp
    <3> SUFFICES ASSUME NEW i \in 1..Len(log) + 1 PROVE log'[i].at = log'[i].stamp
      BY <2>2
    <3>1. i \in 1..Len(log) \/ i = Len(log) + 1
      BY <1>1
    <3> QED
      BY <1>1, <2>1, <2>2, <3>1
  <2>6. \A i \in 1..first'-1 : log'[i].at <= now' - Window
    BY <1>1, <1>3, <2>2
  <2> QED
    BY <2>2, <2>3, <2>4, <2>5, <2>6
<1> QED
  BY <1>5, <1>6

LEMMA LimitersStart == LimitersInit => LimitersStrong
<1> SUFFICES ASSUME LimitersInit PROVE LimitersStrong
  OBVIOUS
<1>1. Init /\ Async!Init /\ callers \in {"threads", "tasks"}
  BY DEF LimitersInit
<1>2. LimiterInv
  BY <1>1, InitInv
<1>3. /\ log = <<>> /\ first = 1 /\ now = 0
      /\ deadline = [c \in Tasks |-> Async!Never] /\ wakeAt = [c \in Tasks |-> 0]
      /\ outcome = [c \in Tasks |-> "idle"]
      /\ PollInterval \in Nat /\ MaxTime \in Nat
  BY <1>1, TasksAssumption DEF Async!Init, Async!WindowInit, Async!PollAssumption
<1>4. Async!TypeOK
  <2>1. /\ log \in Seq(Admission) /\ first \in 1..Len(log) + 1 /\ now \in 0..MaxTime
        /\ outcome \in [Tasks -> {"idle", "timed_out", "sleeping"}]
    BY <1>3
  <2>2. /\ deadline \in [Tasks -> 0..Async!Never]
        /\ wakeAt \in [Tasks -> 0..MaxTime + PollInterval]
    BY <1>3 DEF Async!Never
  <2> QED
    BY <2>1, <2>2, SameWindow DEF Async!TypeOK
<1>5. TasksInv
  <2>1. DequeBounded
    BY <1>2 DEF LimiterInv
  <2> QED
    BY <1>3, <1>4, <2>1 DEF TasksInv
<1> QED
  BY <1>1, <1>2, <1>5 DEF LimitersStrong

\* One call of allow(), or one turn of the loop in wait() for a call with a deadline.
LEMMA TurnKeeps ==
  ASSUME TasksInv, NEW c \in Tasks, NEW limit \in 0..Async!Never,
         Async!Attempt(c, limit) \/ Async!Allow(c)
  PROVE  TasksInv'
<1>1. /\ now \in Nat /\ now <= MaxTime /\ MaxTime \in Nat /\ PollInterval \in Nat \ {0}
      /\ deadline \in [Tasks -> 0..Async!Never]
      /\ wakeAt \in [Tasks -> 0..MaxTime + PollInterval]
      /\ outcome \in [Tasks -> {"idle", "timed_out", "sleeping"}]
      /\ Async!Never = MaxTime + 1
  BY TasksTyped
<1>2. /\ first' = PruneStop(now) /\ now' = now
      /\ \/ log' = log
         \/ HasRoom(first') /\ log' = Append(log, [stamp |-> now, at |-> now])
  BY SameWindow, Zenon DEF Async!Attempt, Async!Allow, Async!Prune, Async!Granted, Async!GiveUp,
     Async!Sleep, Async!Grant, Async!Deny, Stamp
<1>3. /\ log' \in Seq(Admission) /\ first' \in 1..Len(log') + 1 /\ DequeBounded'
      /\ \A i \in DOMAIN log' : log'[i].at = log'[i].stamp
      /\ \A i \in 1..first'-1 : log'[i].at <= now' - Window
  BY <1>2, AttemptKeeps, Zenon
<1>4. \/ /\ UNCHANGED <<deadline, wakeAt>> /\ outcome' = [outcome EXCEPT ![c] = "idle"]
      \/ /\ \E o \in {"idle", "timed_out"} : outcome' = [outcome EXCEPT ![c] = o]
         /\ \E l \in 0..Async!Never : deadline' = [deadline EXCEPT ![c] = l]
         /\ wakeAt' = [wakeAt EXCEPT ![c] = 0]
      \/ /\ now < limit /\ outcome' = [outcome EXCEPT ![c] = "sleeping"]
         /\ deadline' = [deadline EXCEPT ![c] = limit]
         /\ wakeAt' = [wakeAt EXCEPT ![c] = now + IF limit = Async!Never THEN PollInterval
                                                  ELSE Async!SleepTime(limit)]
  <2>1. Async!Never \in 0..Async!Never
    BY <1>1
  <2> QED
    BY <2>1 DEF Async!Attempt, Async!Allow, Async!Granted, Async!GiveUp, Async!Sleep, Async!Becomes
<1>5. CASE /\ UNCHANGED <<deadline, wakeAt>> /\ outcome' = [outcome EXCEPT ![c] = "idle"]
  <2>1. Async!TypeOK'
    BY <1>1, <1>2, <1>3, <1>5, SameWindow DEF Async!TypeOK, Async!Admission, Admission
  <2>2. \A b \in Tasks : outcome'[b] = "sleeping" => outcome[b] = "sleeping"
    BY <1>1, <1>5
  <2>3. \A b \in Tasks : outcome'[b] = "sleeping" /\ deadline'[b] # Async!Never =>
          now' <= wakeAt'[b] /\ wakeAt'[b] <= deadline'[b]
    BY <1>2, <1>5, <2>2 DEF TasksInv
  <2> QED
    BY <1>3, <2>1, <2>3 DEF TasksInv, Async!Never
<1>6. CASE /\ \E o \in {"idle", "timed_out"} : outcome' = [outcome EXCEPT ![c] = o]
           /\ \E l \in 0..Async!Never : deadline' = [deadline EXCEPT ![c] = l]
           /\ wakeAt' = [wakeAt EXCEPT ![c] = 0]
  <2>1. /\ outcome' \in [Tasks -> {"idle", "timed_out", "sleeping"}]
        /\ deadline' \in [Tasks -> 0..Async!Never]
        /\ wakeAt' \in [Tasks -> 0..MaxTime + PollInterval]
    BY <1>1, <1>6
  <2>2. Async!TypeOK'
    BY <1>1, <1>2, <1>3, <2>1 DEF Async!TypeOK, Async!Admission, Admission, Async!Never
  <2>3. \A b \in Tasks : outcome'[b] = "sleeping" =>
          outcome[b] = "sleeping" /\ deadline'[b] = deadline[b] /\ wakeAt'[b] = wakeAt[b]
    BY <1>1, <1>6
  <2>4. \A b \in Tasks : outcome'[b] = "sleeping" /\ deadline'[b] # Async!Never =>
          now' <= wakeAt'[b] /\ wakeAt'[b] <= deadline'[b]
    BY <1>2, <2>3 DEF TasksInv
  <2> QED
    BY <1>3, <2>2, <2>4 DEF TasksInv, Async!Never
<1>7. CASE /\ now < limit /\ outcome' = [outcome EXCEPT ![c] = "sleeping"]
           /\ deadline' = [deadline EXCEPT ![c] = limit]
           /\ wakeAt' = [wakeAt EXCEPT ![c] = now + IF limit = Async!Never THEN PollInterval
                                                    ELSE Async!SleepTime(limit)]
  <2> DEFINE w == now + IF limit = Async!Never THEN PollInterval ELSE Async!SleepTime(limit)
  <2>1. /\ w \in 0..MaxTime + PollInterval
        /\ limit # Async!Never => now <= w /\ w <= limit
    BY <1>1, <1>7 DEF Async!SleepTime
  <2> HIDE DEF w
  <2>2. /\ outcome' \in [Tasks -> {"idle", "timed_out", "sleeping"}]
        /\ deadline' \in [Tasks -> 0..Async!Never]
    BY <1>1, <1>7
  <2>3. wakeAt' = [wakeAt EXCEPT ![c] = w]
    BY <1>7 DEF w
  <2>4. wakeAt' \in [Tasks -> 0..MaxTime + PollInterval]
    BY <1>1, <2>1, <2>3
  <2>5. Async!TypeOK'
    BY <1>1, <1>2, <1>3, <2>2, <2>4 DEF Async!TypeOK, Async!Admission, Admission, Async!Never
  <2>6. /\ deadline'[c] = limit /\ wakeAt'[c] = w
        /\ \A b \in Tasks : b # c => /\ outcome'[b] = outcome[b]
                                     /\ deadline'[b] = deadline[b] /\ wakeAt'[b] = wakeAt[b]
    BY <1>1, <1>7, <2>3
  <2>7. \A b \in Tasks : outcome'[b] = "sleeping" /\ deadline'[b] # Async!Never =>
          now' <= wakeAt'[b] /\ wakeAt'[b] <= deadline'[b]
    BY <1>2, <2>1, <2>6 DEF TasksInv
  <2> QED
    BY <1>3, <2>5, <2>7 DEF TasksInv, Async!Never
<1> QED
  BY <1>4, <1>5, <1>6, <1>7

LEMMA TasksKeep ==
  ASSUME TasksInv, Async!Next
  PROVE  TasksInv'
<1>1. /\ now \in Nat /\ now <= MaxTime /\ MaxTime \in Nat /\ Timeouts \subseteq Nat
      /\ deadline \in [Tasks -> 0..Async!Never]
      /\ Async!Never = MaxTime + 1
  BY TasksTyped
<1>2. ASSUME NEW c \in Tasks, Async!Allow(c) PROVE TasksInv'
  <2>1. Async!Never \in 0..Async!Never
    BY <1>1
  <2> QED
    BY <1>2, <2>1, TurnKeeps
<1>3. ASSUME NEW c \in Tasks, Async!StartWait(c) PROVE TasksInv'
  <2>1. PICK limit \in 0..Async!Never : Async!Attempt(c, limit)
    BY <1>1, <1>3 DEF Async!StartWait
  <2> QED
    BY <2>1, TurnKeeps
<1>4. ASSUME NEW c \in Tasks, Async!Wake(c) PROVE TasksInv'
  <2>1. Async!Attempt(c, deadline[c]) /\ deadline[c] \in 0..Async!Never
    BY <1>1, <1>4 DEF Async!Wake
  <2> QED
    BY <2>1, TurnKeeps
<1>5. CASE Async!Tick
  <2>1. /\ now < MaxTime /\ now' = now + 1
        /\ \A c \in Tasks : outcome[c] = "sleeping" /\ deadline[c] # Async!Never => now < wakeAt[c]
        /\ UNCHANGED <<log, first, deadline, wakeAt, outcome>>
    BY <1>5 DEF Async!Tick
  <2>2. now' \in 0..MaxTime
    BY <1>1, <2>1
  <2>3. Async!TypeOK'
    BY <2>1, <2>2 DEF TasksInv, Async!TypeOK, Async!Admission, Async!Never
  <2>4. DequeBounded'
    BY <2>1 DEF TasksInv, DequeBounded, Held
  <2>5. \A i \in 1..first'-1 : log'[i].at <= now' - Window
    <3> SUFFICES ASSUME NEW i \in 1..first - 1 PROVE log[i].at <= (now + 1) - Window
      BY <2>1
    <3>1. log \in Seq(Admission) /\ first \in 1..Len(log) + 1
      BY TasksTyped
    <3>2. i \in 1..Len(log) /\ log[i].at \in Nat
      BY <3>1, LogTyped
    <3>3. log[i].at <= now - Window
      BY DEF TasksInv
    <3> QED
      BY <1>1, <3>2, <3>3
  <2>6. \A c \in Tasks : outcome'[c] = "sleeping" /\ deadline'[c] # Async!Never =>
          now' <= wakeAt'[c] /\ wakeAt'[c] <= deadline'[c]
    <3> SUFFICES ASSUME NEW c \in Tasks, outcome[c] = "sleeping", deadline[c] # Async!Never
                 PROVE  now + 1 <= wakeAt[c] /\ wakeAt[c] <= deadline[c]
      BY <2>1
    <3>1. now < wakeAt[c] /\ wakeAt[c] <= deadline[c] /\ wakeAt[c] \in Nat
      BY <2>1, TasksTyped DEF TasksInv
    <3> QED
      BY <1>1, <3>1
  <2>7. \A i \in DOMAIN log' : log'[i].at = log'[i].stamp
    BY <2>1 DEF TasksInv
  <2> QED
    BY <2>3, <2>4, <2>5, <2>6, <2>7 DEF TasksInv, Async!Never
<1> QED
  BY <1>2, <1>3, <1>4, <1>5 DEF Async!Next

LEMMA LimitersStep ==
  ASSUME LimitersStrong, [LimitersNext]_allVars
  PROVE  LimitersStrong'
<1>1. CASE callers = "threads" /\ Next /\ UNCHANGED <<callers, taskVars>>
  BY <1>1, StepInv DEF LimitersStrong
<1>2. CASE callers = "tasks" /\ Async!Next /\ UNCHANGED <<callers, pc, clock>>
  BY <1>2, TasksKeep DEF LimitersStrong
<1>3. CASE UNCHANGED allVars
  <2>1. UNCHANGED <<callers, log, first, now, pc, clock, deadline, wakeAt, outcome>>
    BY <1>3 DEF allVars, vars, taskVars
  <2>2. LimiterInv => LimiterInv'
    BY <2>1, StepInv DEF vars
  <2>3. TasksInv => TasksInv'
    BY <2>1 DEF TasksInv, DequeBounded, Held, Async!TypeOK, Async!Admission, Async!Never
  <2> QED
    BY <2>1, <2>2, <2>3 DEF LimitersStrong
<1> QED
  BY <1>1, <1>2, <1>3 DEF LimitersNext

LEMMA LimitersInvariant == LimitersSpec => []LimitersStrong
<1> DEFINE Strong == LimitersStrong
<1>1. LimitersInit => Strong
  BY LimitersStart
<1>2. Strong /\ [LimitersNext]_allVars => Strong'
  BY LimitersStep
<1>3. LimitersSpec => LimitersInit /\ [][LimitersNext]_allVars
  BY PTL DEF LimitersSpec
<1> HIDE DEF Strong
<1>4. LimitersSpec => []Strong
  BY <1>1, <1>2, <1>3, PTL
<1> QED
  BY <1>4 DEF Strong

\* The tasks of an event loop are admitted as often as the class promises in any window,
\* and the answer of wait() to a thread is exact, though its stamps may be out of order
\* (patterns.py:112-121, 227-241).
THEOREM WindowsHold == LimitersSpec => []WindowHolds
<1> DEFINE Strong == LimitersStrong
           Weak == WindowHolds
<1>1. Strong => Weak
  <2> SUFFICES ASSUME LimitersStrong PROVE WindowHolds
    OBVIOUS
  <2>1. log \in Seq(Admission) /\ first \in 1..Len(log) + 1 /\ now \in Nat /\ DequeBounded
    <3>1. CASE callers = "threads"
      BY <3>1 DEF LimitersStrong, LimiterInv, TypeOK
    <3>2. CASE callers = "tasks"
      BY <3>2, TasksTyped DEF LimitersStrong
    <3> QED
      BY <3>1, <3>2 DEF LimitersStrong
  <2>2. WaitIsExact
    BY <2>1, WaitExact
  <2>3. callers = "tasks" => WindowLimit
    <3>1. callers = "tasks" => \A i \in 1..first - 1 : log[i].at <= now - Window
      BY DEF LimitersStrong, TasksInv
    <3> QED
      BY <2>1, <3>1, WindowInDeque DEF WindowLimit
  <2> QED
    BY <2>2, <2>3 DEF WindowHolds
<1>2. LimitersSpec => []Strong
  BY LimitersInvariant
<1> HIDE DEF Strong, Weak
<1>3. LimitersSpec => []Weak
  BY <1>1, <1>2, PTL
<1> QED
  BY <1>3 DEF Weak

\* A call of wait(timeout) gives up at its deadline, neither sooner nor later, and only
\* if a last attempt found no room, whatever the other tasks do (patterns.py:243-266).
THEOREM GivesUpAtItsDeadline == LimitersSpec => TimesOutOnTime
<1> DEFINE Strong == LimitersStrong
<1>1. LimitersStrong /\ [LimitersNext]_allVars => [Async!GivesUpOnTime]_allVars
  <2> SUFFICES ASSUME LimitersStrong, LimitersNext, NEW c \in Tasks,
                      outcome'[c] = "timed_out", outcome[c] # "timed_out"
               PROVE  now = deadline'[c] /\ ~HasRoom(first')
    BY SameWindow DEF Async!GivesUpOnTime
  <2>1. callers = "tasks" /\ Async!Next /\ TasksInv
    BY DEF LimitersNext, taskVars, LimitersStrong
  <2>2. /\ now \in Nat /\ now <= MaxTime /\ MaxTime \in Nat /\ Timeouts \subseteq Nat
        /\ deadline \in [Tasks -> 0..Async!Never]
        /\ outcome \in [Tasks -> {"idle", "timed_out", "sleeping"}]
        /\ Async!Never = MaxTime + 1
    BY <2>1, TasksTyped
  <2>3. ~Async!Tick
    BY DEF Async!Tick
  <2>4. PICK b \in Tasks : Async!Allow(b) \/ Async!StartWait(b) \/ Async!Wake(b)
    BY <2>1, <2>3 DEF Async!Next
  <2>5. \E o \in {"idle", "timed_out", "sleeping"} : outcome' = [outcome EXCEPT ![b] = o]
    BY <2>4 DEF Async!Allow, Async!StartWait, Async!Wake, Async!Attempt, Async!Granted,
                Async!GiveUp, Async!Sleep, Async!Becomes
  <2>6. b = c
    BY <2>2, <2>5
  <2>7. ~Async!Allow(c)
    BY <2>2 DEF Async!Allow, Async!Becomes
  <2>8. ASSUME NEW limit, Async!Attempt(c, limit) PROVE Async!GiveUp(c, limit)
    BY <2>2, <2>8 DEF Async!Attempt, Async!Granted, Async!Sleep, Async!Becomes
  <2>9. ASSUME NEW limit, Async!GiveUp(c, limit)
        PROVE  now >= limit /\ deadline'[c] = limit /\ ~HasRoom(first')
    BY <2>2, <2>9, SameWindow DEF Async!GiveUp, Async!Deny
  <2>10. CASE Async!StartWait(c)
    <3>1. PICK d \in Timeouts \cup {Async!Never} :
            \/ d \in Timeouts /\ Async!Attempt(c, now + d)
            \/ d = Async!Never /\ Async!Attempt(c, Async!Never)
      BY <2>10 DEF Async!StartWait
    <3>2. CASE d \in Timeouts /\ Async!Attempt(c, now + d)
      <4>1. now >= now + d /\ deadline'[c] = now + d /\ ~HasRoom(first')
        BY <2>8, <2>9, <3>2
      <4>2. d \in Nat
        BY <2>2, <3>2
      <4> QED
        BY <2>2, <4>1, <4>2
    <3>3. CASE Async!Attempt(c, Async!Never)
      <4>1. now >= Async!Never
        BY <2>8, <2>9, <3>3
      <4> QED
        BY <2>2, <4>1
    <3> QED
      BY <3>1, <3>2, <3>3
  <2>11. CASE Async!Wake(c)
    <3>1. /\ outcome[c] = "sleeping" /\ now >= wakeAt[c]
          /\ Async!Attempt(c, deadline[c]) /\ deadline[c] \in Nat
      BY <2>2, <2>11 DEF Async!Wake
    <3>2. now >= deadline[c] /\ deadline'[c] = deadline[c] /\ ~HasRoom(first')
      BY <2>8, <2>9, <3>1
    <3>3. deadline[c] # Async!Never
      BY <2>2, <3>2
    <3>4. now <= wakeAt[c] /\ wakeAt[c] <= deadline[c] /\ wakeAt[c] \in Nat
      BY <2>1, <3>1, <3>3, TasksTyped DEF TasksInv
    <3> QED
      BY <2>2, <3>1, <3>2, <3>4
  <2> QED
    BY <2>4, <2>6, <2>7, <2>10, <2>11
<1>2. LimitersSpec => []LimitersStrong /\ [][LimitersNext]_allVars
  BY LimitersInvariant, PTL DEF LimitersSpec
<1> QED
  BY <1>1, <1>2, PTL DEF TimesOutOnTime
=============================================================================
