--------------------------- MODULE OfflineBuffer ---------------------------
(***************************************************************************)
(* The OfflineMetricBuffer of autonomy/offline_buffer.py.  The deque is    *)
(* only touched under the lock; the clock is read, the batch is exported   *)
(* and marked, and the flushed are counted outside it.                     *)
(***************************************************************************)
EXTENDS Lists

CONSTANTS Threads,
          MaxSize,       \* max_size
          MaxAge,        \* max_age_seconds, in clock ticks
          BatchSize,     \* batch_size
          MaxRecords,    \* bound on the entries, which are numbered
          MaxTime        \* bound on the clock

BufferAssumption ==
  /\ IsFiniteSet(Threads)
  /\ MaxSize \in Nat \ {0} /\ MaxAge \in Nat /\ BatchSize \in Nat \ {0}
  /\ MaxRecords \in Nat /\ MaxTime \in Nat

VARIABLES
  buffer,         \* _buffer
  stamp,          \* timestamp of each entry
  marked,         \* the entries whose flushed field is set
  totalDropped, totalExpired, totalFlushed,
  now,            \* time.time()
  pc,             \* where each thread is
  clock,          \* the timestamp or the cutoff it works with
  batch, rest,    \* the batch it flushes, and what of it is not marked yet
  read,           \* what it has read of _total_flushed
  made,           \* history: entries recorded; their number is _total_buffered
  evicted, outdated, cleared,  \* history: the entries that left another way
  accepted,       \* history: how often export_fn has accepted each entry
  shared,         \* history: entries that two flushes had in their batches at once
  torn            \* history: threads that were about to store _total_flushed when
                  \* another read it

thread  == <<pc, clock, batch, rest, read>>
totals  == <<totalDropped, totalExpired, totalFlushed>>
history == <<made, evicted, outdated, cleared, accepted, shared, torn>>
vars    == <<buffer, stamp, marked, totals, now, thread, history>>

Entries == 1..MaxRecords
Location == {"idle", "recording", "expiring", "exporting", "marking", "adding",
             "storing", "purging"}

TypeOK ==
  /\ buffer \in Seq(Entries) /\ Len(buffer) <= MaxSize
  /\ stamp \in [Entries -> Nat] /\ marked \subseteq Entries
  /\ totalDropped \in Nat /\ totalExpired \in Nat /\ totalFlushed \in Nat
  /\ now \in 0..MaxTime
  /\ pc \in [Threads -> Location]
  /\ clock \in [Threads -> 0..MaxTime]
  /\ batch \in [Threads -> Seq(Entries)] /\ rest \in [Threads -> Seq(Entries)]
  /\ read \in [Threads -> Nat]
  /\ made \in 0..MaxRecords
  /\ evicted \subseteq Entries /\ outdated \subseteq Entries /\ cleared \subseteq Entries
  /\ accepted \in [Entries -> Nat]
  /\ shared \subseteq Entries /\ torn \subseteq Threads

Init ==
  /\ buffer = <<>> /\ stamp = [e \in Entries |-> 0] /\ marked = {}
  /\ totalDropped = 0 /\ totalExpired = 0 /\ totalFlushed = 0
  /\ now = 0
  /\ pc = [t \in Threads |-> "idle"] /\ clock = [t \in Threads |-> 0]
  /\ batch = [t \in Threads |-> <<>>] /\ rest = [t \in Threads |-> <<>>]
  /\ read = [t \in Threads |-> 0]
  /\ made = 0 /\ evicted = {} /\ outdated = {} /\ cleared = {}
  /\ accepted = [e \in Entries |-> 0]
  /\ shared = {} /\ torn = {}

Move(t, from, to) == pc[t] = from /\ pc' = [pc EXCEPT ![t] = to]
ForgetClock(t) == clock' = [clock EXCEPT ![t] = 0]

Unmarked(s) == Keeping(s, Entries \ marked)

-----------------------------------------------------------------------------
\* A thread reads the clock: to stamp an entry, or to expire the old ones.
ReadClock(t) ==
  /\ \/ Move(t, "idle", "expiring")
     \/ /\ made + Cardinality({u \in Threads : pc[u] = "recording"}) < MaxRecords
        /\ Move(t, "idle", "recording")
  /\ clock' = [clock EXCEPT ![t] = now]
  /\ UNCHANGED <<buffer, stamp, marked, totals, now, batch, rest, read, history>>

\* Faulty: the newest entry makes room.
Store_EvictsNewest(t) ==
  /\ Move(t, "recording", "idle") /\ ForgetClock(t)
  /\ made' = made + 1
  /\ stamp' = [stamp EXCEPT ![made'] = clock[t]]
  /\ LET full == Len(buffer) = MaxSize IN
       /\ buffer' = Append(IF full THEN SubSeq(buffer, 1, Len(buffer) - 1) ELSE buffer, made')
       /\ totalDropped' = IF full THEN totalDropped + 1 ELSE totalDropped
       /\ evicted' = IF full THEN evicted \cup {buffer[Len(buffer)]} ELSE evicted
  /\ UNCHANGED <<marked, totalExpired, totalFlushed, now, batch, rest, read,
                 outdated, cleared, accepted, shared, torn>>

\* The deque drops its oldest entry when it is full.
Store(t) ==
  /\ Move(t, "recording", "idle") /\ ForgetClock(t)
  /\ made' = made + 1
  /\ stamp' = [stamp EXCEPT ![made'] = clock[t]]
  /\ LET full == Len(buffer) = MaxSize IN
       /\ buffer' = Append(IF full THEN Tail(buffer) ELSE buffer, made')
       /\ totalDropped' = IF full THEN totalDropped + 1 ELSE totalDropped
       /\ evicted' = IF full THEN evicted \cup {Head(buffer)} ELSE evicted
  /\ UNCHANGED <<marked, totalExpired, totalFlushed, now, batch, rest, read,
                 outdated, cleared, accepted, shared, torn>>

\* expire_old()
Expire(t) ==
  /\ Move(t, "expiring", "idle") /\ ForgetClock(t)
  /\ LET fresh == {e \in Entries : stamp[e] >= clock[t] - MaxAge}
         old == Range(buffer) \ fresh
     IN  /\ buffer' = Keeping(buffer, fresh)
         /\ totalExpired' = totalExpired + Cardinality(old)
         /\ outdated' = outdated \cup old
  /\ UNCHANGED <<stamp, marked, totalDropped, totalFlushed, now, batch, rest, read,
                 made, evicted, cleared, accepted, shared, torn>>

Clear(t) ==
  /\ pc[t] = "idle"
  /\ buffer' = <<>>
  /\ cleared' = cleared \cup Range(buffer)
  /\ UNCHANGED <<stamp, marked, totals, now, thread, made, evicted, outdated, accepted,
                 shared, torn>>

-----------------------------------------------------------------------------
\* flush_sync(): the batch is chosen under the lock, from what has no mark, be it in the
\* batch of another flush or not, ...
Choose(t) ==
  /\ LET pending == Unmarked(buffer) IN
       batch' = [batch EXCEPT ![t] =
                   SubSeq(pending, 1, IF Len(pending) < BatchSize THEN Len(pending)
                                                                  ELSE BatchSize)]
  /\ batch'[t] # <<>>
  /\ shared' = shared \cup (Range(batch'[t]) \cap UNION {Range(batch[u]) : u \in Threads \ {t}})
  /\ Move(t, "idle", "exporting")
  /\ UNCHANGED <<buffer, stamp, marked, totals, now, clock, rest, read, made,
                 evicted, outdated, cleared, accepted, torn>>

\* Faulty: a batch that was refused counts as flushed.
Refuse_Marks(t) ==
  /\ Move(t, "exporting", "idle")
  /\ marked' = marked \cup Range(batch[t])
  /\ batch' = [batch EXCEPT ![t] = <<>>]
  /\ UNCHANGED <<buffer, stamp, totals, now, clock, rest, read, history>>

\* ... given to export_fn, which refuses it or raises, ...
Refuse(t) ==
  /\ Move(t, "exporting", "idle")
  /\ batch' = [batch EXCEPT ![t] = <<>>]
  /\ UNCHANGED <<buffer, stamp, marked, totals, now, clock, rest, read, history>>

Accept(t) ==
  /\ Move(t, "exporting", "marking")
  /\ rest' = [rest EXCEPT ![t] = batch[t]]
  /\ accepted' = [e \in Entries |-> accepted[e] + IF e \in Range(batch[t]) THEN 1 ELSE 0]
  /\ UNCHANGED <<buffer, stamp, marked, totals, now, clock, batch, read, made,
                 evicted, outdated, cleared, shared, torn>>

\* Faulty: only the first entry of the batch is marked.
Mark_FirstOnly(t) ==
  /\ pc[t] = "marking"
  /\ marked' = marked \cup {Head(rest[t])}
  /\ rest' = [rest EXCEPT ![t] = <<>>]
  /\ pc' = [pc EXCEPT ![t] = "adding"]
  /\ UNCHANGED <<buffer, stamp, totals, now, clock, batch, read, history>>

\* ... or accepts it: the entries are marked one by one, ...
Mark(t) ==
  /\ pc[t] = "marking"
  /\ marked' = marked \cup {Head(rest[t])}
  /\ rest' = [rest EXCEPT ![t] = Tail(@)]
  /\ pc' = [pc EXCEPT ![t] = IF rest'[t] = <<>> THEN "adding" ELSE "marking"]
  /\ UNCHANGED <<buffer, stamp, totals, now, clock, batch, read, history>>

\* ... _total_flushed is read before the call of len() and stored after it, ...
ReadTotal(t) ==
  /\ Move(t, "adding", "storing")
  /\ read' = [read EXCEPT ![t] = totalFlushed]
  /\ torn' = torn \cup {u \in Threads \ {t} : pc[u] = "storing"}
  /\ UNCHANGED <<buffer, stamp, marked, totals, now, clock, batch, rest, made,
                 evicted, outdated, cleared, accepted, shared>>

\* Faulty: entries evicted during the export are not counted.
StoreTotal_StillHere(t) ==
  /\ Move(t, "storing", "purging")
  /\ totalFlushed' = read[t] + Cardinality(Range(batch[t]) \cap Range(buffer))
  /\ read' = [read EXCEPT ![t] = 0]
  /\ batch' = [batch EXCEPT ![t] = <<>>]
  /\ UNCHANGED <<buffer, stamp, marked, totalDropped, totalExpired, now, clock, rest, history>>

StoreTotal(t) ==
  /\ Move(t, "storing", "purging")
  /\ totalFlushed' = read[t] + Len(batch[t])
  /\ read' = [read EXCEPT ![t] = 0]
  /\ batch' = [batch EXCEPT ![t] = <<>>]
  /\ UNCHANGED <<buffer, stamp, marked, totalDropped, totalExpired, now, clock, rest, history>>

\* ... and what is marked is purged.
Purge(t) ==
  /\ Move(t, "purging", "idle")
  /\ buffer' = Unmarked(buffer)
  /\ UNCHANGED <<stamp, marked, totals, now, clock, batch, rest, read, history>>

Tick ==
  /\ now < MaxTime
  /\ now' = now + 1
  /\ UNCHANGED <<buffer, stamp, marked, totals, thread, history>>

Next == \/ \E t \in Threads :
             \/ ReadClock(t) \/ Store(t) \/ Expire(t) \/ Clear(t)
             \/ Choose(t) \/ Refuse(t) \/ Accept(t) \/ Mark(t)
             \/ ReadTotal(t) \/ StoreTotal(t) \/ Purge(t)
        \/ Tick

Spec == Init /\ [][Next]_vars

-----------------------------------------------------------------------------
Delivered == {e \in Entries : accepted[e] > 0}

\* An entry leaves the buffer only by a successful export, by eviction, by age or
\* by clear(), and the totals of the evicted and of the expired are their numbers.
Accounted ==
  /\ 1..made = Range(buffer) \cup Delivered \cup evicted \cup outdated \cup cleared
  /\ totalDropped = Cardinality(evicted)
  /\ totalExpired = Cardinality(outdated)

\* Whatever flushes, expiries and evictions interleave, the buffer keeps its order
\* and an evicted entry is older than all that are left.
NewestKept ==
  /\ \A i, j \in DOMAIN buffer : i < j => buffer[i] < buffer[j]
  /\ \A e \in evicted : \A i \in DOMAIN buffer : e < buffer[i]

\* However many threads flush, the total never exceeds the number of deliveries, and it
\* is that number when no batch is still to be counted, unless a thread has read the
\* total while another was about to store it: then a count may be lost
\* (autonomy/offline_buffer.py:180, which is outside the lock).
Counting(t) == pc[t] \in {"marking", "adding", "storing"}

FlushedIsExact ==
  /\ totalFlushed <= SumFunction(accepted)
  /\ torn = {} /\ (\A t \in Threads : ~Counting(t)) => totalFlushed = SumFunction(accepted)

BufferInv == TypeOK /\ NewestKept /\ Accounted /\ FlushedIsExact

\* Only an entry that two flushes had in their batches at the same time is exported
\* twice, whatever is recorded, evicted, expired and cleared meanwhile.  Such an entry may
\* be: flush_sync releases the lock before it exports and marks
\* (autonomy/offline_buffer.py:165-177).
ExportedOnce == \A e \in Entries \ shared : accepted[e] <= 1
=============================================================================
