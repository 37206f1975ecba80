---------------------------- MODULE Buffers_proof ----------------------------
(***************************************************************************)
(* What waits to be sent: the offline buffer accounts for every entry,     *)
(* whatever flushes, records, expires and clears at the same time, and     *)
(* exports it twice only if two flushes had it at once; the offline        *)
(* storage loses an entry only in a way that has a name.                   *)
(***************************************************************************)
EXTENDS MCTelemetry, CollectionLemmas

\* A step of the composition is a step of the buffer or leaves it alone.
LEMMA StepOfPart ==
  ASSUME [TelemetryNext]_<<part, keeping, learning>>
  PROVE  [Next]_vars
  BY DEF TelemetryNext, Keep, Learn, keeping, learning

-----------------------------------------------------------------------------
\* A batch holds entries in their order; what is marked was accepted, and what is still
\* to be marked; there is room for the entries that have their stamp already.
BatchesTyped ==
  /\ made + Cardinality({u \in Threads : pc[u] = "recording"}) <= MaxRecords
  /\ Range(buffer) \cap outdated = {}
  /\ marked \subseteq Delivered
  /\ \A t \in Threads :
       /\ Increasing(batch[t]) /\ Range(batch[t]) \subseteq 1..made
       /\ pc[t] = "exporting" => batch[t] # <<>>
       /\ pc[t] = "marking" => rest[t] # <<>> /\ Range(rest[t]) \subseteq Delivered

BufferStrong == TypeOK /\ NewestKept /\ Accounted /\ BatchesTyped

\* What was accepted and has no mark is about to get one.  Of a batch that is exported
\* only what another flush had too can have been accepted, and of two batches that are
\* exported or marked at the same time only what is shared is in both.
Holding(t) == pc[t] \in {"exporting", "marking"}

DeliveryStrong ==
  /\ \A e \in Delivered :
       e \in marked \/ \E t \in Threads : pc[t] = "marking" /\ e \in Range(rest[t])
  /\ \A t \in Threads : pc[t] = "marking" => Range(rest[t]) \subseteq Range(batch[t])
  /\ \A t \in Threads : pc[t] = "exporting" => Range(batch[t]) \cap Delivered \subseteq shared
  /\ \A t, u \in Threads : t # u /\ Holding(t) /\ Holding(u) =>
       Range(batch[t]) \cap Range(batch[u]) \subseteq shared
  /\ ExportedOnce

\* The total, and what a thread has read of it, lag by at least the batches that are still
\* to be counted; the total lags by just these unless an update of it was overtaken.
Waiting == [t \in Threads |-> IF Counting(t) THEN Len(batch[t]) ELSE 0]
Uncounted == SumFunctionOnSet(Waiting, Threads)

CountStrong ==
  /\ totalFlushed + Uncounted <= SumFunction(accepted)
  /\ \A t \in Threads : pc[t] = "storing" => read[t] + Uncounted <= SumFunction(accepted)
  /\ torn = {} =>
       /\ totalFlushed + Uncounted = SumFunction(accepted)
       /\ \A t \in Threads : pc[t] = "storing" => read[t] = totalFlushed
       /\ \A t, u \in Threads : pc[t] = "storing" /\ pc[u] = "storing" => t = u

-----------------------------------------------------------------------------
\* What is kept of a sequence: its members in S, in their order.
LEMMA KeepingFacts ==
  ASSUME NEW T \in SUBSET Int, NEW s \in Seq(T), Increasing(s), NEW S
  PROVE  /\ Keeping(s, S) \in Seq(T)
         /\ Len(Keeping(s, S)) <= Len(s)
         /\ Range(Keeping(s, S)) = Range(s) \cap S
         /\ Increasing(Keeping(s, S))
<1>1. Keeping(s, S) = KeptOf(s, S, Len(s))[Len(s)]
  BY DEF Keeping, Kept, KeptOf
<1>2. Range(s) = Members(s) /\ Range(Keeping(s, S)) = Members(Keeping(s, S))
  BY DEF Range, Members
<1> QED
  BY <1>1, <1>2, KeptFacts

-----------------------------------------------------------------------------
\* What the typing says of the sequences and the sets of entries.
LEMMA EntriesTyped ==
  /\ MaxRecords \in Nat /\ Entries \in SUBSET Int /\ Entries \in SUBSET Nat
  /\ IsFiniteSet(Entries) /\ IsFiniteSet(Threads)
  /\ MaxSize \in Nat /\ MaxSize # 0 /\ BatchSize \in Nat /\ BatchSize # 0 /\ MaxTime \in Nat
<1>1. IsFiniteSet(1..MaxRecords)
  BY TelemetryAssumption, FS_Interval DEF BufferAssumption
<1> QED
  BY <1>1, TelemetryAssumption DEF BufferAssumption, Entries

LEMMA BufferTyped ==
  ASSUME BufferStrong
  PROVE  /\ buffer \in Seq(Entries) /\ Len(buffer) \in Nat /\ DOMAIN buffer = 1..Len(buffer)
         /\ \A i \in 1..Len(buffer) : buffer[i] \in Nat
         /\ Increasing(buffer)
         /\ made \in Nat /\ made <= MaxRecords
         /\ Range(buffer) \subseteq 1..made
         /\ \A S \in SUBSET (1..MaxRecords) : IsFiniteSet(S)
         /\ Delivered \subseteq 1..made /\ evicted \subseteq 1..made
         /\ outdated \subseteq 1..made /\ cleared \subseteq 1..made
<1>1. TypeOK /\ NewestKept /\ Accounted
  BY DEF BufferStrong
<1>2. /\ buffer \in Seq(Entries) /\ Len(buffer) \in Nat /\ DOMAIN buffer = 1..Len(buffer)
      /\ \A i \in 1..Len(buffer) : buffer[i] \in Entries
  BY <1>1 DEF TypeOK
<1>3. made \in Nat /\ made <= MaxRecords
  BY <1>1, EntriesTyped DEF TypeOK
<1>4. \A S \in SUBSET (1..MaxRecords) : IsFiniteSet(S)
  BY EntriesTyped, FS_Subset DEF Entries
<1>5. Increasing(buffer)
  BY <1>1 DEF NewestKept, Increasing
<1> QED
  BY <1>1, <1>2, <1>3, <1>4, <1>5, EntriesTyped DEF Accounted

\* The threads that are about to store an entry.
Recording == {u \in Threads : pc[u] = "recording"}

LEMMA RecordingChanges ==
  ASSUME TypeOK, NEW t \in Threads, NEW to, pc' = [pc EXCEPT ![t] = to]
  PROVE  /\ Cardinality(Recording) \in Nat /\ Cardinality(Recording') \in Nat
         /\ pc'[t] # "recording" => Cardinality(Recording') <= Cardinality(Recording)
         /\ pc'[t] # "recording" /\ pc[t] = "recording" =>
              Cardinality(Recording') = Cardinality(Recording) - 1
         /\ pc'[t] = "recording" => Cardinality(Recording') <= Cardinality(Recording) + 1
<1>1. pc'[t] = to /\ \A u \in Threads \ {t} : pc'[u] = pc[u]
  BY DEF TypeOK
<1>2. IsFiniteSet(Recording) /\ IsFiniteSet(Recording')
  <2>1. Recording \in SUBSET Threads /\ Recording' \in SUBSET Threads
    BY DEF Recording
  <2> QED
    BY <2>1, EntriesTyped, FS_Subset
<1>3. Cardinality(Recording) \in Nat /\ Cardinality(Recording') \in Nat
  BY <1>2, FS_CardinalityType
<1>4. CASE pc'[t] # "recording" /\ pc[t] = "recording"
  <2>1. Recording' = Recording \ {t} /\ t \in Recording
    BY <1>1, <1>4 DEF Recording
  <2>2. Cardinality(Recording') = Cardinality(Recording) - 1
    BY <1>2, <2>1, OneLess
  <2> QED
    BY <1>3, <1>4, <2>2
<1>5. CASE pc'[t] # "recording" /\ pc[t] # "recording"
  <2>1. Recording' = Recording
    BY <1>1, <1>5 DEF Recording
  <2> QED
    BY <1>3, <1>5, <2>1
<1>6. CASE pc'[t] = "recording"
  <2>1. Recording' = Recording \cup {t}
    BY <1>1, <1>6 DEF Recording
  <2>2. CASE t \in Recording
    <3>1. Recording' = Recording
      BY <2>1, <2>2
    <3> QED
      BY <1>3, <1>6, <3>1
  <2>3. CASE t \notin Recording
    <3>1. Cardinality(Recording') = Cardinality(Recording) + 1
      BY <1>2, <2>1, <2>3, OneMore
    <3> QED
      BY <1>3, <1>6, <3>1
  <2> QED
    BY <2>2, <2>3
<1> QED
  BY <1>4, <1>5, <1>6

\* A step that moves one thread and touches no entry, no batch and no total of the lost.
LEMMA ContentsUntouched ==
  ASSUME BufferStrong, NEW t \in Threads, NEW to \in Location,
         pc' = [pc EXCEPT ![t] = to], to # "recording",
         UNCHANGED <<buffer, stamp, marked, totalDropped, totalExpired, now, made, evicted,
                     outdated, cleared, accepted>>,
         shared' \in SUBSET Entries, torn' \in SUBSET Threads,
         batch' \in [Threads -> Seq(Entries)], rest' \in [Threads -> Seq(Entries)],
         clock' \in [Threads -> 0..MaxTime], read' \in [Threads -> Nat], totalFlushed' \in Nat,
         \A u \in Threads : Increasing(batch'[u]) /\ Range(batch'[u]) \subseteq 1..made,
         \A u \in Threads \ {t} : batch'[u] = batch[u] /\ rest'[u] = rest[u],
         to = "exporting" => batch'[t] # <<>>,
         to = "marking" => rest'[t] # <<>> /\ Range(rest'[t]) \subseteq Delivered
  PROVE  BufferStrong'
<1>1. TypeOK /\ NewestKept /\ Accounted /\ BatchesTyped
  BY DEF BufferStrong
<1>2. TypeOK'
  BY <1>1 DEF TypeOK
<1>3. NewestKept' /\ Accounted' /\ Delivered' = Delivered
  BY <1>1 DEF NewestKept, Accounted, Delivered
<1>4. pc'[t] = to /\ \A u \in Threads \ {t} : pc'[u] = pc[u]
  BY <1>1 DEF TypeOK
<1>5. made' + Cardinality(Recording') <= MaxRecords
  <2>1. Cardinality(Recording') <= Cardinality(Recording)
        /\ Cardinality(Recording) \in Nat /\ Cardinality(Recording') \in Nat
    BY <1>1, <1>4, RecordingChanges
  <2>2. made + Cardinality(Recording) <= MaxRecords
    BY <1>1 DEF BatchesTyped, Recording
  <2>3. made \in Int /\ made' = made /\ MaxRecords \in Int
    BY <1>1, EntriesTyped DEF TypeOK
  <2> QED
    BY ONLY <2>1, <2>2, <2>3
<1>6. \A u \in Threads :
        /\ Increasing(batch'[u]) /\ Range(batch'[u]) \subseteq 1..made
        /\ pc'[u] = "exporting" => batch'[u] # <<>>
        /\ pc'[u] = "marking" => rest'[u] # <<>> /\ Range(rest'[u]) \subseteq Delivered
  BY <1>1, <1>4 DEF BatchesTyped
<1>7. BatchesTyped'
  BY <1>1, <1>3, <1>5, <1>6 DEF BatchesTyped, Recording
<1> QED
  BY <1>2, <1>3, <1>7 DEF BufferStrong

LEMMA BatchesOf ==
  ASSUME BufferStrong
  PROVE  /\ TypeOK /\ NewestKept /\ Accounted /\ BatchesTyped
         /\ batch \in [Threads -> Seq(Entries)] /\ rest \in [Threads -> Seq(Entries)]
         /\ clock \in [Threads -> 0..MaxTime] /\ read \in [Threads -> Nat]
         /\ totalFlushed \in Nat /\ now \in 0..MaxTime
         /\ shared \in SUBSET Entries /\ torn \in SUBSET Threads
         /\ \A u \in Threads : Increasing(batch[u]) /\ Range(batch[u]) \subseteq 1..made
  BY DEF BufferStrong, TypeOK, BatchesTyped

LEMMA ReadClockKeeps ==
  ASSUME BufferStrong, NEW t \in Threads, ReadClock(t)
  PROVE  BufferStrong'
<1>1. /\ clock' = [clock EXCEPT ![t] = now]
      /\ UNCHANGED <<buffer, stamp, marked, totalDropped, totalExpired, totalFlushed, now,
                     batch, rest, read, made, evicted, outdated, cleared, accepted, shared, torn>>
  BY DEF ReadClock, totals, history
<1>2. clock' \in [Threads -> 0..MaxTime]
  BY <1>1, BatchesOf
<1>3. CASE Move(t, "idle", "expiring")
  <2>1. pc' = [pc EXCEPT ![t] = "expiring"] /\ "expiring" \in Location
    BY <1>3 DEF Move, Location
  <2> QED
    BY <1>1, <1>2, <2>1, BatchesOf, ContentsUntouched
<1>4. CASE /\ made + Cardinality(Recording) < MaxRecords
           /\ Move(t, "idle", "recording")
  <2>1. pc' = [pc EXCEPT ![t] = "recording"] /\ "recording" \in Location
    BY <1>4 DEF Move, Location
  <2>2. TypeOK'
    BY <1>1, <1>2, <2>1, BatchesOf DEF TypeOK
  <2>3. NewestKept' /\ Accounted' /\ Delivered' = Delivered
    BY <1>1, BatchesOf DEF NewestKept, Accounted, Delivered
  <2>4. pc'[t] = "recording" /\ \A u \in Threads \ {t} : pc'[u] = pc[u]
    BY <2>1, BatchesOf DEF TypeOK
  <2>5. /\ Cardinality(Recording') <= Cardinality(Recording) + 1
        /\ Cardinality(Recording') \in Nat /\ Cardinality(Recording) \in Nat
    BY <2>1, <2>4, BatchesOf, RecordingChanges
  <2>6. made' + Cardinality(Recording') <= MaxRecords
    BY <1>1, <1>4, <2>5, BufferTyped, EntriesTyped
  <2>7. BatchesTyped'
    BY <1>1, <2>3, <2>4, <2>6, BatchesOf DEF BatchesTyped, Recording
  <2> QED
    BY <2>2, <2>3, <2>7 DEF BufferStrong
<1> QED
  BY <1>3, <1>4 DEF ReadClock, Recording

\* The deque gains its newest entry and may lose its oldest.
LEMMA StoreKeeps ==
  ASSUME BufferStrong, NEW t \in Threads, Store(t)
  PROVE  BufferStrong'
<1> DEFINE full == Len(buffer) = MaxSize
           old == IF full THEN Tail(buffer) ELSE buffer
<1>1. /\ pc[t] = "recording" /\ pc' = [pc EXCEPT ![t] = "idle"]
      /\ clock' = [clock EXCEPT ![t] = 0]
      /\ made' = made + 1 /\ stamp' = [stamp EXCEPT ![made + 1] = clock[t]]
      /\ buffer' = Append(old, made + 1)
      /\ totalDropped' = IF full THEN totalDropped + 1 ELSE totalDropped
      /\ evicted' = IF full THEN evicted \cup {Head(buffer)} ELSE evicted
      /\ UNCHANGED <<marked, totalExpired, totalFlushed, now, batch, rest, read,
                     outdated, cleared, accepted, shared, torn>>
  BY DEF Store, Move, ForgetClock
<1>2. pc'[t] = "idle" /\ \A u \in Threads \ {t} : pc'[u] = pc[u]
  BY <1>1, BatchesOf DEF TypeOK
<1>3. /\ made' + Cardinality(Recording') <= MaxRecords /\ made + 1 \in Entries
      /\ made' \in 0..MaxRecords
  <2>1. /\ Cardinality(Recording') = Cardinality(Recording) - 1
        /\ Cardinality(Recording') \in Nat /\ Cardinality(Recording) \in Nat
    BY <1>1, <1>2, BatchesOf, RecordingChanges
  <2>2. made + Cardinality(Recording) <= MaxRecords
    BY BatchesOf DEF BatchesTyped, Recording
  <2>3. made \in Nat /\ MaxRecords \in Nat /\ made' = made + 1
    BY <1>1, BufferTyped, EntriesTyped
  <2>4. made' + Cardinality(Recording') <= MaxRecords /\ made' \in 1..MaxRecords
    BY <2>1, <2>2, <2>3
  <2> QED
    BY <2>3, <2>4 DEF Entries
<1>4. /\ old \in Seq(Entries) /\ Len(old) \in Nat /\ Len(old) < MaxSize
      /\ DOMAIN old = 1..Len(old)
      /\ Increasing(old) /\ (\A i \in 1..Len(old) : old[i] \in Range(buffer))
      /\ Range(buffer) = Range(old) \cup IF full THEN {Head(buffer)} ELSE {}
      /\ full => \A i \in 1..Len(old) : Head(buffer) < old[i]
  <2>0. /\ buffer \in Seq(Entries) /\ Len(buffer) \in Nat /\ Len(buffer) <= MaxSize
        /\ DOMAIN buffer = 1..Len(buffer)
        /\ Range(buffer) = {buffer[i] : i \in 1..Len(buffer)}
        /\ \A i, j \in 1..Len(buffer) : i < j => buffer[i] < buffer[j]
    BY BatchesOf, BufferTyped DEF Range, Increasing, TypeOK
  <2>1. CASE full
    <3>1. /\ old \in Seq(Entries) /\ Len(old) = Len(buffer) - 1 /\ Head(buffer) = buffer[1]
          /\ DOMAIN old = 1..Len(buffer) - 1
          /\ \A i \in 1..Len(buffer) - 1 : old[i] = buffer[i + 1]
      BY <2>0, <2>1, EntriesTyped
    <3>2. Len(old) \in Nat /\ Len(old) < MaxSize /\ DOMAIN old = 1..Len(old)
      BY <2>0, <2>1, <3>1, EntriesTyped
    <3> HIDE DEF old
    <3>3. Increasing(old)
      BY <2>0, <3>1 DEF Increasing
    <3>4. \A i \in 1..Len(old) : old[i] \in Range(buffer) /\ Head(buffer) < old[i]
      BY <2>0, <3>1
    <3>5. Range(buffer) = Range(old) \cup {Head(buffer)}
      <4>1. Range(old) = {old[i] : i \in 1..Len(buffer) - 1}
        BY <3>1, Zenon DEF Range
      <4>2. \A i \in 1..Len(buffer) : i = 1 \/ i - 1 \in 1..Len(buffer) - 1
        BY <2>0
      <4>3. \A i \in 1..Len(buffer) : i = 1 \/ buffer[i] = old[i - 1]
        BY <2>0, <3>1, <4>2
      <4>4. \A i \in 1..Len(buffer) - 1 : i + 1 \in 1..Len(buffer)
        BY <2>0
      <4>5. 1 \in 1..Len(buffer)
        BY <2>0, <2>1, EntriesTyped
      <4> QED
        BY <2>0, <3>1, <4>1, <4>2, <4>3, <4>4, <4>5
    <3> QED
      BY <2>1, <3>1, <3>2, <3>3, <3>4, <3>5
  <2>2. CASE ~full
    <3>1. old = buffer
      BY <2>2
    <3>2. Len(buffer) < MaxSize
      BY <2>0, <2>2, EntriesTyped
    <3> QED
      BY <2>0, <2>2, <3>1, <3>2, BufferTyped
  <2> QED
    BY <2>1, <2>2
<1> HIDE DEF old
<1>5. /\ buffer' \in Seq(Entries) /\ Len(buffer') = Len(old) + 1
      /\ DOMAIN buffer' = 1..Len(old) + 1 /\ buffer'[Len(old) + 1] = made + 1
      /\ \A i \in 1..Len(old) : buffer'[i] = old[i]
  BY <1>1, <1>3, <1>4
<1>6. Range(buffer') = Range(old) \cup {made + 1}
  <2>1. 1..Len(old) + 1 = 1..Len(old) \cup {Len(old) + 1}
    BY <1>4
  <2>2. /\ Range(buffer') = {buffer'[i] : i \in 1..Len(old) + 1}
        /\ Range(old) = {old[i] : i \in 1..Len(old)}
    BY <1>4, <1>5, Zenon DEF Range
  <2> QED
    BY <1>5, <2>1, <2>2
<1>7. \A i \in 1..Len(old) : old[i] \in Nat /\ old[i] < made + 1
  BY <1>4, BufferTyped
<1>8. Increasing(buffer')
  <2> SUFFICES ASSUME NEW i \in 1..Len(old) + 1, NEW j \in 1..Len(old) + 1, i < j
               PROVE  buffer'[i] < buffer'[j]
    BY <1>5 DEF Increasing
  <2>1. i \in 1..Len(old) /\ (j \in 1..Len(old) \/ j = Len(old) + 1)
    BY <1>4
  <2>2. CASE j \in 1..Len(old)
    BY <1>4, <1>5, <2>1, <2>2 DEF Increasing
  <2>3. CASE j = Len(old) + 1
    BY <1>5, <1>7, <2>1, <2>3
  <2> QED
    BY <2>1, <2>2, <2>3
<1>9. \A e \in evicted' : \A i \in DOMAIN buffer' : e < buffer'[i]
  <2> SUFFICES ASSUME NEW e \in evicted', NEW i \in 1..Len(old) + 1 PROVE e < buffer'[i]
    BY <1>5
  <2>1. CASE e \in evicted
    <3>1. e \in 1..made /\ \A j \in 1..Len(buffer) : e < buffer[j]
      BY <2>1, BatchesOf, BufferTyped DEF NewestKept
    <3>2. \A x \in Range(buffer) : e < x
      BY <3>1, BufferTyped DEF Range
    <3>3. i \in 1..Len(old) \/ i = Len(old) + 1
      BY <1>4
    <3> QED
      BY <1>4, <1>5, <3>1, <3>2, <3>3, BufferTyped
  <2>2. CASE full /\ e = Head(buffer)
    <3>1. e \in Range(buffer) /\ \A j \in 1..Len(old) : e < old[j]
      BY <1>4, <2>2
    <3>2. i \in 1..Len(old) \/ i = Len(old) + 1
      BY <1>4
    <3> QED
      BY <1>5, <3>1, <3>2, BufferTyped
  <2> QED
    BY <1>1, <2>1, <2>2
<1>10. full => Head(buffer) \in Range(buffer) /\ Head(buffer) \notin evicted
  <2> SUFFICES ASSUME full PROVE Head(buffer) \in Range(buffer) /\ Head(buffer) \notin evicted
    OBVIOUS
  <2>1. 1 \in DOMAIN buffer /\ Head(buffer) = buffer[1] /\ buffer[1] \in Nat
    BY BufferTyped, EntriesTyped
  <2>2. Head(buffer) \in Range(buffer)
    BY <2>1 DEF Range
  <2>3. \A e \in evicted : e < Head(buffer)
    BY <2>1, BatchesOf DEF NewestKept
  <2> QED
    BY <2>1, <2>2, <2>3
<1>11. totalDropped' = Cardinality(evicted') /\ totalDropped' \in Nat /\ evicted' \subseteq Entries
  <2>1. totalDropped = Cardinality(evicted) /\ totalDropped \in Nat /\ evicted \subseteq Entries
    BY BatchesOf DEF TypeOK, Accounted
  <2>2. CASE full
    <3>1. IsFiniteSet(evicted)
      BY <2>1, EntriesTyped, FS_Subset
    <3>2. Cardinality(evicted \cup {Head(buffer)}) = Cardinality(evicted) + 1
      BY <1>10, <2>2, <3>1, OneMore
    <3>3. Head(buffer) \in Entries
      <4>1. Head(buffer) \in 1..made /\ made \in Nat /\ MaxRecords \in Nat /\ made <= MaxRecords
        BY <1>10, <2>2, BufferTyped, EntriesTyped
      <4> QED
        BY ONLY <4>1 DEF Entries
    <3> QED
      BY <1>1, <2>1, <2>2, <3>2, <3>3
  <2>3. CASE ~full
    BY <1>1, <2>1, <2>3
  <2> QED
    BY <2>2, <2>3
<1>12. TypeOK'
  <2>1. stamp' \in [Entries -> Nat] /\ clock' \in [Threads -> 0..MaxTime]
        /\ pc' \in [Threads -> Location]
    <3>1. stamp \in [Entries -> Nat] /\ clock[t] \in Nat /\ 0 \in 0..MaxTime
      BY BatchesOf, EntriesTyped DEF TypeOK
    <3>2. stamp' \in [Entries -> Nat]
      BY <1>1, <3>1
    <3>3. clock' \in [Threads -> 0..MaxTime]
      BY <1>1, <3>1, BatchesOf
    <3>4. pc' \in [Threads -> Location]
      BY <1>1, BatchesOf DEF TypeOK, Location
    <3> QED
      BY <3>2, <3>3, <3>4
  <2>2. Len(buffer') <= MaxSize
    BY <1>4, <1>5, EntriesTyped
  <2> QED
    BY <1>1, <1>3, <1>5, <1>11, <2>1, <2>2, BatchesOf DEF TypeOK
<1>13. NewestKept'
  BY <1>8, <1>9 DEF NewestKept, Increasing
<1>14. Delivered' = Delivered
  BY <1>1 DEF Delivered
<1>15. Accounted'
  <2>1. 1..made' = 1..made \cup {made + 1}
    BY <1>1, BufferTyped
  <2>2. 1..made = Range(buffer) \cup Delivered \cup evicted \cup outdated \cup cleared
    BY BatchesOf DEF Accounted
  <2>3. evicted' = evicted \cup IF full THEN {Head(buffer)} ELSE {}
    BY <1>1
  <2>4. 1..made' = Range(buffer') \cup Delivered' \cup evicted' \cup outdated' \cup cleared'
    BY <1>1, <1>4, <1>6, <1>14, <2>1, <2>2, <2>3
  <2> QED
    BY <1>1, <1>11, <2>4, BatchesOf DEF Accounted
<1>16. BatchesTyped'
  <2>1. Range(buffer') \cap outdated' = {}
    <3>1. made + 1 \notin outdated
      BY BufferTyped
    <3>2. Range(old) \subseteq Range(buffer)
      BY <1>4
    <3> QED
      BY <1>1, <1>6, <3>1, <3>2, BatchesOf DEF BatchesTyped
  <2>2. 1..made \subseteq 1..made'
    BY <1>1, BufferTyped
  <2>3. \A u \in Threads :
          /\ Increasing(batch'[u]) /\ Range(batch'[u]) \subseteq 1..made'
          /\ pc'[u] = "exporting" => batch'[u] # <<>>
          /\ pc'[u] = "marking" => rest'[u] # <<>> /\ Range(rest'[u]) \subseteq Delivered'
    BY <1>1, <1>2, <1>14, <2>2, BatchesOf DEF BatchesTyped
  <2>4. marked' \subseteq Delivered'
    BY <1>1, <1>14, BatchesOf DEF BatchesTyped
  <2> QED
    BY <1>3, <2>1, <2>3, <2>4 DEF BatchesTyped, Recording
<1> QED
  BY <1>12, <1>13, <1>15, <1>16 DEF BufferStrong

\* The deque keeps some of its entries; those that go are accounted for.
LEMMA ShorterKeeps ==
  ASSUME BufferStrong, buffer' \in Seq(Entries), Len(buffer') <= Len(buffer),
         Increasing(buffer'), Range(buffer') \subseteq Range(buffer),
         NEW gone \in SUBSET Range(buffer), outdated' = outdated \cup gone,
         totalExpired' = totalExpired + Cardinality(gone),
         gone \cap Range(buffer') = {},
         cleared \subseteq cleared', cleared' \subseteq cleared \cup Range(buffer),
         Range(buffer) \subseteq Range(buffer') \cup gone \cup cleared' \cup Delivered,
         pc' \in [Threads -> Location], clock' \in [Threads -> 0..MaxTime],
         \A u \in Threads : pc'[u] = pc[u] \/ pc'[u] = "idle",
         UNCHANGED <<stamp, marked, totalDropped, totalFlushed, now, batch, rest, read, made,
                     evicted, accepted, shared, torn>>
  PROVE  BufferStrong'
<1>1. /\ Range(buffer) \subseteq 1..made /\ 1..made \subseteq Entries
      /\ Delivered' = Delivered /\ made' = made
  BY BufferTyped, EntriesTyped DEF Delivered, Entries
<1>2. /\ gone \cap outdated = {} /\ IsFiniteSet(gone) /\ IsFiniteSet(outdated)
      /\ totalExpired = Cardinality(outdated)
  <2>1. gone \in SUBSET Entries /\ outdated \in SUBSET Entries
    BY <1>1, BatchesOf DEF TypeOK
  <2> QED
    BY <2>1, BatchesOf, EntriesTyped, FS_Subset DEF BatchesTyped, Accounted
<1>3. totalExpired' = Cardinality(outdated') /\ totalExpired' \in Nat
  <2>1. Cardinality(outdated') = Cardinality(outdated) + Cardinality(gone) - Cardinality({})
    <3>1. outdated \cap gone = {}
      BY <1>2
    <3>2. Cardinality(outdated \cup gone) =
            Cardinality(outdated) + Cardinality(gone) - Cardinality(outdated \cap gone)
      BY <1>2, FS_Union
    <3> QED
      BY <3>1, <3>2
  <2>2. Cardinality({}) = 0 /\ Cardinality(outdated) \in Nat /\ Cardinality(gone) \in Nat
    BY <1>2, FS_EmptySet, FS_CardinalityType
  <2> QED
    BY <1>2, <2>1, <2>2
<1>4. TypeOK'
  <2>1. Len(buffer') <= MaxSize
    BY BatchesOf, BufferTyped, EntriesTyped DEF TypeOK
  <2>2. outdated' \subseteq Entries /\ cleared' \subseteq Entries
    BY <1>1, BatchesOf DEF TypeOK
  <2> QED
    BY <1>3, <2>1, <2>2, BatchesOf DEF TypeOK
<1>5. NewestKept'
  <2>1. \A e \in evicted : \A x \in Range(buffer) : e < x
    BY BatchesOf DEF NewestKept, Range
  <2>2. \A i \in DOMAIN buffer' : buffer'[i] \in Range(buffer)
    <3>1. \A i \in DOMAIN buffer' : buffer'[i] \in Range(buffer')
      BY DEF Range
    <3> QED
      BY <3>1
  <2> QED
    BY <2>1, <2>2 DEF NewestKept, Increasing
<1>6. Accounted'
  <2>1. 1..made = Range(buffer) \cup Delivered \cup evicted \cup outdated \cup cleared
    BY BatchesOf DEF Accounted
  <2>2. 1..made' = Range(buffer') \cup Delivered' \cup evicted' \cup outdated' \cup cleared'
    BY <1>1, <2>1
  <2> QED
    BY <1>3, <2>2, BatchesOf DEF Accounted
<1>7. BatchesTyped'
  <2>1. Cardinality(Recording') <= Cardinality(Recording)
        /\ Cardinality(Recording) \in Nat /\ Cardinality(Recording') \in Nat
    <3>1. Recording' \subseteq Recording /\ Recording \subseteq Threads
      BY DEF Recording
    <3>2. IsFiniteSet(Recording) /\ IsFiniteSet(Recording')
      BY <3>1, EntriesTyped, FS_Subset
    <3> QED
      BY <3>1, <3>2, FS_Subset, FS_CardinalityType
  <2>2. made' + Cardinality(Recording') <= MaxRecords
    <3>1. made + Cardinality(Recording) <= MaxRecords
      BY BatchesOf DEF BatchesTyped, Recording
    <3> QED
      BY <1>1, <2>1, <3>1, BufferTyped, EntriesTyped
  <2>3. Range(buffer') \cap outdated' = {}
    BY BatchesOf DEF BatchesTyped
  <2>4. \A u \in Threads :
          /\ Increasing(batch'[u]) /\ Range(batch'[u]) \subseteq 1..made'
          /\ pc'[u] = "exporting" => batch'[u] # <<>>
          /\ pc'[u] = "marking" => rest'[u] # <<>> /\ Range(rest'[u]) \subseteq Delivered'
    BY <1>1, BatchesOf DEF BatchesTyped
  <2>5. marked' \subseteq Delivered'
    BY <1>1, BatchesOf DEF BatchesTyped
  <2> QED
    BY <2>2, <2>3, <2>4, <2>5 DEF BatchesTyped, Recording
<1> QED
  BY <1>4, <1>5, <1>6, <1>7 DEF BufferStrong

LEMMA ExpireKeeps ==
  ASSUME BufferStrong, NEW t \in Threads, Expire(t)
  PROVE  BufferStrong'
<1> DEFINE fresh == {e \in Entries : stamp[e] >= clock[t] - MaxAge}
           gone == Range(buffer) \ fresh
<1>1. /\ pc' = [pc EXCEPT ![t] = "idle"] /\ clock' = [clock EXCEPT ![t] = 0]
      /\ buffer' = Keeping(buffer, fresh)
      /\ totalExpired' = totalExpired + Cardinality(gone)
      /\ outdated' = outdated \cup gone
      /\ UNCHANGED <<stamp, marked, totalDropped, totalFlushed, now, batch, rest, read, made,
                     evicted, cleared, accepted, shared, torn>>
  BY DEF Expire, Move, ForgetClock
<1> HIDE DEF fresh
<1>2. /\ buffer' \in Seq(Entries) /\ Len(buffer') <= Len(buffer)
      /\ Range(buffer') = Range(buffer) \cap fresh /\ Increasing(buffer')
  BY <1>1, BufferTyped, EntriesTyped, KeepingFacts
<1>3. /\ clock' \in [Threads -> 0..MaxTime] /\ pc' \in [Threads -> Location]
      /\ \A u \in Threads : pc'[u] = pc[u] \/ pc'[u] = "idle"
  <2>1. 0 \in 0..MaxTime /\ "idle" \in Location
    BY EntriesTyped DEF Location
  <2> QED
    BY <1>1, <2>1, BatchesOf DEF TypeOK
<1> QED
  BY <1>1, <1>2, <1>3, ShorterKeeps

LEMMA ClearKeeps ==
  ASSUME BufferStrong, NEW t \in Threads, Clear(t)
  PROVE  BufferStrong'
<1>1. /\ buffer' = <<>> /\ cleared' = cleared \cup Range(buffer)
      /\ UNCHANGED <<stamp, marked, totalDropped, totalExpired, totalFlushed, now, pc, clock,
                     batch, rest, read, made, evicted, outdated, accepted, shared, torn>>
  BY DEF Clear, totals, thread
<1>2. /\ buffer' \in Seq(Entries) /\ Len(buffer') <= Len(buffer)
      /\ Range(buffer') = {} /\ Increasing(buffer')
  BY <1>1, BufferTyped DEF Range, Increasing
<1>3. totalExpired' = totalExpired + Cardinality({})
  <2>1. totalExpired \in Nat
    BY BatchesOf DEF TypeOK
  <2> QED
    BY <1>1, <2>1, FS_EmptySet
<1>4. /\ clock' \in [Threads -> 0..MaxTime] /\ pc' \in [Threads -> Location]
      /\ \A u \in Threads : pc'[u] = pc[u]
  BY <1>1, BatchesOf DEF TypeOK
<1>5. {} \in SUBSET Range(buffer) /\ outdated' = outdated \cup {}
  BY <1>1
<1> QED
  BY <1>1, <1>2, <1>3, <1>4, <1>5, ShorterKeeps

LEMMA PurgeKeeps ==
  ASSUME BufferStrong, NEW t \in Threads, Purge(t)
  PROVE  BufferStrong'
<1>1. /\ buffer' = Keeping(buffer, Entries \ marked) /\ pc' = [pc EXCEPT ![t] = "idle"]
      /\ UNCHANGED <<stamp, marked, totalDropped, totalExpired, totalFlushed, now, clock,
                     batch, rest, read, made, evicted, outdated, cleared, accepted, shared, torn>>
  BY DEF Purge, Move, totals, history, Unmarked
<1>2. /\ buffer' \in Seq(Entries) /\ Len(buffer') <= Len(buffer)
      /\ Range(buffer') = Range(buffer) \cap (Entries \ marked) /\ Increasing(buffer')
  BY <1>1, BufferTyped, EntriesTyped, KeepingFacts
<1>3. totalExpired' = totalExpired + Cardinality({})
  <2>1. totalExpired \in Nat
    BY BatchesOf DEF TypeOK
  <2> QED
    BY <1>1, <2>1, FS_EmptySet
<1>4. /\ clock' \in [Threads -> 0..MaxTime] /\ pc' \in [Threads -> Location]
      /\ \A u \in Threads : pc'[u] = pc[u] \/ pc'[u] = "idle"
  BY <1>1, BatchesOf DEF TypeOK, Location
<1>5. {} \in SUBSET Range(buffer) /\ outdated' = outdated \cup {}
  BY <1>1
<1>6. Range(buffer) \subseteq Range(buffer') \cup {} \cup cleared' \cup Delivered
  <2>1. Range(buffer) \subseteq Entries /\ marked \subseteq Delivered
    BY BatchesOf, BufferTyped, EntriesTyped DEF BatchesTyped, Entries
  <2> QED
    BY <1>2, <2>1
<1> QED
  BY <1>1, <1>2, <1>3, <1>4, <1>5, <1>6, ShorterKeeps

\* flush_sync() chooses the first of what is not marked.
LEMMA ChosenBatch ==
  ASSUME BufferStrong, NEW t \in Threads, Choose(t)
  PROVE  /\ batch' \in [Threads -> Seq(Entries)]
         /\ \A u \in Threads \ {t} : batch'[u] = batch[u]
         /\ Increasing(batch'[t]) /\ batch'[t] # <<>>
         /\ Range(batch'[t]) \subseteq Range(buffer) \ marked
<1> DEFINE s == Unmarked(buffer)
           n == IF Len(s) < BatchSize THEN Len(s) ELSE BatchSize
<1>1. batch' = [batch EXCEPT ![t] = SubSeq(s, 1, n)] /\ batch'[t] # <<>>
  BY DEF Choose
<1>2. /\ s \in Seq(Entries) /\ Increasing(s) /\ Range(s) = Range(buffer) \cap (Entries \ marked)
  BY BufferTyped, EntriesTyped, KeepingFacts DEF Unmarked
<1>3. Len(s) \in Nat /\ DOMAIN s = 1..Len(s) /\ n \in Nat /\ n <= Len(s)
  BY <1>2, EntriesTyped
<1> DEFINE b == SubSeq(s, 1, n)
<1> HIDE DEF s, n
<1>4. /\ b \in Seq(Entries) /\ Len(b) = n /\ DOMAIN b = 1..n
      /\ \A i \in 1..n : b[i] = s[i]
  BY <1>2, <1>3
<1> HIDE DEF b
<1>5. Increasing(b)
  BY <1>2, <1>3, <1>4 DEF Increasing
<1>6. Range(b) \subseteq Range(s)
  BY <1>3, <1>4 DEF Range
<1>7. batch' \in [Threads -> Seq(Entries)] /\ batch'[t] = b
      /\ \A u \in Threads \ {t} : batch'[u] = batch[u]
  BY <1>1, <1>4, BatchesOf DEF b
<1> QED
  BY <1>1, <1>2, <1>5, <1>6, <1>7

LEMMA ChooseKeeps ==
  ASSUME BufferStrong, NEW t \in Threads, Choose(t)
  PROVE  BufferStrong'
<1>1. /\ pc' = [pc EXCEPT ![t] = "exporting"] /\ "exporting" \in Location
      /\ UNCHANGED <<buffer, stamp, marked, totalDropped, totalExpired, totalFlushed, now,
                     clock, rest, read, made, evicted, outdated, cleared, accepted, torn>>
  BY DEF Choose, Move, totals, Location
<1>2. \A u \in Threads : Increasing(batch'[u]) /\ Range(batch'[u]) \subseteq 1..made
  BY ChosenBatch, BatchesOf, BufferTyped
<1>3. shared' \in SUBSET Entries /\ torn' \in SUBSET Threads
  <2>1. shared \cup Range(batch'[t]) \in SUBSET Entries
    BY ChosenBatch, BatchesOf, BufferTyped, EntriesTyped DEF Entries
  <2>2. shared' \subseteq shared \cup Range(batch'[t])
    BY DEF Choose
  <2> QED
    BY <1>1, <2>1, <2>2, BatchesOf
<1> QED
  BY <1>1, <1>2, <1>3, ChosenBatch, BatchesOf, ContentsUntouched

LEMMA EmptyBatch ==
  ASSUME BufferStrong, NEW t \in Threads, batch' = [batch EXCEPT ![t] = <<>>]
  PROVE  /\ batch' \in [Threads -> Seq(Entries)] /\ batch'[t] = <<>>
         /\ \A u \in Threads \ {t} : batch'[u] = batch[u]
         /\ \A u \in Threads : Increasing(batch'[u]) /\ Range(batch'[u]) \subseteq 1..made
<1>1. /\ batch' \in [Threads -> Seq(Entries)] /\ batch'[t] = <<>>
      /\ \A u \in Threads \ {t} : batch'[u] = batch[u]
  BY BatchesOf
<1>2. Increasing(<<>>) /\ Range(<<>>) = {}
  BY DEF Increasing, Range
<1> QED
  BY <1>1, <1>2, BatchesOf

LEMMA RefuseKeeps ==
  ASSUME BufferStrong, NEW t \in Threads, Refuse(t)
  PROVE  BufferStrong'
<1>1. /\ pc' = [pc EXCEPT ![t] = "idle"] /\ "idle" \in Location
      /\ batch' = [batch EXCEPT ![t] = <<>>]
      /\ UNCHANGED <<buffer, stamp, marked, totalDropped, totalExpired, totalFlushed, now,
                     clock, rest, read, made, evicted, outdated, cleared, accepted, shared, torn>>
  BY DEF Refuse, Move, totals, history, Location
<1> QED
  BY <1>1, EmptyBatch, BatchesOf, ContentsUntouched

LEMMA ReadTotalKeeps ==
  ASSUME BufferStrong, NEW t \in Threads, ReadTotal(t)
  PROVE  BufferStrong'
<1>1. /\ pc' = [pc EXCEPT ![t] = "storing"] /\ "storing" \in Location
      /\ read' = [read EXCEPT ![t] = totalFlushed]
      /\ UNCHANGED <<buffer, stamp, marked, totalDropped, totalExpired, totalFlushed, now,
                     clock, batch, rest, made, evicted, outdated, cleared, accepted, shared>>
  BY DEF ReadTotal, Move, totals, Location
<1>2. read' \in [Threads -> Nat] /\ torn' \in SUBSET Threads
  <2>1. torn' = torn \cup {u \in Threads \ {t} : pc[u] = "storing"}
    BY DEF ReadTotal
  <2> QED
    BY <1>1, <2>1, BatchesOf
<1> QED
  BY <1>1, <1>2, BatchesOf, ContentsUntouched

LEMMA StoreTotalKeeps ==
  ASSUME BufferStrong, NEW t \in Threads, StoreTotal(t)
  PROVE  BufferStrong'
<1>1. /\ pc' = [pc EXCEPT ![t] = "purging"] /\ "purging" \in Location
      /\ totalFlushed' = read[t] + Len(batch[t])
      /\ read' = [read EXCEPT ![t] = 0] /\ batch' = [batch EXCEPT ![t] = <<>>]
      /\ UNCHANGED <<buffer, stamp, marked, totalDropped, totalExpired, now,
                     clock, rest, made, evicted, outdated, cleared, accepted, shared, torn>>
  BY DEF StoreTotal, Move, history, Location
<1>2. read' \in [Threads -> Nat] /\ totalFlushed' \in Nat
  <2>1. read[t] \in Nat /\ batch[t] \in Seq(Entries)
    BY BatchesOf
  <2> QED
    BY <1>1, <2>1, BatchesOf
<1> QED
  BY <1>1, <1>2, EmptyBatch, BatchesOf, ContentsUntouched

LEMMA TickKeeps ==
  ASSUME BufferStrong, Tick \/ UNCHANGED vars
  PROVE  BufferStrong'
<1>1. /\ UNCHANGED <<buffer, stamp, marked, totalDropped, totalExpired, totalFlushed, pc, clock,
                     batch, rest, read, made, evicted, outdated, cleared, accepted, shared, torn>>
      /\ now' \in 0..MaxTime
  BY BatchesOf, EntriesTyped DEF Tick, vars, totals, thread, history
<1>2. TypeOK'
  BY <1>1, BatchesOf DEF TypeOK
<1>3. NewestKept' /\ Accounted' /\ Delivered' = Delivered
  BY <1>1, BatchesOf DEF NewestKept, Accounted, Delivered
<1>4. BatchesTyped'
  BY <1>1, <1>3, BatchesOf DEF BatchesTyped
<1> QED
  BY <1>2, <1>3, <1>4 DEF BufferStrong

\* A batch that export_fn accepts is delivered.
LEMMA AcceptDelivers ==
  ASSUME BufferStrong, NEW t \in Threads, Accept(t)
  PROVE  /\ accepted' \in [Entries -> Nat]
         /\ \A e \in Entries : accepted[e] \in Nat
              /\ accepted'[e] = accepted[e] + IF e \in Range(batch[t]) THEN 1 ELSE 0
         /\ Delivered' = Delivered \cup Range(batch[t])
         /\ Range(batch[t]) \subseteq Entries /\ Range(batch[t]) \subseteq 1..made
<1>1. accepted' = [e \in Entries |-> accepted[e] + IF e \in Range(batch[t]) THEN 1 ELSE 0]
  BY DEF Accept
<1>2. accepted \in [Entries -> Nat]
  BY BatchesOf DEF TypeOK
<1>3. Range(batch[t]) \subseteq 1..made /\ Range(batch[t]) \subseteq Entries
  <2>1. Range(batch[t]) \subseteq 1..made /\ made \in Nat /\ MaxRecords \in Nat /\ made <= MaxRecords
    BY BatchesOf, BufferTyped, EntriesTyped
  <2> QED
    BY <2>1 DEF Entries
<1>4. \A e \in Entries : /\ accepted[e] \in Nat /\ accepted'[e] \in Nat
        /\ accepted'[e] = accepted[e] + IF e \in Range(batch[t]) THEN 1 ELSE 0
  BY <1>1, <1>2
<1>5. accepted' \in [Entries -> Nat]
  BY <1>1, <1>4
<1>6. Delivered' = Delivered \cup Range(batch[t])
  BY <1>3, <1>4 DEF Delivered
<1> QED
  BY <1>3, <1>4, <1>5, <1>6

LEMMA AcceptKeeps ==
  ASSUME BufferStrong, NEW t \in Threads, Accept(t)
  PROVE  BufferStrong'
<1>1. /\ pc[t] = "exporting" /\ pc' = [pc EXCEPT ![t] = "marking"]
      /\ rest' = [rest EXCEPT ![t] = batch[t]]
      /\ UNCHANGED <<buffer, stamp, marked, totalDropped, totalExpired, totalFlushed, now,
                     clock, batch, read, made, evicted, outdated, cleared, shared, torn>>
  BY DEF Accept, Move, totals
<1>2. TypeOK'
  <2>1. pc' \in [Threads -> Location] /\ rest' \in [Threads -> Seq(Entries)]
    BY <1>1, BatchesOf DEF TypeOK, Location
  <2> QED
    BY <1>1, <2>1, AcceptDelivers, BatchesOf DEF TypeOK
<1>3. NewestKept'
  BY <1>1, BatchesOf DEF NewestKept
<1>4. Accounted'
  <2>1. 1..made = Range(buffer) \cup Delivered \cup evicted \cup outdated \cup cleared
    BY BatchesOf DEF Accounted
  <2>2. 1..made' = Range(buffer') \cup Delivered' \cup evicted' \cup outdated' \cup cleared'
    BY <1>1, <2>1, AcceptDelivers
  <2> QED
    BY <1>1, <2>2, BatchesOf DEF Accounted
<1>5. /\ pc'[t] = "marking" /\ rest'[t] = batch[t]
      /\ \A u \in Threads \ {t} : pc'[u] = pc[u] /\ rest'[u] = rest[u]
  BY <1>1, BatchesOf DEF TypeOK
<1>6. made' + Cardinality(Recording') <= MaxRecords
  <2>1. Cardinality(Recording') <= Cardinality(Recording)
        /\ Cardinality(Recording) \in Nat /\ Cardinality(Recording') \in Nat
    BY <1>1, <1>5, BatchesOf, RecordingChanges
  <2>2. made + Cardinality(Recording) <= MaxRecords
    BY BatchesOf DEF BatchesTyped, Recording
  <2> QED
    BY <1>1, <2>1, <2>2, BufferTyped, EntriesTyped
<1>7. \A u \in Threads :
        /\ Increasing(batch'[u]) /\ Range(batch'[u]) \subseteq 1..made'
        /\ pc'[u] = "exporting" => batch'[u] # <<>>
        /\ pc'[u] = "marking" => rest'[u] # <<>> /\ Range(rest'[u]) \subseteq Delivered'
  <2> SUFFICES ASSUME NEW u \in Threads
               PROVE  /\ Increasing(batch'[u]) /\ Range(batch'[u]) \subseteq 1..made'
                      /\ pc'[u] = "exporting" => batch'[u] # <<>>
                      /\ pc'[u] = "marking" =>
                           rest'[u] # <<>> /\ Range(rest'[u]) \subseteq Delivered'
    OBVIOUS
  <2>1. Increasing(batch'[u]) /\ Range(batch'[u]) \subseteq 1..made'
    BY <1>1, BatchesOf
  <2>2. CASE u = t
    <3>1. batch[t] # <<>>
      BY <1>1, BatchesOf DEF BatchesTyped
    <3> QED
      BY <1>5, <2>1, <2>2, <3>1, AcceptDelivers
  <2>3. CASE u # t
    BY <1>1, <1>5, <2>1, <2>3, AcceptDelivers, BatchesOf DEF BatchesTyped
  <2> QED
    BY <2>2, <2>3
<1>8. BatchesTyped'
  <2>1. Range(buffer') \cap outdated' = {} /\ marked' \subseteq Delivered'
    BY <1>1, AcceptDelivers, BatchesOf DEF BatchesTyped
  <2> QED
    BY <1>6, <1>7, <2>1 DEF BatchesTyped, Recording
<1> QED
  BY <1>2, <1>3, <1>4, <1>8 DEF BufferStrong

\* One entry after the other gets its mark.
LEMMA MarkOne ==
  ASSUME BufferStrong, NEW t \in Threads, Mark(t)
  PROVE  /\ rest' \in [Threads -> Seq(Entries)]
         /\ \A u \in Threads \ {t} : rest'[u] = rest[u]
         /\ Range(rest[t]) = Range(rest'[t]) \cup {Head(rest[t])}
         /\ Head(rest[t]) \in Entries /\ Range(rest[t]) \subseteq Delivered
<1>1. pc[t] = "marking" /\ rest' = [rest EXCEPT ![t] = Tail(rest[t])]
  BY DEF Mark
<1> DEFINE r == rest[t]
<1>2. r \in Seq(Entries) /\ r # <<>> /\ Range(r) \subseteq Delivered
  BY <1>1, BatchesOf DEF BatchesTyped
<1>3. rest' \in [Threads -> Seq(Entries)] /\ rest'[t] = Tail(r)
      /\ \A u \in Threads \ {t} : rest'[u] = rest[u]
  BY <1>1, <1>2, BatchesOf
<1> HIDE DEF r
<1>4. /\ Len(r) \in Nat /\ Len(r) # 0 /\ DOMAIN r = 1..Len(r) /\ Head(r) = r[1]
      /\ Head(r) \in Entries
      /\ DOMAIN Tail(r) = 1..Len(r) - 1
      /\ \A i \in 1..Len(r) - 1 : Tail(r)[i] = r[i + 1]
  BY <1>2
<1>5. Range(r) = Range(Tail(r)) \cup {Head(r)}
  <2>1. PICK s, h : s = Tail(r) /\ h = Head(r)
    OBVIOUS
  <2>2. /\ Range(s) = {s[i] : i \in 1..Len(r) - 1}
        /\ Range(r) = {r[i] : i \in 1..Len(r)}
    BY <1>4, <2>1, Zenon DEF Range
  <2>3. \A i \in 1..Len(r) : i = 1 \/ (i - 1 \in 1..Len(r) - 1 /\ r[i] = s[i - 1])
    BY <1>4, <2>1
  <2>4. \A i \in 1..Len(r) - 1 : i + 1 \in 1..Len(r) /\ s[i] = r[i + 1]
    BY <1>4, <2>1
  <2>5. 1 \in 1..Len(r) /\ h = r[1]
    BY <1>4, <2>1
  <2>6. Range(r) \subseteq Range(s) \cup {h}
    BY <2>2, <2>3, <2>5
  <2>7. Range(s) \subseteq Range(r) /\ h \in Range(r)
    BY <2>2, <2>4, <2>5
  <2> QED
    BY <2>1, <2>6, <2>7
<1> QED
  BY <1>2, <1>3, <1>4, <1>5 DEF r

LEMMA MarkKeeps ==
  ASSUME BufferStrong, NEW t \in Threads, Mark(t)
  PROVE  BufferStrong'
<1> DEFINE to == IF rest'[t] = <<>> THEN "adding" ELSE "marking"
<1>1. /\ marked' = marked \cup {Head(rest[t])}
      /\ pc' = [pc EXCEPT ![t] = to]
      /\ UNCHANGED <<buffer, stamp, totalDropped, totalExpired, totalFlushed, now,
                     clock, batch, read, made, evicted, outdated, cleared, accepted, shared, torn>>
  BY DEF Mark, totals, history
<1>2. TypeOK'
  <2>1. pc' \in [Threads -> Location]
    BY <1>1, BatchesOf DEF TypeOK, Location
  <2>2. marked' \subseteq Entries
    BY <1>1, MarkOne, BatchesOf DEF TypeOK
  <2> QED
    BY <1>1, <2>1, <2>2, MarkOne, BatchesOf DEF TypeOK
<1>3. NewestKept' /\ Accounted' /\ Delivered' = Delivered
  BY <1>1, BatchesOf DEF NewestKept, Accounted, Delivered
<1>4. pc'[t] = to /\ \A u \in Threads \ {t} : pc'[u] = pc[u]
  BY <1>1, BatchesOf DEF TypeOK
<1>5. made' + Cardinality(Recording') <= MaxRecords
  <2>1. Cardinality(Recording') <= Cardinality(Recording)
        /\ Cardinality(Recording) \in Nat /\ Cardinality(Recording') \in Nat
    <3>1. pc'[t] # "recording"
      BY <1>4
    <3> QED
      BY <1>1, <3>1, BatchesOf, RecordingChanges
  <2>2. made + Cardinality(Recording) <= MaxRecords
    BY BatchesOf DEF BatchesTyped, Recording
  <2> QED
    BY <1>1, <2>1, <2>2, BufferTyped, EntriesTyped
<1>6. \A u \in Threads :
        /\ Increasing(batch'[u]) /\ Range(batch'[u]) \subseteq 1..made'
        /\ pc'[u] = "exporting" => batch'[u] # <<>>
        /\ pc'[u] = "marking" => rest'[u] # <<>> /\ Range(rest'[u]) \subseteq Delivered'
  <2> SUFFICES ASSUME NEW u \in Threads
               PROVE  /\ Increasing(batch'[u]) /\ Range(batch'[u]) \subseteq 1..made'
                      /\ pc'[u] = "exporting" => batch'[u] # <<>>
                      /\ pc'[u] = "marking" =>
                           rest'[u] # <<>> /\ Range(rest'[u]) \subseteq Delivered'
    OBVIOUS
  <2>1. Increasing(batch'[u]) /\ Range(batch'[u]) \subseteq 1..made'
    BY <1>1, BatchesOf
  <2>2. CASE u = t
    BY <1>3, <1>4, <2>1, <2>2, MarkOne
  <2>3. CASE u # t
    BY <1>1, <1>3, <1>4, <2>1, <2>3, MarkOne, BatchesOf DEF BatchesTyped
  <2> QED
    BY <2>2, <2>3
<1>7. BatchesTyped'
  <2>1. Range(buffer') \cap outdated' = {}
    BY <1>1, BatchesOf DEF BatchesTyped
  <2>2. marked' \subseteq Delivered'
    BY <1>1, <1>3, MarkOne, BatchesOf DEF BatchesTyped
  <2> QED
    BY <1>5, <1>6, <2>1, <2>2 DEF BatchesTyped, Recording
<1> QED
  BY <1>2, <1>3, <1>7 DEF BufferStrong

LEMMA BufferStep == BufferStrong /\ [Next]_vars => BufferStrong'
<1> SUFFICES ASSUME BufferStrong, [Next]_vars PROVE BufferStrong'
  OBVIOUS
<1>1. CASE \E t \in Threads : ReadClock(t) \/ Store(t) \/ Expire(t) \/ Clear(t) \/ Choose(t)
  BY <1>1, ReadClockKeeps, StoreKeeps, ExpireKeeps, ClearKeeps, ChooseKeeps
<1>2. CASE \E t \in Threads : Refuse(t) \/ Accept(t) \/ Mark(t)
  BY <1>2, RefuseKeeps, AcceptKeeps, MarkKeeps
<1>3. CASE \E t \in Threads : ReadTotal(t) \/ StoreTotal(t) \/ Purge(t)
  BY <1>3, ReadTotalKeeps, StoreTotalKeeps, PurgeKeeps
<1>4. CASE Tick \/ UNCHANGED vars
  BY <1>4, TickKeeps
<1> QED
  BY <1>1, <1>2, <1>3, <1>4 DEF Next

LEMMA BufferInitial == Init => BufferStrong
<1> SUFFICES ASSUME Init PROVE BufferStrong
  OBVIOUS
<1>1. /\ buffer = <<>> /\ stamp = [e \in Entries |-> 0] /\ marked = {}
      /\ totalDropped = 0 /\ totalExpired = 0 /\ totalFlushed = 0 /\ now = 0
      /\ pc = [t \in Threads |-> "idle"] /\ clock = [t \in Threads |-> 0]
      /\ batch = [t \in Threads |-> <<>>] /\ rest = [t \in Threads |-> <<>>]
      /\ read = [t \in Threads |-> 0]
      /\ made = 0 /\ evicted = {} /\ outdated = {} /\ cleared = {}
      /\ accepted = [e \in Entries |-> 0] /\ shared = {} /\ torn = {}
  BY DEF Init
<1>2. TypeOK
  <2>1. /\ <<>> \in Seq(Entries) /\ Len(<<>>) = 0 /\ "idle" \in Location
        /\ 0 \in 0..MaxTime /\ 0 \in 0..MaxRecords
    BY EntriesTyped DEF Location
  <2> QED
    BY <1>1, <2>1, EntriesTyped DEF TypeOK
<1>3. Delivered = {} /\ Range(<<>>) = {} /\ Increasing(<<>>)
  BY <1>1 DEF Delivered, Range, Increasing
<1>4. NewestKept
  BY <1>1 DEF NewestKept
<1>5. Accounted
  <2>1. 1..0 = {}
    OBVIOUS
  <2> QED
    BY <1>1, <1>3, <2>1, FS_EmptySet DEF Accounted
<1>6. BatchesTyped
  <2>1. Recording = {}
    BY <1>1 DEF Recording
  <2>2. made + Cardinality(Recording) <= MaxRecords
    BY <1>1, <2>1, FS_EmptySet, EntriesTyped
  <2> QED
    BY <1>1, <1>3, <2>2 DEF BatchesTyped, Recording
<1> QED
  BY <1>2, <1>4, <1>5, <1>6 DEF BufferStrong

\* Whatever flushes, records, expires and clears at the same time, by however many
\* threads: an entry leaves the buffer only by a delivery, by eviction, by age or by
\* clear(), the dropped and the expired are counted, and the newest are kept
\* (offline_buffer.py:166-188, 208-224, 256-272).
THEOREM EntriesAreAccounted == TelemetrySpec => [](Accounted /\ NewestKept)
<1>1. TelemetryInit => BufferStrong
  BY BufferInitial DEF TelemetryInit
<1>2. BufferStrong /\ [TelemetryNext]_<<part, keeping, learning>> => BufferStrong'
  BY StepOfPart, BufferStep
<1>3. BufferStrong => Accounted /\ NewestKept
  BY DEF BufferStrong
<1> QED
  BY <1>1, <1>2, <1>3, PTL DEF TelemetrySpec

-----------------------------------------------------------------------------
\* A step that delivers nothing, and neither begins nor goes on with a flush.
LEMMA DeliveryUntouched ==
  ASSUME DeliveryStrong, UNCHANGED <<marked, accepted, shared>>,
         \A u \in Threads : \/ pc'[u] = pc[u] /\ batch'[u] = batch[u] /\ rest'[u] = rest[u]
                            \/ pc[u] # "marking" /\ ~Holding(u)'
  PROVE  DeliveryStrong'
<1>1. Delivered' = Delivered /\ ExportedOnce'
  BY DEF Delivered, ExportedOnce, DeliveryStrong
<1>2. \A u \in Threads :
        /\ Holding(u)' => Holding(u) /\ pc'[u] = pc[u] /\ batch'[u] = batch[u] /\ rest'[u] = rest[u]
        /\ pc[u] = "marking" => pc'[u] = "marking" /\ rest'[u] = rest[u]
        /\ pc'[u] \in {"exporting", "marking"} => Holding(u)'
  BY DEF Holding
<1> QED
  BY <1>1, <1>2 DEF DeliveryStrong

LEMMA DeliveryInitial == Init => DeliveryStrong
<1> SUFFICES ASSUME Init PROVE DeliveryStrong
  OBVIOUS
<1>1. pc = [t \in Threads |-> "idle"] /\ accepted = [e \in Entries |-> 0]
  BY DEF Init
<1>2. Delivered = {} /\ ExportedOnce
  BY <1>1 DEF Delivered, ExportedOnce
<1>3. \A t \in Threads : pc[t] = "idle" /\ ~Holding(t)
  BY <1>1 DEF Holding
<1> QED
  BY <1>2, <1>3 DEF DeliveryStrong

\* What is chosen has no mark: if it was accepted, another flush is about to mark it.
LEMMA ChooseIsNew ==
  ASSUME BufferStrong, DeliveryStrong, NEW t \in Threads, Choose(t)
  PROVE  DeliveryStrong'
<1>1. /\ pc[t] = "idle" /\ pc' = [pc EXCEPT ![t] = "exporting"]
      /\ shared' = shared \cup (Range(batch'[t]) \cap UNION {Range(batch[u]) : u \in Threads \ {t}})
      /\ UNCHANGED <<marked, rest, accepted>>
  BY DEF Choose, Move
<1>2. /\ pc'[t] = "exporting"
      /\ \A u \in Threads \ {t} : pc'[u] = pc[u] /\ batch'[u] = batch[u] /\ rest'[u] = rest[u]
  BY <1>1, ChosenBatch, BatchesOf DEF TypeOK
<1>3. Delivered' = Delivered /\ ExportedOnce' /\ shared \subseteq shared'
  BY <1>1 DEF Delivered, ExportedOnce, DeliveryStrong
<1>4. \A u \in Threads \ {t} : Range(batch'[t]) \cap Range(batch'[u]) \subseteq shared'
  BY <1>1, <1>2
<1>5. Range(batch'[t]) \cap Delivered \subseteq shared'
  <2> SUFFICES ASSUME NEW e \in Range(batch'[t]), e \in Delivered PROVE e \in shared'
    OBVIOUS
  <2>1. e \notin marked
    BY ChosenBatch
  <2>2. PICK u \in Threads : pc[u] = "marking" /\ e \in Range(rest[u])
    BY <2>1 DEF DeliveryStrong
  <2>3. e \in Range(batch[u]) /\ u # t
    BY <1>1, <2>2 DEF DeliveryStrong
  <2> QED
    BY <1>2, <1>4, <2>3
<1>6. \A e \in Delivered' :
        e \in marked' \/ \E u \in Threads : pc'[u] = "marking" /\ e \in Range(rest'[u])
  <2> SUFFICES ASSUME NEW e \in Delivered, e \notin marked
               PROVE  \E u \in Threads : pc'[u] = "marking" /\ e \in Range(rest'[u])
    BY <1>1, <1>3
  <2>1. PICK u \in Threads : pc[u] = "marking" /\ e \in Range(rest[u])
    BY DEF DeliveryStrong
  <2> QED
    BY <1>1, <1>2, <2>1
<1>7. \A u \in Threads : pc'[u] = "marking" => Range(rest'[u]) \subseteq Range(batch'[u])
  BY <1>2 DEF DeliveryStrong
<1>8. \A u \in Threads : pc'[u] = "exporting" =>
        Range(batch'[u]) \cap Delivered' \subseteq shared'
  BY <1>2, <1>3, <1>5 DEF DeliveryStrong
<1>9. \A u, v \in Threads : u # v /\ Holding(u)' /\ Holding(v)' =>
        Range(batch'[u]) \cap Range(batch'[v]) \subseteq shared'
  <2>1. \A u \in Threads \ {t} : Holding(u)' => Holding(u)
    BY <1>2 DEF Holding
  <2> QED
    BY <1>2, <1>3, <1>4, <2>1 DEF DeliveryStrong
<1> QED
  BY <1>3, <1>6, <1>7, <1>8, <1>9 DEF DeliveryStrong

LEMMA AcceptIsOnce ==
  ASSUME BufferStrong, DeliveryStrong, NEW t \in Threads, Accept(t)
  PROVE  DeliveryStrong'
<1>1. /\ pc[t] = "exporting" /\ pc' = [pc EXCEPT ![t] = "marking"]
      /\ rest' = [rest EXCEPT ![t] = batch[t]]
      /\ UNCHANGED <<marked, batch, shared>>
  BY DEF Accept, Move
<1>2. /\ pc'[t] = "marking" /\ rest'[t] = batch[t]
      /\ \A u \in Threads \ {t} : pc'[u] = pc[u] /\ rest'[u] = rest[u]
  BY <1>1, BatchesOf DEF TypeOK
<1>3. Holding(t) /\ \A u \in Threads : Holding(u)' = Holding(u)
  BY <1>1, <1>2 DEF Holding
<1>4. \A e \in Delivered' :
        e \in marked' \/ \E u \in Threads : pc'[u] = "marking" /\ e \in Range(rest'[u])
  <2> SUFFICES ASSUME NEW e \in Delivered', e \notin marked
               PROVE  \E u \in Threads : pc'[u] = "marking" /\ e \in Range(rest'[u])
    BY <1>1
  <2>1. CASE e \in Range(batch[t])
    BY <1>2, <2>1
  <2>2. CASE e \notin Range(batch[t])
    <3>1. e \in Delivered
      BY <2>2, AcceptDelivers
    <3>2. PICK u \in Threads : pc[u] = "marking" /\ e \in Range(rest[u])
      BY <3>1 DEF DeliveryStrong
    <3>3. u # t
      BY <1>1, <3>2
    <3> QED
      BY <1>2, <3>2, <3>3
  <2> QED
    BY <2>1, <2>2
<1>5. \A u \in Threads : pc'[u] = "marking" => Range(rest'[u]) \subseteq Range(batch'[u])
  BY <1>1, <1>2 DEF DeliveryStrong
<1>6. \A u \in Threads : pc'[u] = "exporting" =>
        Range(batch'[u]) \cap Delivered' \subseteq shared'
  <2> SUFFICES ASSUME NEW u \in Threads, pc'[u] = "exporting"
               PROVE  Range(batch[u]) \cap Delivered' \subseteq shared
    BY <1>1
  <2>1. u # t /\ pc[u] = "exporting" /\ Holding(u)
    BY <1>2 DEF Holding
  <2>2. Range(batch[u]) \cap Delivered \subseteq shared
    BY <2>1 DEF DeliveryStrong
  <2>3. Range(batch[u]) \cap Range(batch[t]) \subseteq shared
    BY <1>3, <2>1 DEF DeliveryStrong
  <2> QED
    BY <2>2, <2>3, AcceptDelivers
<1>7. \A u, v \in Threads : u # v /\ Holding(u)' /\ Holding(v)' =>
        Range(batch'[u]) \cap Range(batch'[v]) \subseteq shared'
  BY <1>1, <1>3 DEF DeliveryStrong
<1>8. ExportedOnce'
  <2> SUFFICES ASSUME NEW e \in Entries \ shared PROVE accepted'[e] <= 1
    BY <1>1 DEF ExportedOnce
  <2>1. accepted[e] <= 1 /\ (e \in Range(batch[t]) => accepted[e] = 0)
    <3>1. e \in Range(batch[t]) => e \notin Delivered
      BY <1>1 DEF DeliveryStrong
    <3> QED
      BY <3>1, AcceptDelivers DEF Delivered, ExportedOnce, DeliveryStrong
  <2> QED
    BY <2>1, AcceptDelivers
<1> QED
  BY <1>4, <1>5, <1>6, <1>7, <1>8 DEF DeliveryStrong

LEMMA MarkIsSafe ==
  ASSUME BufferStrong, DeliveryStrong, NEW t \in Threads, Mark(t)
  PROVE  DeliveryStrong'
<1> DEFINE to == IF rest'[t] = <<>> THEN "adding" ELSE "marking"
<1>1. /\ pc[t] = "marking" /\ pc' = [pc EXCEPT ![t] = to]
      /\ marked' = marked \cup {Head(rest[t])}
      /\ UNCHANGED <<batch, accepted, shared>>
  BY DEF Mark, history
<1>2. /\ pc'[t] = to
      /\ \A u \in Threads \ {t} : pc'[u] = pc[u] /\ rest'[u] = rest[u]
  BY <1>1, MarkOne, BatchesOf DEF TypeOK
<1>3. Delivered' = Delivered /\ ExportedOnce'
  BY <1>1 DEF Delivered, ExportedOnce, DeliveryStrong
<1>4. \A u \in Threads : Holding(u)' => Holding(u)
  BY <1>1, <1>2 DEF Holding
<1>5. \A e \in Delivered' :
        e \in marked' \/ \E u \in Threads : pc'[u] = "marking" /\ e \in Range(rest'[u])
  <2> SUFFICES ASSUME NEW e \in Delivered, e \notin marked'
               PROVE  \E u \in Threads : pc'[u] = "marking" /\ e \in Range(rest'[u])
    BY <1>3
  <2>1. PICK u \in Threads : pc[u] = "marking" /\ e \in Range(rest[u])
    BY <1>1 DEF DeliveryStrong
  <2>2. CASE u = t
    <3>1. e \in Range(rest'[t])
      BY <1>1, <2>1, <2>2, MarkOne
    <3>2. rest'[t] # <<>>
      BY <3>1 DEF Range
    <3> QED
      BY <1>2, <3>1, <3>2
  <2>3. CASE u # t
    BY <1>2, <2>1, <2>3
  <2> QED
    BY <2>2, <2>3
<1>6. \A u \in Threads : pc'[u] = "marking" => Range(rest'[u]) \subseteq Range(batch'[u])
  <2>1. Range(rest'[t]) \subseteq Range(rest[t]) /\ Range(rest[t]) \subseteq Range(batch[t])
    BY <1>1, MarkOne DEF DeliveryStrong
  <2> QED
    BY <1>1, <1>2, <2>1 DEF DeliveryStrong
<1>7. \A u \in Threads : pc'[u] = "exporting" => pc[u] = "exporting"
  BY <1>2
<1> QED
  BY <1>1, <1>3, <1>4, <1>5, <1>6, <1>7 DEF DeliveryStrong

\* The other steps end a flush, or are none of it.
LEMMA OthersDeliverNothing ==
  ASSUME BufferStrong, DeliveryStrong, NEW t \in Threads,
         \/ ReadClock(t) \/ Store(t) \/ Expire(t) \/ Clear(t)
         \/ Refuse(t) \/ ReadTotal(t) \/ StoreTotal(t) \/ Purge(t)
  PROVE  DeliveryStrong'
<1>1. /\ UNCHANGED <<marked, accepted, shared, rest>>
      /\ pc[t] # "marking" /\ \A u \in Threads \ {t} : batch'[u] = batch[u]
      /\ \/ pc' = pc /\ batch' = batch
         \/ \E to \in {"idle", "recording", "expiring", "storing", "purging"} :
              pc' = [pc EXCEPT ![t] = to]
  <2>1. CASE ReadClock(t) \/ Store(t) \/ Expire(t) \/ Clear(t)
    BY <2>1 DEF ReadClock, Store, Expire, Clear, Move, totals, history, thread
  <2>2. CASE Refuse(t) \/ ReadTotal(t)
    BY <2>2, BatchesOf DEF Refuse, ReadTotal, Move, totals, history
  <2>3. CASE StoreTotal(t) \/ Purge(t)
    BY <2>3, BatchesOf DEF StoreTotal, Purge, Move, totals, history
  <2> QED
    BY <2>1, <2>2, <2>3
<1>2. \A u \in Threads : \/ pc'[u] = pc[u] /\ batch'[u] = batch[u] /\ rest'[u] = rest[u]
                         \/ pc[u] # "marking" /\ ~Holding(u)'
  BY <1>1, BatchesOf DEF TypeOK, Holding
<1> QED
  BY <1>1, <1>2, DeliveryUntouched

LEMMA DeliveryStep == BufferStrong /\ DeliveryStrong /\ [Next]_vars => DeliveryStrong'
<1> SUFFICES ASSUME BufferStrong, DeliveryStrong, [Next]_vars PROVE DeliveryStrong'
  OBVIOUS
<1>1. CASE \E t \in Threads : Choose(t) \/ Accept(t) \/ Mark(t)
  BY <1>1, ChooseIsNew, AcceptIsOnce, MarkIsSafe
<1>2. CASE \E t \in Threads : \/ ReadClock(t) \/ Store(t) \/ Expire(t) \/ Clear(t)
                              \/ Refuse(t) \/ ReadTotal(t) \/ StoreTotal(t) \/ Purge(t)
  BY <1>2, OthersDeliverNothing
<1>3. CASE Tick \/ UNCHANGED vars
  <2>1. UNCHANGED <<marked, batch, rest, accepted, shared, pc>>
    BY <1>3 DEF Tick, vars, totals, history, thread
  <2> QED
    BY <2>1, DeliveryUntouched
<1> QED
  BY <1>1, <1>2, <1>3 DEF Next

-----------------------------------------------------------------------------
\* The sums are natural numbers; nothing is uncounted if no thread counts.
LEMMA CountsTyped ==
  ASSUME BufferStrong
  PROVE  /\ Uncounted \in Nat /\ SumFunction(accepted) \in Nat
         /\ (\A t \in Threads : ~Counting(t)) => Uncounted = 0
         /\ \A t \in Threads : Len(batch[t]) \in Nat /\ Waiting[t] \in Nat
         /\ SumFunction(accepted) = SumFunctionOnSet(accepted, Entries)
<1>1. \A t \in Threads : Len(batch[t]) \in Nat
  BY BatchesOf
<1>2. \A t \in Threads : Waiting[t] \in Nat
  BY <1>1 DEF Waiting
<1>3. Uncounted \in Nat
  <2>1. Uncounted \in Int /\ Uncounted >= 0
    BY <1>2, EntriesTyped, SumFacts DEF Uncounted
  <2> QED
    BY <2>1
<1>4. SumFunction(accepted) = SumFunctionOnSet(accepted, Entries) /\ SumFunction(accepted) \in Nat
  <2>1. accepted \in [Entries -> Nat]
    BY BatchesOf DEF TypeOK
  <2>2. SumFunctionOnSet(accepted, Entries) \in Int /\ SumFunctionOnSet(accepted, Entries) >= 0
    <3>1. \A e \in Entries : accepted[e] \in Int /\ accepted[e] >= 0
      BY <2>1
    <3>2. IsFiniteSet(Entries)
      BY EntriesTyped
    <3> QED
      BY <3>1, <3>2, SumFacts
  <2>3. DOMAIN accepted = Entries
    BY <2>1
  <2> QED
    BY <2>2, <2>3 DEF SumFunction
<1>5. ASSUME \A t \in Threads : ~Counting(t) PROVE Uncounted = 0
  <2>1. \A t \in Threads : Waiting[t] = 0
    BY <1>5 DEF Waiting
  <2> QED
    BY <2>1, EntriesTyped, SumOfZeros DEF Uncounted
<1> QED
  BY <1>1, <1>2, <1>3, <1>4, <1>5

\* A step of a thread changes what is uncounted by what the thread has to count.
LEMMA UncountedChanges ==
  ASSUME BufferStrong, BufferStrong', NEW t \in Threads,
         \A u \in Threads \ {t} : pc'[u] = pc[u] /\ batch'[u] = batch[u]
  PROVE  Uncounted' = Uncounted + Waiting'[t] - Waiting[t]
<1>1. PICK f, g : f = Waiting /\ g = Waiting'
  OBVIOUS
<1>2. \A u \in Threads : Counting(u)' = (pc'[u] \in {"marking", "adding", "storing"})
  BY DEF Counting
<1>3. \A u \in Threads : g[u] = IF pc'[u] \in {"marking", "adding", "storing"}
                                THEN Len(batch'[u]) ELSE 0
  BY <1>1, <1>2 DEF Waiting
<1>4. \A u \in Threads : f[u] = IF pc[u] \in {"marking", "adding", "storing"}
                                THEN Len(batch[u]) ELSE 0
  BY <1>1 DEF Waiting, Counting
<1>5. \A u \in Threads : Len(batch'[u]) \in Nat /\ Len(batch[u]) \in Nat
  <2>1. batch' \in [Threads -> Seq(Entries)]
    BY DEF BufferStrong, TypeOK
  <2> QED
    BY <2>1, BatchesOf, EntriesTyped DEF Entries
<1>6. \A u \in Threads : f[u] \in Int /\ g[u] \in Int /\ (u # t => g[u] = f[u])
  BY <1>3, <1>4, <1>5
<1>7. SumFunctionOnSet(g, Threads) = SumFunctionOnSet(f, Threads) + g[t] - f[t]
  BY <1>6, EntriesTyped, SumChange
<1> QED
  BY <1>1, <1>7 DEF Uncounted

LEMMA CountInitial == Init => CountStrong
<1> SUFFICES ASSUME Init PROVE CountStrong
  OBVIOUS
<1>1. /\ totalFlushed = 0 /\ pc = [t \in Threads |-> "idle"] /\ torn = {}
      /\ accepted = [e \in Entries |-> 0]
  BY DEF Init
<1>2. \A t \in Threads : pc[t] = "idle" /\ ~Counting(t)
  BY <1>1 DEF Counting
<1>3. Uncounted = 0
  BY <1>2, BufferInitial, CountsTyped
<1>4. SumFunction(accepted) = 0
  <2>1. DOMAIN accepted = Entries /\ \A e \in Entries : accepted[e] = 0
    BY <1>1
  <2>2. SumFunctionOnSet(accepted, Entries) = 0
    BY <2>1, EntriesTyped, SumOfZeros
  <2> QED
    BY <2>1, <2>2 DEF SumFunction
<1> QED
  BY <1>1, <1>2, <1>3, <1>4 DEF CountStrong

\* A step of a thread that counts as little after it as before it.
LEMMA CountUntouched ==
  ASSUME BufferStrong, BufferStrong', CountStrong, NEW t \in Threads,
         UNCHANGED <<totalFlushed, read, accepted, torn>>,
         \A u \in Threads \ {t} : pc'[u] = pc[u] /\ batch'[u] = batch[u],
         Waiting'[t] = Waiting[t], pc'[t] = "storing" => pc[t] = "storing"
  PROVE  CountStrong'
<1>1. Uncounted' = Uncounted
  BY UncountedChanges, CountsTyped
<1>2. \A u \in Threads : pc'[u] = "storing" => pc[u] = "storing"
  OBVIOUS
<1> QED
  BY <1>1, <1>2 DEF CountStrong

LEMMA WaitingIs ==
  ASSUME NEW t \in Threads
  PROVE  /\ Waiting[t] = IF pc[t] \in {"marking", "adding", "storing"} THEN Len(batch[t]) ELSE 0
         /\ Waiting'[t] = IF pc'[t] \in {"marking", "adding", "storing"}
                          THEN Len(batch'[t]) ELSE 0
<1>1. Counting(t)' = (pc'[t] \in {"marking", "adding", "storing"})
  BY DEF Counting
<1> QED
  BY <1>1 DEF Waiting, Counting

\* Steps before the batch is accepted and after it is counted, and the marks.
LEMMA OthersCountNothing ==
  ASSUME BufferStrong, BufferStrong', CountStrong, NEW t \in Threads,
         \/ ReadClock(t) \/ Store(t) \/ Expire(t) \/ Clear(t)
         \/ Choose(t) \/ Refuse(t) \/ Mark(t) \/ Purge(t)
  PROVE  CountStrong'
<1>1. /\ UNCHANGED <<totalFlushed, read, accepted, torn>>
      /\ \A u \in Threads \ {t} : batch'[u] = batch[u]
      /\ \/ /\ pc[t] = "marking" /\ batch' = batch
            /\ \E to \in {"marking", "adding"} : pc' = [pc EXCEPT ![t] = to]
         \/ pc' = pc /\ batch' = batch
         \/ /\ pc[t] \in {"idle", "recording", "expiring", "exporting", "purging"}
            /\ \E to \in {"idle", "recording", "expiring", "exporting"} :
                 pc' = [pc EXCEPT ![t] = to]
  <2>1. CASE ReadClock(t) \/ Store(t) \/ Expire(t) \/ Clear(t)
    BY <2>1 DEF ReadClock, Store, Expire, Clear, Move, totals, history, thread
  <2>2. CASE Choose(t)
    BY <2>2, ChosenBatch DEF Choose, Move, totals
  <2>3. CASE Refuse(t) \/ Purge(t)
    BY <2>3, BatchesOf DEF Refuse, Purge, Move, totals, history
  <2>4. CASE Mark(t)
    BY <2>4 DEF Mark, totals, history
  <2> QED
    BY <2>1, <2>2, <2>3, <2>4
<1>2. \A u \in Threads \ {t} : pc'[u] = pc[u]
  BY <1>1, BatchesOf DEF TypeOK
<1>3. Waiting'[t] = Waiting[t] /\ (pc'[t] = "storing" => pc[t] = "storing")
  BY <1>1, WaitingIs, BatchesOf DEF TypeOK
<1> QED
  BY <1>1, <1>2, <1>3, CountUntouched

\* What is accepted is still to be counted.
LEMMA AcceptCounts ==
  ASSUME BufferStrong, BufferStrong', CountStrong, NEW t \in Threads, Accept(t)
  PROVE  CountStrong'
<1>1. /\ pc[t] = "exporting" /\ pc' = [pc EXCEPT ![t] = "marking"]
      /\ UNCHANGED <<totalFlushed, batch, read, torn>>
  BY DEF Accept, Move, totals
<1>2. pc'[t] = "marking" /\ \A u \in Threads \ {t} : pc'[u] = pc[u]
  BY <1>1, BatchesOf DEF TypeOK
<1>3. Uncounted' = Uncounted + Len(batch[t])
  <2>1. Uncounted' = Uncounted + Waiting'[t] - Waiting[t]
    BY <1>1, <1>2, UncountedChanges
  <2>2. Waiting'[t] = Len(batch[t]) /\ Waiting[t] = 0
    BY <1>1, <1>2, WaitingIs
  <2> QED
    BY <2>1, <2>2, CountsTyped
<1>4. SumFunction(accepted') = SumFunction(accepted) + Len(batch[t])
  <2>1. DOMAIN accepted' = Entries
    BY AcceptDelivers
  <2>2. SumFunctionOnSet(accepted', Entries)
          = SumFunctionOnSet(accepted, Entries) + Cardinality(Range(batch[t]))
    <3>1. \A e \in Entries : accepted[e] \in Int
      BY AcceptDelivers
    <3>2. PICK g : g = accepted'
      OBVIOUS
    <3>3. \A e \in Entries : g[e] = accepted[e] + IF e \in Range(batch[t]) THEN 1 ELSE 0
      BY <3>2, AcceptDelivers
    <3>4. SumFunctionOnSet(g, Entries)
            = SumFunctionOnSet(accepted, Entries) + Cardinality(Range(batch[t]))
      <4>1. Range(batch[t]) \in SUBSET Entries /\ IsFiniteSet(Entries)
        BY AcceptDelivers, EntriesTyped
      <4> QED
        BY <3>1, <3>3, <4>1, SumOneEach
    <3> QED
      BY <3>2, <3>4
  <2>3. Cardinality(Range(batch[t])) = Len(batch[t])
    <3>1. PICK b : b = batch[t]
      OBVIOUS
    <3>2. /\ b \in Seq(Entries) /\ Len(b) \in Nat /\ DOMAIN b = 1..Len(b)
          /\ b = [i \in 1..Len(b) |-> b[i]]
      BY <3>1, BatchesOf
    <3>3. \A i, j \in 1..Len(b) : i # j => b[i] # b[j]
      <4>1. \A i, j \in 1..Len(b) : i < j => b[i] < b[j]
        BY <3>1, <3>2, BatchesOf DEF Increasing
      <4>2. \A i \in 1..Len(b) : b[i] \in Int
        BY <3>2, EntriesTyped
      <4>3. \A i, j \in 1..Len(b) : i # j => i < j \/ j < i
        BY <3>2
      <4> QED
        BY <4>1, <4>2, <4>3
    <3>4. Range(b) = {b[i] : i \in 1..Len(b)}
      BY <3>2 DEF Range
    <3>5. Cardinality(Range(b)) = Len(b)
      BY <3>2, <3>3, <3>4, SequenceSet
    <3> QED
      BY <3>1, <3>5
  <2> QED
    BY <2>1, <2>2, <2>3, CountsTyped DEF SumFunction
<1>5. \A u \in Threads : pc'[u] = "storing" => pc[u] = "storing"
  BY <1>2
<1>6. /\ Uncounted \in Nat /\ SumFunction(accepted) \in Nat /\ Len(batch[t]) \in Nat
      /\ totalFlushed \in Nat /\ \A u \in Threads : read[u] \in Nat
  BY CountsTyped, BatchesOf
<1>7. totalFlushed' + Uncounted' <= SumFunction(accepted')
  BY <1>1, <1>3, <1>4, <1>6 DEF CountStrong
<1>8. \A u \in Threads : pc'[u] = "storing" => read'[u] + Uncounted' <= SumFunction(accepted')
  BY <1>1, <1>3, <1>4, <1>5, <1>6 DEF CountStrong
<1>9. torn' = {} =>
        /\ totalFlushed' + Uncounted' = SumFunction(accepted')
        /\ \A u \in Threads : pc'[u] = "storing" => read'[u] = totalFlushed'
        /\ \A u, v \in Threads : pc'[u] = "storing" /\ pc'[v] = "storing" => u = v
  BY <1>1, <1>3, <1>4, <1>5, <1>6 DEF CountStrong
<1> QED
  BY <1>7, <1>8, <1>9 DEF CountStrong

LEMMA ReadTotalCounts ==
  ASSUME BufferStrong, BufferStrong', CountStrong, NEW t \in Threads, ReadTotal(t)
  PROVE  CountStrong'
<1>1. /\ pc[t] = "adding" /\ pc' = [pc EXCEPT ![t] = "storing"]
      /\ read' = [read EXCEPT ![t] = totalFlushed]
      /\ torn' = torn \cup {u \in Threads \ {t} : pc[u] = "storing"}
      /\ UNCHANGED <<totalFlushed, batch, accepted>>
  BY DEF ReadTotal, Move, totals
<1>2. /\ pc'[t] = "storing" /\ read'[t] = totalFlushed
      /\ \A u \in Threads \ {t} : pc'[u] = pc[u] /\ read'[u] = read[u]
  BY <1>1, BatchesOf DEF TypeOK
<1>3. Uncounted' = Uncounted
  <2>1. Uncounted' = Uncounted + Waiting'[t] - Waiting[t]
    BY <1>1, <1>2, UncountedChanges
  <2>2. Waiting'[t] = Waiting[t]
    BY <1>1, <1>2, WaitingIs
  <2> QED
    BY <2>1, <2>2, CountsTyped
<1>4. \A u \in Threads : pc'[u] = "storing" => read'[u] + Uncounted <= SumFunction(accepted)
  BY <1>2 DEF CountStrong
<1>5. torn' = {} => torn = {} /\ \A u \in Threads \ {t} : pc'[u] # "storing"
  BY <1>1, <1>2
<1> QED
  BY <1>1, <1>2, <1>3, <1>4, <1>5 DEF CountStrong

\* The batch is counted on top of what was read.
LEMMA StoreTotalCounts ==
  ASSUME BufferStrong, BufferStrong', CountStrong, NEW t \in Threads, StoreTotal(t)
  PROVE  CountStrong'
<1>1. /\ pc[t] = "storing" /\ pc' = [pc EXCEPT ![t] = "purging"]
      /\ totalFlushed' = read[t] + Len(batch[t])
      /\ read' = [read EXCEPT ![t] = 0] /\ batch' = [batch EXCEPT ![t] = <<>>]
      /\ UNCHANGED <<accepted, torn>>
  BY DEF StoreTotal, Move, history
<1>2. /\ pc'[t] = "purging"
      /\ \A u \in Threads \ {t} : pc'[u] = pc[u] /\ read'[u] = read[u] /\ batch'[u] = batch[u]
  BY <1>1, BatchesOf DEF TypeOK
<1>3. Uncounted' = Uncounted - Len(batch[t])
  <2>1. Uncounted' = Uncounted + Waiting'[t] - Waiting[t]
    BY <1>2, UncountedChanges
  <2>2. Waiting'[t] = 0 /\ Waiting[t] = Len(batch[t])
    BY <1>1, <1>2, WaitingIs
  <2> QED
    BY <2>1, <2>2, CountsTyped
<1>4. /\ Uncounted \in Nat /\ SumFunction(accepted) \in Nat /\ Len(batch[t]) \in Nat
      /\ totalFlushed \in Nat /\ \A u \in Threads : read[u] \in Nat
  BY CountsTyped, BatchesOf
<1>5. totalFlushed' + Uncounted' = read[t] + Uncounted
  BY <1>1, <1>3, <1>4
<1>6. totalFlushed' + Uncounted' <= SumFunction(accepted')
  BY <1>1, <1>5 DEF CountStrong
<1>7. \A u \in Threads : pc'[u] = "storing" => read'[u] + Uncounted' <= SumFunction(accepted')
  <2> SUFFICES ASSUME NEW u \in Threads, pc'[u] = "storing"
               PROVE  read'[u] + Uncounted' <= SumFunction(accepted')
    OBVIOUS
  <2>1. u # t /\ pc[u] = "storing" /\ read'[u] = read[u]
    BY <1>2
  <2>2. read[u] + Uncounted <= SumFunction(accepted)
    BY <2>1 DEF CountStrong
  <2> QED
    BY <1>1, <1>3, <1>4, <2>1, <2>2
<1>8. torn' = {} =>
        /\ totalFlushed' + Uncounted' = SumFunction(accepted')
        /\ \A u \in Threads : pc'[u] # "storing"
  <2> SUFFICES ASSUME torn = {}
               PROVE  /\ totalFlushed' + Uncounted' = SumFunction(accepted')
                      /\ \A u \in Threads : pc'[u] # "storing"
    BY <1>1
  <2>1. read[t] = totalFlushed /\ totalFlushed + Uncounted = SumFunction(accepted)
    BY <1>1 DEF CountStrong
  <2>2. \A u \in Threads \ {t} : pc[u] # "storing"
    BY <1>1 DEF CountStrong
  <2> QED
    BY <1>1, <1>2, <1>5, <2>1, <2>2
<1> QED
  BY <1>6, <1>7, <1>8 DEF CountStrong

LEMMA CountStep ==
  BufferStrong /\ BufferStrong' /\ CountStrong /\ [Next]_vars => CountStrong'
<1> SUFFICES ASSUME BufferStrong, BufferStrong', CountStrong, [Next]_vars PROVE CountStrong'
  OBVIOUS
<1>1. CASE \E t \in Threads : \/ ReadClock(t) \/ Store(t) \/ Expire(t) \/ Clear(t)
                              \/ Choose(t) \/ Refuse(t) \/ Mark(t) \/ Purge(t)
  BY <1>1, OthersCountNothing
<1>2. CASE \E t \in Threads : Accept(t) \/ ReadTotal(t) \/ StoreTotal(t)
  BY <1>2, AcceptCounts, ReadTotalCounts, StoreTotalCounts
<1>3. CASE Tick \/ UNCHANGED vars
  <2>1. UNCHANGED <<totalFlushed, read, accepted, torn, pc, batch>>
    BY <1>3 DEF Tick, vars, totals, history, thread
  <2>2. Uncounted' = Uncounted
    BY <2>1 DEF Uncounted, Waiting, Counting
  <2> QED
    BY <2>1, <2>2 DEF CountStrong
<1> QED
  BY <1>1, <1>2, <1>3 DEF Next

\* However many threads flush, the buffer accounts for every entry, though entries are
\* evicted, expire and are cleared while they are exported; the total of the flushed never
\* exceeds the deliveries, and equals them between flushes unless two updates of it
\* interleaved (offline_buffer.py:166-188).
THEOREM FlushesAreCounted == TelemetrySpec => []BufferInv
<1> DEFINE Strong == BufferStrong /\ CountStrong
<1>1. TelemetryInit => Strong
  BY BufferInitial, CountInitial DEF TelemetryInit
<1>2. Strong /\ [TelemetryNext]_<<part, keeping, learning>> => Strong'
  BY StepOfPart, BufferStep, CountStep
<1>3. Strong => BufferInv
  <2> SUFFICES ASSUME BufferStrong, CountStrong PROVE BufferInv
    OBVIOUS
  <2>1. totalFlushed \in Nat /\ Uncounted \in Nat /\ SumFunction(accepted) \in Nat
    BY BatchesOf, CountsTyped
  <2>2. totalFlushed <= SumFunction(accepted)
    BY <2>1 DEF CountStrong
  <2>3. torn = {} /\ (\A t \in Threads : ~Counting(t)) => totalFlushed = SumFunction(accepted)
    BY <2>1, CountsTyped DEF CountStrong
  <2> QED
    BY <2>2, <2>3 DEF BufferStrong, BufferInv, FlushedIsExact
<1> HIDE DEF Strong
<1> QED
  BY <1>1, <1>2, <1>3, PTL DEF TelemetrySpec

\* However many threads flush, an entry is delivered twice only if two flushes had it in
\* their batches at the same time (offline_buffer.py:165-184).
THEOREM DeliveredOnce == TelemetrySpec => []ExportedOnce
<1> DEFINE Strong == BufferStrong /\ DeliveryStrong
<1>1. TelemetryInit => Strong
  BY BufferInitial, DeliveryInitial DEF TelemetryInit
<1>2. Strong /\ [TelemetryNext]_<<part, keeping, learning>> => Strong'
  BY StepOfPart, BufferStep, DeliveryStep
<1>3. Strong => ExportedOnce
  BY DEF DeliveryStrong
<1> HIDE DEF Strong
<1> QED
  BY <1>1, <1>2, <1>3, PTL DEF TelemetrySpec

-----------------------------------------------------------------------------
\* The operators of the storage on sequences are those of the lemmas.
LEMMA StorageSequences ==
  /\ \A s : Storage!Range(s) = Members(s)
  /\ \A s, n : Storage!Prefix(s, n) = FirstOf(s, n) /\ Storage!Rest(s, n) = Beyond(s, n)
  BY DEF Storage!Range, Storage!Prefix, Storage!Rest, Members, FirstOf, Beyond

LEMMA PlacesOf ==
  ASSUME NEW S, NEW s \in Seq(S)
  PROVE  Storage!Range(s) = {s[i] : i \in 1..Len(s)} /\ Storage!Range(s) \subseteq S
  BY StorageSequences, PlacesIn

LEMMA JoinedOf ==
  ASSUME NEW S, NEW a \in Seq(S), NEW b \in Seq(S)
  PROVE  Storage!Range(a \o b) = Storage!Range(a) \cup Storage!Range(b)
<1>1. /\ Storage!Range(a \o b) = Members(a \o b)
      /\ Storage!Range(a) = Members(a) /\ Storage!Range(b) = Members(b)
  BY StorageSequences
<1>2. Members(a \o b) = Members(a) \cup Members(b)
  BY Joined
<1> QED
  BY <1>1, <1>2

LEMMA TwoPartsOf ==
  ASSUME NEW S, NEW s \in Seq(S), NEW n \in Nat
  PROVE  Storage!Range(s) = Storage!Range(Storage!Prefix(s, n))
                              \cup Storage!Range(Storage!Rest(s, n))
<1>1. Storage!Prefix(s, n) = FirstOf(s, n) /\ Storage!Rest(s, n) = Beyond(s, n)
  BY StorageSequences
<1>2. /\ Storage!Range(s) = Members(s)
      /\ Storage!Range(Storage!Prefix(s, n)) = Members(FirstOf(s, n))
      /\ Storage!Range(Storage!Rest(s, n)) = Members(Beyond(s, n))
  BY <1>1, StorageSequences
<1>3. Members(s) = Members(FirstOf(s, n)) \cup Members(Beyond(s, n))
  BY TwoParts
<1> QED
  BY <1>2, <1>3

LEMMA DividedOf ==
  ASSUME NEW S, NEW s \in Seq(S), NEW n \in Nat
  PROVE  /\ Storage!Prefix(s, n) \in Seq(S) /\ Storage!Rest(s, n) \in Seq(S)
         /\ n >= Len(s) => Storage!Prefix(s, n) = s
         /\ n = 0 => Storage!Range(Storage!Prefix(s, n)) = {}
<1>1. Storage!Prefix(s, n) = FirstOf(s, n) /\ Storage!Rest(s, n) = Beyond(s, n)
  BY StorageSequences
<1>2. Storage!Range(Storage!Prefix(s, n)) = Members(FirstOf(s, n))
  BY <1>1, StorageSequences
<1> QED
  BY <1>1, <1>2, Divided

LEMMA NestedOf ==
  ASSUME NEW S, NEW s \in Seq(S), NEW n \in Nat, NEW m \in 0..n
  PROVE  Storage!Range(Storage!Prefix(s, n)) =
           Storage!Range(Storage!Prefix(s, m))
             \cup Storage!Range(Storage!Rest(Storage!Prefix(s, n), m))
  BY StorageSequences, Nested

-----------------------------------------------------------------------------
\* Where an entry of the storage can be.
Somewhere(x) ==
  \/ x \in Storage!Range(memory)
  \/ \E f \in Storage!Files : x \in Storage!Range(disk[f])
  \/ \E t \in Threads : job[t].step = "writing" /\ x \in Storage!Range(job[t].hand)
  \/ x \in synced \/ x \in lost \/ x \in swept \/ x \in unsaved

\* What a sync has sent was accepted unless a batch failed, there is more to send, and
\* before it clears all of it was accepted.
SafeJob(j) ==
  /\ j.step \in {"clearing", "deleting"} => Storage!Range(j.hand) \subseteq synced
  /\ j.step = "copied" => j.sent = 0
  /\ j.step = "sending" =>
       /\ j.sent < Len(j.hand)
       /\ ~j.failed => Storage!Range(Storage!Prefix(j.hand, j.sent)) \subseteq synced

StorageStrong ==
  /\ Storage!TypeOK
  /\ \A x \in 1..stored : Somewhere(x)
  /\ \A t \in Threads : SafeJob(job[t])

LEMMA StorageBounds ==
  /\ MaxEntries \in Nat \ {0} /\ MaxStored \in Nat /\ MaxMillis \in Nat /\ MaxCrashes \in Nat
  BY TelemetryAssumption DEF Storage!StorageAssumption

\* The files read one after the other.
LEMMA FilesInOrder ==
  ASSUME NEW d \in [Storage!Files -> Seq(Storage!Records)]
  PROVE  /\ Storage!InOrder(d) \in Seq(Storage!Records)
         /\ \A x : x \in Storage!Range(Storage!InOrder(d))
                     <=> \E f \in Storage!Files : x \in Storage!Range(d[f])
<1>1. MaxMillis \in Nat /\ Storage!Files = 0..MaxMillis
  BY StorageBounds DEF Storage!Files
<1>2. Storage!InOrder(d) = FlatOf(d, MaxMillis)[MaxMillis]
  BY <1>1, Zenon DEF Storage!InOrder, Flat, FlatOf
<1>3. /\ Storage!InOrder(d) \in Seq(Storage!Records)
      /\ Members(Storage!InOrder(d)) = UNION {Members(d[f]) : f \in 0..MaxMillis}
  <2>1. d \in [0..MaxMillis -> Seq(Storage!Records)]
    BY <1>1
  <2>2. /\ FlatOf(d, MaxMillis)[MaxMillis] \in Seq(Storage!Records)
        /\ Members(FlatOf(d, MaxMillis)[MaxMillis]) = UNION {Members(d[f]) : f \in 0..MaxMillis}
    BY <1>1, <2>1, Flattened, Zenon
  <2> QED
    BY ONLY <1>2, <2>2, Zenon
<1> QED
  BY <1>1, <1>3, StorageSequences

\* What is loaded, whatever was read of each file.
LEMMA LoadedTyped ==
  ASSUME Storage!TypeOK, NEW found \in Storage!Loaded
  PROVE  found \in Seq(Storage!Records)
<1>1. PICK cut \in [Storage!Files -> 0..MaxStored] :
        found = Storage!InOrder([f \in Storage!Files |-> Storage!Prefix(disk[f], cut[f])])
  BY DEF Storage!Loaded
<1>2. \A f \in Storage!Files : Storage!Prefix(disk[f], cut[f]) \in Seq(Storage!Records)
  <2> SUFFICES ASSUME NEW f \in Storage!Files
               PROVE  Storage!Prefix(disk[f], cut[f]) \in Seq(Storage!Records)
    OBVIOUS
  <2>1. disk[f] \in Seq(Storage!Records) /\ cut[f] \in Nat
    BY <1>1, StorageBounds DEF Storage!TypeOK
  <2> QED
    BY <2>1, DividedOf
<1>3. [f \in Storage!Files |-> Storage!Prefix(disk[f], cut[f])]
        \in [Storage!Files -> Seq(Storage!Records)]
  BY <1>2
<1> QED
  BY <1>1, <1>3, FilesInOrder

LEMMA HeldIs ==
  ASSUME Storage!TypeOK, NEW x
  PROVE  /\ x \in Storage!Held <=>
              \/ x \in Storage!Range(memory)
              \/ \E f \in Storage!Files : x \in Storage!Range(disk[f])
              \/ \E t \in Threads : job[t].step = "writing" /\ x \in Storage!Range(job[t].hand)
         /\ Somewhere(x) <=> x \in Storage!Held \cup synced \cup lost \cup swept \cup unsaved
<1>1. disk \in [Storage!Files -> Seq(Storage!Records)]
  BY DEF Storage!TypeOK
<1>2. x \in Storage!Range(Storage!InOrder(disk))
        <=> \E f \in Storage!Files : x \in Storage!Range(disk[f])
  BY <1>1, FilesInOrder
<1>3. x \in Storage!Unwritten
        <=> \E t \in Threads : job[t].step = "writing" /\ x \in Storage!Range(job[t].hand)
  BY DEF Storage!Unwritten, Storage!At
<1> QED
  BY <1>2, <1>3 DEF Storage!Held, Somewhere

LEMMA StrongSuffices == ASSUME StorageStrong PROVE Storage!StorageInv
<1>1. Storage!TypeOK /\ \A x \in 1..stored : Somewhere(x)
  BY DEF StorageStrong
<1>2. Storage!NoneVanishes
  BY <1>1, HeldIs DEF Storage!NoneVanishes
<1>3. Storage!ClearsDelivered
  BY DEF StorageStrong, SafeJob, Storage!ClearsDelivered
<1> QED
  BY <1>1, <1>2, <1>3 DEF Storage!StorageInv

LEMMA HeldTyped == ASSUME Storage!TypeOK PROVE Storage!Held \subseteq Storage!Records
<1>1. Storage!Range(memory) \subseteq Storage!Records
  BY PlacesOf DEF Storage!TypeOK
<1>2. \A f \in Storage!Files : Storage!Range(disk[f]) \subseteq Storage!Records
  <2> SUFFICES ASSUME NEW f \in Storage!Files
               PROVE  Storage!Range(disk[f]) \subseteq Storage!Records
    OBVIOUS
  <2>1. disk[f] \in Seq(Storage!Records)
    BY DEF Storage!TypeOK
  <2> QED
    BY <2>1, PlacesOf
<1>3. \A t \in Threads : Storage!Range(job[t].hand) \subseteq Storage!Records
  <2> SUFFICES ASSUME NEW t \in Threads
               PROVE  Storage!Range(job[t].hand) \subseteq Storage!Records
    OBVIOUS
  <2>1. job[t].hand \in Seq(Storage!Records)
    BY DEF Storage!TypeOK, Storage!Jobs
  <2> QED
    BY <2>1, PlacesOf
<1> QED
  BY <1>1, <1>2, <1>3, HeldIs

LEMMA StorageInitial == ASSUME Storage!Init PROVE StorageStrong
<1>1. Storage!Idle \in Storage!Jobs
  BY DEF Storage!Idle, Storage!Jobs, Storage!Steps
<1>2. Storage!TypeOK
  BY <1>1, StorageBounds DEF Storage!Init, Storage!TypeOK, Storage!Files
<1>3. \A x \in 1..stored : Somewhere(x)
  BY DEF Storage!Init
<1>4. \A t \in Threads : SafeJob(job[t])
  BY DEF Storage!Init, Storage!Idle, SafeJob
<1> QED
  BY <1>2, <1>3, <1>4 DEF StorageStrong

\* A thread goes on; the others are where they were.
LEMMA JobGoesOn ==
  ASSUME StorageStrong, NEW t \in Threads, NEW j \in Storage!Jobs, Storage!Do(t, j),
         synced \subseteq synced', SafeJob(j)'
  PROVE  /\ job' \in [Threads -> Storage!Jobs]
         /\ \A u \in Threads : job'[u] = IF u = t THEN j ELSE job[u]
         /\ \A u \in Threads : SafeJob(job[u])'
<1>1. job \in [Threads -> Storage!Jobs]
  BY DEF StorageStrong, Storage!TypeOK
<1>2. /\ job' \in [Threads -> Storage!Jobs]
      /\ \A u \in Threads : job'[u] = IF u = t THEN j ELSE job[u]
  BY <1>1 DEF Storage!Do
<1>3. ASSUME NEW u \in Threads PROVE SafeJob(job[u])'
  <2>1. CASE u = t
    <3>1. job'[u] = j
      BY <1>2, <2>1
    <3> QED
      BY <3>1 DEF SafeJob
  <2>2. CASE u # t
    <3>1. job'[u] = job[u] /\ SafeJob(job[u])
      BY <1>2, <2>2 DEF StorageStrong
    <3> QED
      BY <3>1 DEF SafeJob
  <2> QED
    BY <2>1, <2>2
<1> QED
  BY <1>2, <1>3

-----------------------------------------------------------------------------
LEMMA StorageStore ==
  ASSUME StorageStrong, NEW t \in Threads, Storage!Store(t)
  PROVE  StorageStrong'
<1>1. /\ memory \in Seq(Storage!Records) /\ stored \in 0..MaxStored
      /\ stored' = stored + 1 /\ stored' \in 1..MaxStored
      /\ memory' = Append(memory, stored')
      /\ UNCHANGED <<disk, ms, job, synced, lost, swept, unsaved, crashes>>
  BY StorageBounds DEF StorageStrong, Storage!TypeOK, Storage!Store
<1>2. memory' \in Seq(Storage!Records)
  BY <1>1 DEF Storage!Records
<1>3. Storage!Range(memory') = Storage!Range(memory) \cup {stored'}
  <2>1. PICK R : R = Storage!Records
    OBVIOUS
  <2>7. <<stored'>> \in Seq(Storage!Records)
    BY <1>1 DEF Storage!Records
  <2>2. PICK last \in Seq(R) : last = <<stored'>>
    BY <2>1, <2>7
  <2>3. PICK old \in Seq(R) : old = memory
    BY <1>1, <2>1
  <2>4. Storage!Range(old \o last) = Storage!Range(old) \cup Storage!Range(last)
    BY JoinedOf
  <2>5. memory' = old \o last
    BY <1>1, <2>2, <2>3
  <2>6. Storage!Range(last) = {stored'}
    BY <2>2 DEF Storage!Range
  <2> QED
    BY <2>3, <2>4, <2>5, <2>6
<1>4. Storage!TypeOK'
  BY <1>1, <1>2 DEF StorageStrong, Storage!TypeOK
<1>5. ASSUME NEW x \in (1..stored)' PROVE Somewhere(x)'
  <2>1. CASE x = stored'
    BY <1>3, <2>1 DEF Somewhere
  <2>2. CASE x # stored'
    <3>1. x \in 1..stored
      BY <1>1, <2>2
    <3>2. Somewhere(x)
      BY <3>1 DEF StorageStrong
    <3> QED
      BY <1>1, <1>3, <3>2 DEF Somewhere
  <2> QED
    BY <2>1, <2>2
<1>6. \A u \in Threads : SafeJob(job[u])'
  BY <1>1 DEF StorageStrong, SafeJob
<1> QED
  BY <1>4, <1>5, <1>6 DEF StorageStrong

\* The calls a thread can be in.
LEMMA JobOf ==
  ASSUME StorageStrong, NEW t \in Threads
  PROVE  /\ job[t] \in Storage!Jobs /\ SafeJob(job[t])
         /\ job[t].step \in Storage!Steps /\ job[t].hand \in Seq(Storage!Records)
         /\ job[t].onDisk \in BOOLEAN /\ job[t].sent \in Nat /\ job[t].failed \in BOOLEAN
         /\ Storage!Idle \in Storage!Jobs /\ SafeJob(Storage!Idle)'
<1>1. job[t] \in Storage!Jobs /\ SafeJob(job[t])
  BY DEF StorageStrong, Storage!TypeOK
<1>2. Storage!Idle \in Storage!Jobs
  BY DEF Storage!Idle, Storage!Jobs, Storage!Steps
<1>3. SafeJob(Storage!Idle)'
  BY DEF Storage!Idle, SafeJob
<1> QED
  BY <1>1, <1>2, <1>3 DEF Storage!Jobs

\* A thread goes on, and what was in the list, the files or its hand is somewhere.
LEMMA Moved ==
  ASSUME StorageStrong, NEW t \in Threads, NEW j \in Storage!Jobs, Storage!Do(t, j),
         SafeJob(j)', UNCHANGED <<ms, stored, crashes>>,
         memory' \in Seq(Storage!Records), disk' \in [Storage!Files -> Seq(Storage!Records)],
         synced \subseteq synced', lost \subseteq lost', swept \subseteq swept', unsaved \subseteq unsaved',
         synced' \cup lost' \cup swept' \cup unsaved' \subseteq Storage!Records,
         \A x \in Storage!Range(memory) : Somewhere(x)',
         \A f \in Storage!Files : \A x \in Storage!Range(disk[f]) : Somewhere(x)',
         job[t].step = "writing" =>
           j = job[t] \/ \A x \in Storage!Range(job[t].hand) : Somewhere(x)'
  PROVE  StorageStrong'
<1>1. /\ job' \in [Threads -> Storage!Jobs]
      /\ \A u \in Threads : job'[u] = IF u = t THEN j ELSE job[u]
      /\ \A u \in Threads : SafeJob(job[u])'
  BY JobGoesOn
<1>2. Storage!TypeOK'
  BY <1>1 DEF StorageStrong, Storage!TypeOK
<1>3. ASSUME NEW x \in (1..stored)' PROVE Somewhere(x)'
  <2>1. Somewhere(x)
    BY DEF StorageStrong
  <2>2. ASSUME NEW u \in Threads, job[u].step = "writing", x \in Storage!Range(job[u].hand)
        PROVE  Somewhere(x)'
    <3>1. CASE u = t /\ j # job[t]
      BY <2>2, <3>1
    <3>2. CASE u # t \/ j = job[t]
      <4>1. job'[u] = job[u]
        BY <1>1, <3>2
      <4> QED
        BY <2>2, <4>1 DEF Somewhere
    <3> QED
      BY <3>1, <3>2
  <2>3. (x \in synced \/ x \in lost \/ x \in swept \/ x \in unsaved) => Somewhere(x)'
    BY DEF Somewhere
  <2> QED
    BY <2>1, <2>2, <2>3 DEF Somewhere
<1> QED
  BY <1>1, <1>2, <1>3 DEF StorageStrong

\* What is known in every step.
LEMMA Known ==
  ASSUME StorageStrong
  PROVE  /\ memory \in Seq(Storage!Records)
         /\ disk \in [Storage!Files -> Seq(Storage!Records)]
         /\ ms \in Storage!Files
         /\ synced \subseteq Storage!Records /\ lost \subseteq Storage!Records
         /\ swept \subseteq Storage!Records /\ unsaved \subseteq Storage!Records
         /\ Storage!Range(memory) \subseteq Storage!Records
         /\ \A f \in Storage!Files : /\ disk[f] \in Seq(Storage!Records)
                                     /\ Storage!Range(disk[f]) \subseteq Storage!Records
         /\ <<>> \in Seq(Storage!Records) /\ Storage!Range(<<>>) = {}
<1>1. Storage!TypeOK
  BY DEF StorageStrong
<1>2. \A f \in Storage!Files : disk[f] \in Seq(Storage!Records)
  BY <1>1 DEF Storage!TypeOK
<1>3. \A f \in Storage!Files : Storage!Range(disk[f]) \subseteq Storage!Records
  BY <1>2, PlacesOf
<1>4. Storage!Range(memory) \subseteq Storage!Records
  BY <1>1, PlacesOf DEF Storage!TypeOK
<1>5. <<>> \in Seq(Storage!Records) /\ Storage!Range(<<>>) = {}
  BY DEF Storage!Range
<1> QED
  BY <1>1, <1>2, <1>3, <1>4, <1>5 DEF Storage!TypeOK

LEMMA StorageTake ==
  ASSUME StorageStrong, NEW t \in Threads, Storage!TakeAll(t)
  PROVE  StorageStrong'
<1>1. PICK j : j = [Storage!Idle EXCEPT !.step = "writing", !.hand = memory]
  OBVIOUS
<1>2. /\ Storage!Do(t, j) /\ memory' = <<>> /\ job[t].step = "idle"
      /\ UNCHANGED <<disk, ms, stored, synced, lost, swept, unsaved, crashes>>
  BY <1>1 DEF Storage!TakeAll, Storage!At
<1>3. j \in Storage!Jobs /\ j.step = "writing" /\ j.hand = memory /\ SafeJob(j)'
  BY <1>1, <1>2, Known DEF Storage!Idle, Storage!Jobs, Storage!Steps, SafeJob
<1>4. job'[t] = j
  BY <1>2, <1>3, JobGoesOn
<1>5. \A x \in Storage!Range(memory) : Somewhere(x)'
  BY <1>3, <1>4 DEF Somewhere
<1>6. \A f \in Storage!Files : \A x \in Storage!Range(disk[f]) : Somewhere(x)'
  BY <1>2 DEF Somewhere
<1> QED
  BY <1>2, <1>3, <1>5, <1>6, Known, Moved

\* A file is replaced: what was in it is lost, and the others are as they were.
LEMMA FileReplaced ==
  ASSUME StorageStrong, NEW s \in Seq(Storage!Records), Storage!Replace(s),
         Storage!Range(disk[ms]) \subseteq lost'
  PROVE  /\ disk' \in [Storage!Files -> Seq(Storage!Records)]
         /\ \A f \in Storage!Files : \A x \in Storage!Range(disk[f]) : Somewhere(x)'
         /\ \A x \in Storage!Range(s) : Somewhere(x)'
<1>1. /\ disk' \in [Storage!Files -> Seq(Storage!Records)]
      /\ disk'[ms] = s /\ ms \in Storage!Files
      /\ \A f \in Storage!Files : f # ms => disk'[f] = disk[f]
  BY Known DEF Storage!Replace
<1>2. ASSUME NEW f \in Storage!Files, NEW x \in Storage!Range(disk[f]) PROVE Somewhere(x)'
  <2>1. CASE f = ms
    BY <2>1 DEF Somewhere
  <2>2. CASE f # ms
    BY <1>1, <2>2 DEF Somewhere
  <2> QED
    BY <2>1, <2>2
<1>3. \A x \in Storage!Range(s) : Somewhere(x)'
  BY <1>1 DEF Somewhere
<1> QED
  BY <1>1, <1>2, <1>3

LEMMA StorageWrite ==
  ASSUME StorageStrong, NEW t \in Threads, Storage!Write(t)
  PROVE  StorageStrong'
<1>1. PICK hand : hand = job[t].hand
  OBVIOUS
<1>2. /\ Storage!Do(t, Storage!Idle) /\ Storage!Replace(hand)
      /\ lost' = lost \cup Storage!Range(disk[ms])
      /\ UNCHANGED <<memory, ms, stored, synced, swept, unsaved, crashes>>
  BY <1>1 DEF Storage!Write
<1>3. hand \in Seq(Storage!Records) /\ Storage!Idle \in Storage!Jobs /\ SafeJob(Storage!Idle)'
  BY <1>1, JobOf
<1>4. /\ disk' \in [Storage!Files -> Seq(Storage!Records)]
      /\ \A f \in Storage!Files : \A x \in Storage!Range(disk[f]) : Somewhere(x)'
      /\ \A x \in Storage!Range(hand) : Somewhere(x)'
  BY <1>2, <1>3, FileReplaced
<1>5. lost' \subseteq Storage!Records
  BY <1>2, Known
<1>6. \A x \in Storage!Range(memory) : Somewhere(x)'
  BY <1>2 DEF Somewhere
<1> QED
  BY <1>1, <1>2, <1>3, <1>4, <1>5, <1>6, Known, Moved

\* What is put back is in the list again.
LEMMA PutBackKeeps ==
  ASSUME StorageStrong, NEW s \in Seq(Storage!Records), Storage!PutBack(s)
  PROVE  /\ memory' \in Seq(Storage!Records)
         /\ \A x \in Storage!Range(memory) \cup Storage!Range(s) : Somewhere(x)'
<1>1. memory \in Seq(Storage!Records) /\ memory' = memory \o s
  BY Known DEF Storage!PutBack
<1>2. memory' \in Seq(Storage!Records)
  BY <1>1
<1>3. Storage!Range(memory') = Storage!Range(memory) \cup Storage!Range(s)
  BY <1>1, JoinedOf
<1> QED
  BY <1>2, <1>3 DEF Somewhere

LEMMA StorageFail ==
  ASSUME StorageStrong, NEW t \in Threads, Storage!WriteFails(t)
  PROVE  StorageStrong'
<1>1. PICK hand : hand = job[t].hand
  OBVIOUS
<1>2. /\ Storage!Do(t, Storage!Idle)
      /\ UNCHANGED <<ms, stored, synced, swept, unsaved, crashes>>
      /\ \/ Storage!PutBack(hand) /\ UNCHANGED <<disk, lost>>
         \/ \E n \in 0..Len(hand) : \E m \in 0..n :
              /\ Storage!Replace(Storage!Prefix(hand, m))
              /\ Storage!PutBack(Storage!Rest(hand, n))
              /\ lost' = lost \cup Storage!Range(disk[ms])
                              \cup Storage!Range(Storage!Rest(Storage!Prefix(hand, n), m))
  BY <1>1 DEF Storage!WriteFails
<1>3. /\ hand \in Seq(Storage!Records) /\ Storage!Idle \in Storage!Jobs
      /\ SafeJob(Storage!Idle)' /\ Storage!Range(hand) \subseteq Storage!Records
  BY <1>1, JobOf, PlacesOf
<1>4. CASE Storage!PutBack(hand) /\ UNCHANGED <<disk, lost>>
  <2>1. \A f \in Storage!Files : \A x \in Storage!Range(disk[f]) : Somewhere(x)'
    BY <1>4 DEF Somewhere
  <2>2. /\ memory' \in Seq(Storage!Records)
        /\ \A x \in Storage!Range(memory) \cup Storage!Range(hand) : Somewhere(x)'
    BY <1>3, <1>4, PutBackKeeps
  <2> QED
    BY <1>1, <1>2, <1>3, <1>4, <2>1, <2>2, Known, Moved
<1>5. ASSUME NEW n \in 0..Len(hand), NEW m \in 0..n,
             Storage!Replace(Storage!Prefix(hand, m)),
             Storage!PutBack(Storage!Rest(hand, n)),
             lost' = lost \cup Storage!Range(disk[ms])
                          \cup Storage!Range(Storage!Rest(Storage!Prefix(hand, n), m))
      PROVE  StorageStrong'
  <2>1. n \in Nat /\ m \in Nat
    BY <1>3
  <2>2. /\ Storage!Prefix(hand, m) \in Seq(Storage!Records)
        /\ Storage!Rest(hand, n) \in Seq(Storage!Records)
    BY <1>3, <2>1, DividedOf
  <2>9. Storage!Range(hand) = Storage!Range(Storage!Prefix(hand, n))
                                \cup Storage!Range(Storage!Rest(hand, n))
    BY <1>3, <2>1, TwoPartsOf
  <2>3. Storage!Range(Storage!Prefix(hand, n)) =
          Storage!Range(Storage!Prefix(hand, m))
            \cup Storage!Range(Storage!Rest(Storage!Prefix(hand, n), m))
    BY <1>3, <2>1, NestedOf
  <2>4. /\ disk' \in [Storage!Files -> Seq(Storage!Records)]
        /\ \A f \in Storage!Files : \A x \in Storage!Range(disk[f]) : Somewhere(x)'
        /\ \A x \in Storage!Range(Storage!Prefix(hand, m)) : Somewhere(x)'
    BY <1>5, <2>2, FileReplaced
  <2>5. /\ memory' \in Seq(Storage!Records)
        /\ \A x \in Storage!Range(memory) \cup Storage!Range(Storage!Rest(hand, n)) :
             Somewhere(x)'
    BY <1>5, <2>2, PutBackKeeps
  <2>6. \A x \in Storage!Range(Storage!Rest(Storage!Prefix(hand, n), m)) : Somewhere(x)'
    BY <1>5 DEF Somewhere
  <2>7. \A x \in Storage!Range(hand) : Somewhere(x)'
    BY <2>3, <2>4, <2>5, <2>6, <2>9
  <2>8. lost' \subseteq Storage!Records
    BY <1>3, <1>5, <2>3, <2>9, Known
  <2> QED
    BY <1>1, <1>2, <1>3, <1>5, <2>4, <2>5, <2>7, <2>8, Known, Moved
<1> QED
  BY <1>2, <1>4, <1>5

\* What a write that raises has in its hand is in the file or unsaved.
LEMMA StorageRaise ==
  ASSUME StorageStrong, NEW t \in Threads, Storage!WriteRaises(t)
  PROVE  StorageStrong'
<1>1. PICK hand : hand = job[t].hand
  OBVIOUS
<1>2. /\ Storage!Do(t, Storage!Idle)
      /\ UNCHANGED <<memory, ms, stored, synced, swept, crashes>>
      /\ \/ unsaved' = unsaved \cup Storage!Range(hand) /\ UNCHANGED <<disk, lost>>
         \/ \E n \in 0..Len(hand) - 1 :
              /\ Storage!Replace(Storage!Prefix(hand, n))
              /\ lost' = lost \cup Storage!Range(disk[ms])
              /\ unsaved' = unsaved \cup Storage!Range(Storage!Rest(hand, n))
  BY <1>1 DEF Storage!WriteRaises
<1>3. /\ hand \in Seq(Storage!Records) /\ Storage!Idle \in Storage!Jobs
      /\ SafeJob(Storage!Idle)' /\ Storage!Range(hand) \subseteq Storage!Records
  BY <1>1, JobOf, PlacesOf
<1>4. \A x \in Storage!Range(memory) : Somewhere(x)'
  BY <1>2 DEF Somewhere
<1>5. CASE unsaved' = unsaved \cup Storage!Range(hand) /\ UNCHANGED <<disk, lost>>
  <2>1. /\ \A x \in Storage!Range(hand) : Somewhere(x)'
        /\ \A f \in Storage!Files : \A x \in Storage!Range(disk[f]) : Somewhere(x)'
    BY <1>5 DEF Somewhere
  <2>2. unsaved' \subseteq Storage!Records
    BY <1>3, <1>5, Known
  <2> QED
    BY <1>1, <1>2, <1>3, <1>4, <1>5, <2>1, <2>2, Known, Moved
<1>6. ASSUME NEW n \in 0..Len(hand) - 1,
             Storage!Replace(Storage!Prefix(hand, n)),
             lost' = lost \cup Storage!Range(disk[ms]),
             unsaved' = unsaved \cup Storage!Range(Storage!Rest(hand, n))
      PROVE  StorageStrong'
  <2>1. n \in Nat
    BY <1>3
  <2>2. Storage!Prefix(hand, n) \in Seq(Storage!Records)
    BY <1>3, <2>1, DividedOf
  <2>3. Storage!Range(hand) = Storage!Range(Storage!Prefix(hand, n))
                                \cup Storage!Range(Storage!Rest(hand, n))
    BY <1>3, <2>1, TwoPartsOf
  <2>4. /\ disk' \in [Storage!Files -> Seq(Storage!Records)]
        /\ \A f \in Storage!Files : \A x \in Storage!Range(disk[f]) : Somewhere(x)'
        /\ \A x \in Storage!Range(Storage!Prefix(hand, n)) : Somewhere(x)'
    BY <1>6, <2>2, FileReplaced
  <2>5. \A x \in Storage!Range(hand) : Somewhere(x)'
    BY <1>6, <2>3, <2>4 DEF Somewhere
  <2>6. lost' \subseteq Storage!Records /\ unsaved' \subseteq Storage!Records
    BY <1>3, <1>6, <2>3, Known
  <2> QED
    BY <1>1, <1>2, <1>3, <1>4, <1>6, <2>4, <2>5, <2>6, Known, Moved
<1> QED
  BY <1>2, <1>5, <1>6

\* A call goes on that leaves the list and the files alone.
LEMMA Stayed ==
  ASSUME StorageStrong, NEW t \in Threads, NEW j \in Storage!Jobs, Storage!Do(t, j),
         SafeJob(j)', job[t].step # "writing",
         UNCHANGED <<memory, disk, ms, stored, lost, swept, unsaved, crashes>>,
         synced \subseteq synced', synced' \subseteq Storage!Records
  PROVE  StorageStrong'
<1>1. \A x \in Storage!Range(memory) : Somewhere(x)'
  BY DEF Somewhere
<1>2. \A f \in Storage!Files : \A x \in Storage!Range(disk[f]) : Somewhere(x)'
  BY DEF Somewhere
<1> QED
  BY <1>1, <1>2, Known, Moved

LEMMA StorageCopy ==
  ASSUME StorageStrong, NEW t \in Threads, Storage!Copy(t)
  PROVE  StorageStrong'
<1>1. PICK d \in BOOLEAN :
        Storage!Do(t, [Storage!Idle EXCEPT !.step = "copied", !.hand = memory, !.onDisk = d])
  BY DEF Storage!Copy
<1>2. PICK j : j = [Storage!Idle EXCEPT !.step = "copied", !.hand = memory, !.onDisk = d]
  OBVIOUS
<1>3. /\ Storage!Do(t, j) /\ job[t].step = "idle"
      /\ UNCHANGED <<memory, disk, ms, stored, synced, lost, swept, unsaved, crashes>>
  BY <1>1, <1>2 DEF Storage!Copy, Storage!At
<1>4. j \in Storage!Jobs /\ SafeJob(j)'
  BY <1>2, Known DEF Storage!Idle, Storage!Jobs, Storage!Steps, SafeJob
<1> QED
  BY <1>3, <1>4, Known, Stayed

LEMMA StorageLoad ==
  ASSUME StorageStrong, NEW t \in Threads, Storage!Load(t)
  PROVE  StorageStrong'
<1>1. PICK found \in (IF job[t].onDisk THEN Storage!Loaded ELSE {<<>>}) :
        Storage!Do(t, IF found \o job[t].hand = <<>> THEN Storage!Idle
                      ELSE [job[t] EXCEPT !.step = "sending", !.hand = found \o job[t].hand])
  BY DEF Storage!Load
<1>2. PICK content : content = found \o job[t].hand
  OBVIOUS
<1>3. PICK j : j = IF content = <<>> THEN Storage!Idle
                   ELSE [job[t] EXCEPT !.step = "sending", !.hand = content]
  OBVIOUS
<1>4. /\ Storage!Do(t, j) /\ job[t].step = "copied"
      /\ UNCHANGED <<memory, disk, ms, stored, synced, lost, swept, unsaved, crashes>>
  BY <1>1, <1>2, <1>3 DEF Storage!Load, Storage!At
<1>5. found \in Seq(Storage!Records)
  BY LoadedTyped, Known DEF StorageStrong
<1>6. content \in Seq(Storage!Records)
  BY <1>2, <1>5, JobOf
<1>7. j \in Storage!Jobs /\ SafeJob(j)'
  <2>1. CASE content = <<>>
    BY <1>3, <2>1, JobOf
  <2>2. CASE content # <<>>
    <3>1. /\ job[t] \in Storage!Jobs /\ job[t].sent = 0
      BY <1>4, JobOf DEF SafeJob
    <3>2. /\ j \in Storage!Jobs /\ j.step = "sending" /\ j.hand = content /\ j.sent = 0
      BY <1>3, <1>6, <2>2, <3>1 DEF Storage!Jobs, Storage!Steps
    <3>3. 0 < Len(content)
      BY <1>6, <2>2
    <3>4. Storage!Range(Storage!Prefix(j.hand, j.sent)) = {}
      BY <1>6, <3>2, DividedOf
    <3> QED
      BY <3>2, <3>3, <3>4 DEF SafeJob
  <2> QED
    BY <2>1, <2>2
<1> QED
  BY <1>4, <1>7, Known, Stayed

LEMMA StorageSend ==
  ASSUME StorageStrong, NEW t \in Threads, Storage!Send(t)
  PROVE  StorageStrong'
<1>1. PICK i : i = job[t]
  OBVIOUS
<1>2. /\ i \in Storage!Jobs /\ i.step = "sending" /\ i.hand \in Seq(Storage!Records)
      /\ i.sent \in Nat /\ i.sent < Len(i.hand) /\ i.failed \in BOOLEAN
      /\ ~i.failed => Storage!Range(Storage!Prefix(i.hand, i.sent)) \subseteq synced
  BY <1>1, JobOf DEF SafeJob, Storage!Send, Storage!At
<1>3. PICK given : given = Storage!Range(Storage!Rest(Storage!Prefix(i.hand, i.sent + 1), i.sent))
  OBVIOUS
<1>4. PICK ok \in BOOLEAN :
        /\ synced' = IF ok THEN synced \cup given ELSE synced
        /\ Storage!Do(t, IF i.sent + 1 < Len(i.hand)
                           THEN [i EXCEPT !.sent = @ + 1, !.failed = Storage!Outcome(i, ok)]
                         ELSE IF Storage!Outcome(i, ok) THEN Storage!Idle
                         ELSE [i EXCEPT !.step = "clearing", !.sent = 0])
  BY <1>1, <1>3 DEF Storage!Send
<1>5. PICK failed \in BOOLEAN : failed = (i.failed \/ ~ok)
  OBVIOUS
<1>6. PICK j : j = IF i.sent + 1 < Len(i.hand)
                     THEN [i EXCEPT !.sent = i.sent + 1, !.failed = failed]
                   ELSE IF failed THEN Storage!Idle
                   ELSE [i EXCEPT !.step = "clearing", !.sent = 0]
  OBVIOUS
<1>7. /\ Storage!Do(t, j) /\ job[t].step = "sending"
      /\ UNCHANGED <<memory, disk, ms, stored, lost, swept, unsaved, crashes>>
  <2>1. Storage!Outcome(i, ok) = failed
    BY <1>5 DEF Storage!Outcome
  <2> QED
    BY <1>1, <1>2, <1>4, <1>6, <2>1 DEF Storage!Send
<1>8. /\ Storage!Prefix(i.hand, i.sent + 1) \in Seq(Storage!Records)
      /\ i.sent + 1 >= Len(i.hand) => Storage!Prefix(i.hand, i.sent + 1) = i.hand
  <2>1. i.sent + 1 \in Nat
    BY <1>2
  <2> QED
    BY <1>2, <2>1, DividedOf
<1>9. Storage!Range(Storage!Prefix(i.hand, i.sent + 1)) =
        Storage!Range(Storage!Prefix(i.hand, i.sent)) \cup given
  <2>1. i.sent + 1 \in Nat /\ i.sent \in 0..i.sent + 1
    BY <1>2
  <2> QED
    BY <1>2, <1>3, <2>1, NestedOf
<1>10. synced \subseteq synced' /\ synced' \subseteq Storage!Records
  <2>1. Storage!Range(Storage!Prefix(i.hand, i.sent + 1)) \subseteq Storage!Records
    BY <1>8, PlacesOf
  <2> QED
    BY <1>4, <1>9, <2>1, Known
<1>11. ~failed => Storage!Range(Storage!Prefix(i.hand, i.sent + 1)) \subseteq synced'
  BY <1>2, <1>4, <1>5, <1>9
<1>12. j \in Storage!Jobs /\ SafeJob(j)'
  <2>1. CASE i.sent + 1 < Len(i.hand)
    <3>1. /\ j \in Storage!Jobs /\ j.step = "sending" /\ j.hand = i.hand
          /\ j.sent = i.sent + 1 /\ j.failed = failed
      <4>1. j = [i EXCEPT !.sent = i.sent + 1, !.failed = failed] /\ i.sent + 1 \in Nat
        BY <1>2, <1>6, <2>1
      <4> QED
        BY <1>2, <4>1 DEF Storage!Jobs
    <3> QED
      BY <1>11, <2>1, <3>1 DEF SafeJob
  <2>2. CASE ~(i.sent + 1 < Len(i.hand)) /\ failed
    BY <1>6, <2>2, JobOf
  <2>3. CASE ~(i.sent + 1 < Len(i.hand)) /\ ~failed
    <3>1. j \in Storage!Jobs /\ j.step = "clearing" /\ j.hand = i.hand
      BY <1>2, <1>6, <2>3 DEF Storage!Jobs, Storage!Steps
    <3>2. Storage!Range(j.hand) \subseteq synced'
      BY <1>2, <1>8, <1>11, <2>3, <3>1
    <3> QED
      BY <3>1, <3>2 DEF SafeJob
  <2> QED
    BY <2>1, <2>2, <2>3
<1> QED
  BY <1>7, <1>10, <1>12, Stayed

LEMMA StorageClears ==
  ASSUME StorageStrong, NEW t \in Threads, Storage!ClearMemory(t)
  PROVE  StorageStrong'
<1>1. PICK j : j = IF job[t].onDisk THEN [job[t] EXCEPT !.step = "deleting"] ELSE Storage!Idle
  OBVIOUS
<1>2. /\ Storage!Do(t, j) /\ job[t].step = "clearing" /\ memory' = <<>>
      /\ swept' = swept \cup (Storage!Range(memory) \ Storage!Range(job[t].hand))
      /\ UNCHANGED <<disk, ms, stored, synced, lost, unsaved, crashes>>
  BY <1>1 DEF Storage!ClearMemory, Storage!At
<1>3. Storage!Range(job[t].hand) \subseteq synced
  BY <1>2, JobOf DEF SafeJob
<1>4. j \in Storage!Jobs /\ SafeJob(j)'
  <2>1. CASE job[t].onDisk
    <3>1. j \in Storage!Jobs /\ j.step = "deleting" /\ j.hand = job[t].hand
      BY <1>1, <2>1, JobOf DEF Storage!Jobs, Storage!Steps
    <3> QED
      BY <1>2, <1>3, <3>1 DEF SafeJob
  <2>2. CASE ~job[t].onDisk
    BY <1>1, <2>2, JobOf
  <2> QED
    BY <2>1, <2>2
<1>5. \A x \in Storage!Range(memory) : Somewhere(x)'
  BY <1>2, <1>3 DEF Somewhere
<1>6. \A f \in Storage!Files : \A x \in Storage!Range(disk[f]) : Somewhere(x)'
  BY <1>2 DEF Somewhere
<1>7. swept' \subseteq Storage!Records
  BY <1>2, Known
<1> QED
  BY <1>2, <1>4, <1>5, <1>6, <1>7, Known, Moved

LEMMA StorageDeletes ==
  ASSUME StorageStrong, NEW t \in Threads, Storage!ClearDiskFiles(t)
  PROVE  StorageStrong'
<1> DEFINE Gone(g, e) ==
             /\ disk' = [f \in Storage!Files |-> IF f \in g THEN <<>> ELSE disk[f]]
             /\ \/ /\ Storage!At(t, "deleting")
                   /\ swept' = swept \cup (e \ Storage!Range(job[t].hand)) /\ lost' = lost
                \/ Storage!At(t, "wiping") /\ lost' = lost \cup e /\ swept' = swept
<1>0. PICK gone \in SUBSET {f \in Storage!Files : disk[f] # <<>>} :
        Gone(gone, UNION {Storage!Range(disk[f]) : f \in gone})
  BY Zenon DEF Storage!ClearDiskFiles
<1>8. PICK entries : entries = UNION {Storage!Range(disk[f]) : f \in gone}
  OBVIOUS
<1>1. Gone(gone, entries)
  <2> HIDE DEF Gone
  <2> QED
    BY <1>0, <1>8
<1>2. /\ Storage!Do(t, Storage!Idle)
      /\ UNCHANGED <<memory, ms, stored, synced, unsaved, crashes>>
      /\ Storage!Idle \in Storage!Jobs /\ SafeJob(Storage!Idle)'
  BY JobOf DEF Storage!ClearDiskFiles
<1>3. disk' \in [Storage!Files -> Seq(Storage!Records)]
  BY <1>1, Known
<1>4. ASSUME NEW f \in Storage!Files, NEW x \in Storage!Range(disk[f]) PROVE Somewhere(x)'
  <2>1. CASE f \in gone
    <3>1. x \in entries
      BY <1>8, <2>1
    <3>2. CASE Storage!At(t, "deleting")
      <4>1. Storage!Range(job[t].hand) \subseteq synced
        BY <3>2, JobOf DEF SafeJob, Storage!At
      <4>2. x \in synced' \/ x \in swept' \/ x \in lost'
        BY <1>1, <1>2, <3>1, <4>1
      <4> QED
        BY <4>2 DEF Somewhere
    <3>3. CASE ~Storage!At(t, "deleting")
      <4>1. x \in lost'
        BY <1>1, <3>1, <3>3
      <4> QED
        BY <4>1 DEF Somewhere
    <3> QED
      BY <3>2, <3>3
  <2>2. CASE f \notin gone
    <3>1. disk'[f] = disk[f]
      BY <1>1, <2>2
    <3> QED
      BY <1>4, <3>1 DEF Somewhere
  <2> QED
    BY <2>1, <2>2
<1>5. /\ swept' \subseteq Storage!Records /\ lost' \subseteq Storage!Records
      /\ swept \subseteq swept' /\ lost \subseteq lost'
  <2>1. entries \subseteq Storage!Records
    BY <1>8, Known
  <2> QED
    BY <1>1, <2>1, Known
<1>6. \A x \in Storage!Range(memory) : Somewhere(x)'
  BY <1>2 DEF Somewhere
<1>7. job[t].step # "writing"
  BY <1>1 DEF Storage!At
<1> QED
  BY <1>2, <1>3, <1>4, <1>5, <1>6, <1>7, Known, Moved

LEMMA StorageClear ==
  ASSUME StorageStrong, NEW t \in Threads, Storage!Clear(t)
  PROVE  StorageStrong'
<1>1. PICK j : j = [Storage!Idle EXCEPT !.step = "wiping"]
  OBVIOUS
<1>2. /\ Storage!Do(t, j) /\ job[t].step = "idle" /\ memory' = <<>>
      /\ lost' = lost \cup Storage!Range(memory)
      /\ UNCHANGED <<disk, ms, stored, synced, swept, unsaved, crashes>>
  BY <1>1 DEF Storage!Clear, Storage!At
<1>3. j \in Storage!Jobs /\ SafeJob(j)'
  BY <1>1, Known DEF Storage!Idle, Storage!Jobs, Storage!Steps, SafeJob
<1>4. \A x \in Storage!Range(memory) : Somewhere(x)'
  BY <1>2 DEF Somewhere
<1>5. \A f \in Storage!Files : \A x \in Storage!Range(disk[f]) : Somewhere(x)'
  BY <1>2 DEF Somewhere
<1>6. lost' \subseteq Storage!Records
  BY <1>2, Known
<1> QED
  BY <1>2, <1>3, <1>4, <1>5, <1>6, Known, Moved

LEMMA StorageCrash == ASSUME StorageStrong, Storage!Crash PROVE StorageStrong'
<1>1. PICK kept : kept = UNION {Storage!Range(disk'[f]) : f \in Storage!Files}
  OBVIOUS
<1>2. /\ memory' = <<>> /\ job' = [t \in Threads |-> Storage!Idle]
      /\ lost' = lost \cup (Storage!Held \ kept)
      /\ crashes \in 0..MaxCrashes /\ crashes < MaxCrashes /\ crashes' = crashes + 1
      /\ UNCHANGED <<ms, stored, synced, swept, unsaved>>
  BY <1>1 DEF Storage!Crash, StorageStrong, Storage!TypeOK
<1>3. disk' \in [Storage!Files -> Seq(Storage!Records)]
  <2>1. CASE disk' = disk
    BY <2>1, Known
  <2>2. CASE \E t \in Threads : Storage!At(t, "writing") /\ \E n \in 0..Len(job[t].hand) :
               Storage!Replace(Storage!Prefix(job[t].hand, n))
    <3>0. PICK t \in Threads : \E n \in 0..Len(job[t].hand) :
            Storage!Replace(Storage!Prefix(job[t].hand, n))
      BY <2>2
    <3>1. PICK n \in 0..Len(job[t].hand) : Storage!Replace(Storage!Prefix(job[t].hand, n))
      BY <3>0
    <3>2. n \in Nat /\ job[t].hand \in Seq(Storage!Records)
      BY <3>1, JobOf
    <3>3. Storage!Prefix(job[t].hand, n) \in Seq(Storage!Records)
      BY <3>2, DividedOf
    <3> QED
      BY <3>1, <3>3, Known DEF Storage!Replace
  <2> QED
    BY <2>1, <2>2 DEF Storage!Crash
<1>4. Storage!Idle \in Storage!Jobs /\ Storage!Idle.step = "idle" /\ SafeJob(Storage!Idle)'
  BY DEF Storage!Idle, Storage!Jobs, Storage!Steps, SafeJob
<1>5. Storage!TypeOK'
  <2>1. lost' \subseteq Storage!Records
    BY <1>2, HeldTyped, Known DEF StorageStrong
  <2>2. crashes' \in 0..MaxCrashes
    BY <1>2, StorageBounds
  <2>3. job' \in [Threads -> Storage!Jobs]
    BY <1>2, <1>4
  <2> QED
    BY <1>2, <1>3, <2>1, <2>2, <2>3, Known DEF StorageStrong, Storage!TypeOK
<1>6. ASSUME NEW x \in (1..stored)' PROVE Somewhere(x)'
  <2>1. x \in Storage!Held \cup synced \cup lost \cup swept \cup unsaved
    BY <1>2, HeldIs DEF StorageStrong
  <2>2. x \in kept => Somewhere(x)'
    BY <1>1 DEF Somewhere
  <2>3. x \notin kept => x \in synced' \/ x \in lost' \/ x \in swept' \/ x \in unsaved'
    BY <1>2, <2>1
  <2> QED
    BY <2>2, <2>3 DEF Somewhere
<1>7. \A u \in Threads : SafeJob(job[u])'
  BY <1>2, <1>4 DEF SafeJob
<1> QED
  BY <1>5, <1>6, <1>7 DEF StorageStrong

LEMMA StorageStep == ASSUME StorageStrong, [Storage!Next]_storageVars PROVE StorageStrong'
<1>1. CASE \E t \in Threads :
             \/ Storage!Store(t) \/ Storage!TakeAll(t) \/ Storage!Write(t)
             \/ Storage!WriteFails(t) \/ Storage!WriteRaises(t)
             \/ Storage!Copy(t) \/ Storage!Load(t) \/ Storage!Send(t)
             \/ Storage!ClearMemory(t) \/ Storage!ClearDiskFiles(t) \/ Storage!Clear(t)
  BY <1>1, StorageStore, StorageTake, StorageWrite, StorageFail, StorageRaise, StorageCopy,
     StorageLoad, StorageSend, StorageClears, StorageDeletes, StorageClear
<1>2. CASE Storage!Crash
  BY <1>2, StorageCrash
<1>3. CASE Storage!Tick \/ UNCHANGED storageVars
  <2>1. UNCHANGED <<memory, disk, job, stored, synced, lost, swept, unsaved, crashes>>
    BY <1>3 DEF Storage!Tick, storageVars
  <2>2. ms' \in Storage!Files
    BY <1>3, StorageBounds, Known DEF Storage!Tick, storageVars, Storage!Files
  <2>3. Storage!TypeOK'
    BY <2>1, <2>2 DEF StorageStrong, Storage!TypeOK
  <2>4. \A x \in (1..stored)' : Somewhere(x)'
    BY <2>1 DEF StorageStrong, Somewhere
  <2>5. \A t \in Threads : SafeJob(job[t])'
    BY <2>1 DEF StorageStrong, SafeJob
  <2> QED
    BY <2>3, <2>4, <2>5 DEF StorageStrong
<1> QED
  BY <1>1, <1>2, <1>3 DEF Storage!Next

\* Whatever runs at the same time, crashes or fails, by an OSError of the write or an
\* error it does not catch: every entry of the storage is in one place or was synced, or
\* it was lost in one of the ways that are named, which are a crash, a file written
\* over or removed, clear(), a sync that did not read it and a write that raised; and a
\* sync clears only when all it read was accepted (offline_storage.py:87-214).
THEOREM EntriesSurvive == TelemetrySpec => []StorageInv
<1>1. TelemetryInit => StorageStrong
  BY StorageInitial DEF TelemetryInit
<1>2. StorageStrong /\ [TelemetryNext]_<<part, keeping, learning>> => StorageStrong'
  <2> SUFFICES ASSUME StorageStrong, [TelemetryNext]_<<part, keeping, learning>>
               PROVE  StorageStrong'
    OBVIOUS
  <2>1. [Storage!Next]_storageVars
    BY DEF TelemetryNext, Keep, Learn, keeping, learning, storageVars
  <2> QED
    BY <2>1, StorageStep
<1>3. StorageStrong => StorageInv
  BY StrongSuffices DEF StorageInv
<1> QED
  BY <1>1, <1>2, <1>3, PTL DEF TelemetrySpec
=============================================================================
