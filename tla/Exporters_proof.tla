-------------------------- MODULE Exporters_proof --------------------------
(***************************************************************************)
(* The export buffer hands every snapshot to every handler once, however   *)
(* its threads interleave, and an exporter that was stopped leaves nothing *)
(* behind, for any number of threads, handlers, snapshots and starts.      *)
(***************************************************************************)
EXTENDS MCExporters, CollectionLemmas, SequenceTheorems

\* What is on its way to handler h, where it is on all its ways, and what was handed out
\* and is not counted.
Waiting(h) == UNION {ToSet(batch[t]) : t \in Pending(h)}
Here(h)    == ToSet(handed[h]) \cup ToSet(buffer) \cup Waiting(h)
Adding     == {t \in Threads : pc[t] \in {"add", "store"}}
Uncounted  == UNION {ToSet(batch[t]) : t \in Adding}

Distinct(s) == Len(s) = Cardinality(ToSet(s))

\* The buffer and the batches hold no snapshot twice, nor do two of them the same.
Apart ==
  /\ Distinct(buffer) /\ ToSet(buffer) \subseteq 1..made
  /\ \A t \in Threads :
       /\ Distinct(batch[t]) /\ ToSet(batch[t]) \subseteq 1..made
       /\ ToSet(batch[t]) \cap ToSet(buffer) = {}
  /\ \A t, u \in Threads : t # u => ToSet(batch[t]) \cap ToSet(batch[u]) = {}

\* Nor does a handler: what it was given is no longer on its way to it.
Once(h) ==
  /\ Distinct(handed[h]) /\ ToSet(handed[h]) \subseteq 1..made
  /\ ToSet(handed[h]) \cap ToSet(buffer) = {} /\ ToSet(handed[h]) \cap Waiting(h) = {}
  /\ Cardinality(Here(h)) = made - dropped

InOnePlace == Apart /\ \A h \in 1..Handlers : Once(h)

\* What is counted, or about to be, leaves room for what is not counted yet.
CountedLast ==
  /\ flushed + Cardinality(Uncounted) <= Len(handed[Handlers])
  /\ \A t \in Threads : pc[t] = "store" =>
       read[t] + Cardinality(Uncounted) <= Len(handed[Handlers])

\* A thread has a batch, and a place among the handlers, only while it hands it out.
Tidy ==
  \A t \in Threads : /\ pc[t] \in {"idle", "flush"} => batch[t] = <<>>
                     /\ pc[t] # "hand" => handler[t] = 1

BufferStrong ==
  TypeOK /\ FullBufferIsFlushed /\ Tidy /\ InOnePlace /\ CountedLast

\* The background threads, and what they have captured and not counted.
Recording == {r \in Runners : place[r] = "recording"}

RunnersStrong ==
  /\ stopSet \in BOOLEAN /\ thread \in Runners \cup {NoThread} /\ snapshotCount \in Nat
  /\ owner \in {"idle", "joining", "flushing", "closing"}
  /\ place \in [Runners -> {"new", "looping", "waiting", "capturing", "recording",
                            "flushing", "dead"}]
  /\ started \in 0..MaxStarts /\ timedOut \in BOOLEAN
  /\ snapshotCount + Cardinality(Recording) <= made

\* No thread is alive but the one the owner knows, and stop() lets go of that one.
OneAlive ==
  /\ \A r \in Runners : Alive(r) => r = thread
  /\ stopSet /\ owner # "joining" => thread = NoThread
  /\ owner = "joining" => thread # NoThread
  /\ owner # "idle" => stopSet

\* The first n snapshots in order.
Upto(n) == [i \in 1..n |-> i]

\* All that was made was handed out; the last snapshot is in the buffer; or it is in
\* the batch of thread t.
AtRest ==
  /\ buffer = <<>> /\ flushed = made
  /\ \A h \in 1..Handlers : handed[h] = Upto(made)

LastBuffered ==
  /\ made > 0 /\ buffer = <<made>> /\ flushed = made - 1
  /\ \A h \in 1..Handlers : handed[h] = Upto(made - 1)

LastInBatch(t) ==
  /\ made > 0 /\ batch[t] = <<made>> /\ buffer = <<>> /\ flushed = made - 1
  /\ pc[t] = "store" => read[t] = made - 1
  /\ \A h \in 1..Handlers :
       /\ pc[t] # "hand" \/ h < handler[t] => handed[h] = Upto(made)
       /\ pc[t] = "hand" /\ ~(h < handler[t]) => handed[h] = Upto(made - 1)

Moving(t) ==
  \/ pc[t] = "idle" /\ AtRest
  \/ pc[t] \in {"idle", "flush"} /\ LastBuffered
  \/ pc[t] \in {"hand", "add", "store"} /\ LastInBatch(t)

\* The buffer is at rest unless a background thread is at work on it.
Busy(r) == place[r] \in {"recording", "flushing"}

BusyOn(r) ==
  /\ Moving(r)
  /\ place[r] = "recording" => made = snapshotCount + 1
  /\ place[r] = "flushing" => made = snapshotCount
  /\ place[r] = "flushing" /\ pc[r] = "idle" => AtRest

AtWork ==
  /\ \A t \in Threads : pc[t] # "idle" => t \in Runners /\ Busy(t)
  /\ (\A r \in Runners : ~Busy(r)) => AtRest /\ snapshotCount = made
  /\ \A r \in Runners : Busy(r) => BusyOn(r)

ExporterStrong ==
  /\ BufferStrong /\ RunnersStrong
  /\ use # "exporter" => ~stopSet
  /\ use = "exporter" /\ ~timedOut => OneAlive /\ AtWork

-----------------------------------------------------------------------------
\* What the members of a sequence are, and when it holds none twice.
LEMMA MembersOf ==
  ASSUME NEW S, NEW s \in Seq(S)
  PROVE  /\ ToSet(s) = {s[i] : i \in 1..Len(s)} /\ ToSet(s) \subseteq S
         /\ IsFiniteSet(ToSet(s)) /\ Cardinality(ToSet(s)) \in Nat /\ Len(s) \in Nat
         /\ s = <<>> => ToSet(s) = {} /\ Len(s) = 0 /\ Distinct(s)
<1>1. Len(s) \in Nat /\ DOMAIN s = 1..Len(s) /\ (\A i \in 1..Len(s) : s[i] \in S)
  BY SequenceTyped
<1>2. ToSet(s) = {s[i] : i \in 1..Len(s)}
  BY <1>1, Zenon DEF ToSet
<1>3. s = [i \in 1..Len(s) |-> s[i]]
  OBVIOUS
<1>4. IsFiniteSet(ToSet(s)) /\ Cardinality(ToSet(s)) \in Nat
  BY <1>1, <1>2, <1>3, SequenceSet, Zenon
<1>5. s = <<>> => ToSet(s) = {} /\ Len(s) = 0
  BY <1>2
<1>6. s = <<>> => Distinct(s)
  BY <1>5, FS_EmptySet, Zenon DEF Distinct
<1> QED
  BY <1>1, <1>2, <1>4, <1>5, <1>6, Zenon

LEMMA AppendMembers ==
  ASSUME NEW S, NEW s \in Seq(S), NEW x \in S
  PROVE  /\ Append(s, x) \in Seq(S) /\ Len(Append(s, x)) = Len(s) + 1
         /\ ToSet(Append(s, x)) = ToSet(s) \cup {x}
         /\ Distinct(s) /\ x \notin ToSet(s) => Distinct(Append(s, x))
<1>1. Append(s, x) \in Seq(S) /\ Len(Append(s, x)) = Len(s) + 1 /\ Len(s) \in Nat
  OBVIOUS
<1>2. \A i \in 1..Len(s) : Append(s, x)[i] = s[i]
  OBVIOUS
<1>3. Append(s, x)[Len(s) + 1] = x
  OBVIOUS
<1>4. 1..(Len(s) + 1) = (1..Len(s)) \cup {Len(s) + 1}
  BY <1>1
<1>5. ToSet(Append(s, x)) = {Append(s, x)[i] : i \in 1..(Len(s) + 1)}
  <2>1. ToSet(Append(s, x)) = {Append(s, x)[i] : i \in 1..Len(Append(s, x))}
    BY <1>1, MembersOf, Zenon
  <2> QED
    BY <1>1, <2>1
<1>6. ToSet(s) = {s[i] : i \in 1..Len(s)}
  BY MembersOf, Zenon
<1>7. ToSet(Append(s, x)) = ToSet(s) \cup {x}
  BY <1>2, <1>3, <1>4, <1>5, <1>6, ZenonT(60)
<1>8. ASSUME Distinct(s), x \notin ToSet(s) PROVE Distinct(Append(s, x))
  <2>1. Cardinality(ToSet(s) \cup {x}) = Cardinality(ToSet(s)) + 1
    BY <1>8, MembersOf, OneMore, Zenon
  <2> QED
    BY <1>1, <1>7, <1>8, <2>1 DEF Distinct
<1> QED
  BY <1>1, <1>7, <1>8

LEMMA ConcatMembers ==
  ASSUME NEW S, NEW s \in Seq(S), NEW r \in Seq(S)
  PROVE  /\ s \o r \in Seq(S) /\ Len(s \o r) = Len(s) + Len(r)
         /\ ToSet(s \o r) = ToSet(s) \cup ToSet(r)
         /\ Distinct(s) /\ Distinct(r) /\ ToSet(s) \cap ToSet(r) = {} => Distinct(s \o r)
<1>1. s \o r \in Seq(S) /\ Len(s \o r) = Len(s) + Len(r) /\ Len(s) \in Nat /\ Len(r) \in Nat
  OBVIOUS
<1>2. \A i \in 1..(Len(s) + Len(r)) :
        (s \o r)[i] = IF i <= Len(s) THEN s[i] ELSE r[i - Len(s)]
  OBVIOUS
<1>3. ToSet(s \o r) = {(s \o r)[i] : i \in 1..(Len(s) + Len(r))}
  <2>1. ToSet(s \o r) = {(s \o r)[i] : i \in 1..Len(s \o r)}
    BY <1>1, MembersOf, Zenon
  <2> QED
    BY <1>1, <2>1
<1>4. ToSet(s) = {s[i] : i \in 1..Len(s)} /\ ToSet(r) = {r[i] : i \in 1..Len(r)}
  BY MembersOf, Zenon
<1>5. ToSet(s \o r) \subseteq ToSet(s) \cup ToSet(r)
  <2> SUFFICES ASSUME NEW i \in 1..(Len(s) + Len(r))
               PROVE  (s \o r)[i] \in ToSet(s) \cup ToSet(r)
    BY <1>3, Zenon
  <2>1. CASE i <= Len(s)
    <3>1. (s \o r)[i] = s[i] /\ i \in 1..Len(s)
      BY <1>1, <1>2, <2>1
    <3> QED
      BY <1>4, <3>1, Zenon
  <2>2. CASE ~(i <= Len(s))
    <3>1. (s \o r)[i] = r[i - Len(s)] /\ i - Len(s) \in 1..Len(r)
      BY <1>1, <1>2, <2>2
    <3> QED
      BY <1>4, <3>1, Zenon
  <2> QED
    BY <2>1, <2>2
<1>6. ToSet(s) \cup ToSet(r) \subseteq ToSet(s \o r)
  <2>1. ASSUME NEW i \in 1..Len(s) PROVE s[i] \in ToSet(s \o r)
    <3>1. (s \o r)[i] = s[i] /\ i \in 1..(Len(s) + Len(r))
      BY <1>1, <1>2
    <3> QED
      BY <1>3, <3>1, Zenon
  <2>2. ASSUME NEW i \in 1..Len(r) PROVE r[i] \in ToSet(s \o r)
    <3>1. (s \o r)[Len(s) + i] = r[i] /\ Len(s) + i \in 1..(Len(s) + Len(r))
      BY <1>1, <1>2
    <3> QED
      BY <1>3, <3>1, Zenon
  <2> QED
    BY <1>4, <2>1, <2>2, Zenon
<1>7. ASSUME Distinct(s), Distinct(r), ToSet(s) \cap ToSet(r) = {} PROVE Distinct(s \o r)
  <2>1. /\ IsFiniteSet(ToSet(s)) /\ Cardinality(ToSet(s)) \in Nat
        /\ IsFiniteSet(ToSet(r)) /\ Cardinality(ToSet(r)) \in Nat
    BY MembersOf, Zenon
  <2>2. Cardinality(ToSet(s) \cup ToSet(r))
          = Cardinality(ToSet(s)) + Cardinality(ToSet(r)) - Cardinality(ToSet(s) \cap ToSet(r))
    BY <2>1, FS_Union, Zenon
  <2>3. Cardinality(ToSet(s) \cap ToSet(r)) = 0
    BY <1>7, FS_EmptySet
  <2>4. ToSet(s \o r) = ToSet(s) \cup ToSet(r)
    BY <1>5, <1>6, Zenon
  <2> QED
    BY <1>1, <1>7, <2>1, <2>2, <2>3, <2>4 DEF Distinct
<1> QED
  BY <1>1, <1>5, <1>6, <1>7

-----------------------------------------------------------------------------
LEMMA BufferTyped ==
  ASSUME TypeOK
  PROVE  /\ made \in Nat /\ made \in 0..MaxRecords /\ flushed \in Nat /\ dropped \in Nat
         /\ buffer \in Seq(Snapshots) /\ Len(buffer) \in Nat /\ Len(buffer) <= MaxSize
         /\ \A t \in Threads :
              /\ batch[t] \in Seq(Snapshots) /\ read[t] \in Nat /\ handler[t] \in 1..Handlers
              /\ pc[t] \in {"idle", "flush", "hand", "add", "store"}
         /\ \A h \in 1..Handlers : handed[h] \in Seq(Snapshots)
         /\ MaxRecords \in Nat /\ MaxSize \in Nat \ {0} /\ Handlers \in Nat \ {0}
         /\ Handlers \in 1..Handlers
<1>1. buffer \in Seq(Snapshots) /\ Len(buffer) \in Nat
  BY SequenceTyped DEF TypeOK
<1>2. MaxRecords \in Nat /\ MaxSize \in Nat \ {0} /\ Handlers \in Nat \ {0} /\ Handlers \in 1..Handlers
  BY BufferAssumption
<1>3. \A t \in Threads :
        /\ batch[t] \in Seq(Snapshots) /\ read[t] \in Nat /\ handler[t] \in 1..Handlers
        /\ pc[t] \in {"idle", "flush", "hand", "add", "store"}
  BY DEF TypeOK
<1>4. \A h \in 1..Handlers : handed[h] \in Seq(Snapshots)
  BY DEF TypeOK
<1>5. made \in Nat /\ made \in 0..MaxRecords /\ flushed \in Nat /\ dropped \in Nat
  BY <1>2 DEF TypeOK
<1>6. Len(buffer) <= MaxSize
  BY DEF TypeOK
<1> QED
  BY <1>1, <1>2, <1>3, <1>4, <1>5, <1>6

LEMMA BufferParts ==
  ASSUME BufferStrong
  PROVE  TypeOK /\ FullBufferIsFlushed /\ Tidy /\ Apart /\ CountedLast
         /\ \A h \in 1..Handlers : Once(h)
  BY Zenon DEF BufferStrong, InOnePlace

\* The sets the invariant counts are finite.
LEMMA SetsAreFinite ==
  ASSUME BufferStrong
  PROVE  /\ IsFiniteSet(Uncounted) /\ Cardinality(Uncounted) \in Nat
         /\ \A h \in 1..Handlers : /\ Here(h) \subseteq 1..made
                                   /\ IsFiniteSet(Here(h)) /\ Cardinality(Here(h)) \in Nat
<1>1. made \in Nat
  BY BufferParts, BufferTyped, Zenon
<1>2. IsFiniteSet(1..made)
  BY <1>1, FS_Interval
<1>3. Uncounted \subseteq 1..made
  BY BufferParts, Zenon DEF Uncounted, Adding, Apart
<1>4. ASSUME NEW h \in 1..Handlers PROVE Here(h) \subseteq 1..made
  <2>1. ToSet(handed[h]) \subseteq 1..made
    BY BufferParts, Zenon DEF Once
  <2>2. ToSet(buffer) \subseteq 1..made /\ \A t \in Threads : ToSet(batch[t]) \subseteq 1..made
    BY BufferParts, Zenon DEF Apart
  <2>3. Waiting(h) \subseteq 1..made
    BY <2>2, Zenon DEF Waiting, Pending
  <2> QED
    BY <2>1, <2>2, <2>3, Zenon DEF Here
<1>5. \A S \in SUBSET (1..made) : IsFiniteSet(S) /\ Cardinality(S) \in Nat
  BY <1>2, FS_Subset, FS_CardinalityType, Zenon
<1> QED
  BY <1>3, <1>4, <1>5, Zenon

LEMMA BufferStarts == BufferInit => BufferStrong
<1> SUFFICES ASSUME BufferInit PROVE BufferStrong
  OBVIOUS
<1>1. TypeOK
  BY BufferAssumption DEF BufferInit, TypeOK
<1>2. FullBufferIsFlushed
  BY BufferAssumption DEF BufferInit, FullBufferIsFlushed
<1>3. Tidy
  BY DEF BufferInit, Tidy
<1>4. <<>> \in Seq(Snapshots) /\ ToSet(<<>>) = {} /\ Distinct(<<>>)
  <2>1. <<>> \in Seq(Snapshots)
    OBVIOUS
  <2> QED
    BY <2>1, MembersOf, Zenon
<1>5. /\ made = 0 /\ dropped = 0 /\ flushed = 0 /\ buffer = <<>>
      /\ \A t \in Threads : pc[t] = "idle" /\ batch[t] = <<>> /\ read[t] = 0
      /\ \A h \in 1..Handlers : handed[h] = <<>>
  BY DEF BufferInit
<1>6. Apart
  BY <1>4, <1>5 DEF Apart
<1>7. Uncounted = {}
  BY <1>5 DEF Uncounted, Adding
<1>8. CountedLast
  <2>1. Cardinality(Uncounted) = 0
    BY <1>7, FS_EmptySet
  <2> QED
    BY <1>5, <2>1, BufferAssumption DEF CountedLast
<1>9. ASSUME NEW h \in 1..Handlers PROVE Once(h)
  <2>1. Waiting(h) = {}
    BY <1>5 DEF Waiting, Pending
  <2>2. Here(h) = {}
    BY <1>4, <1>5, <2>1 DEF Here
  <2> QED
    BY <1>4, <1>5, <2>1, <2>2, FS_EmptySet DEF Once
<1> QED
  BY <1>1, <1>2, <1>3, <1>6, <1>8, <1>9, Zenon DEF BufferStrong, InOnePlace

\* A step that leaves the snapshots where they are, and drops as many as it makes.
LEMMA StaysApart ==
  ASSUME BufferStrong, made' \in Nat, made <= made', made' - dropped' = made - dropped,
         UNCHANGED <<buffer, batch, handed>>, \A h \in 1..Handlers : Pending(h)' = Pending(h)
  PROVE  InOnePlace'
<1>1. TypeOK /\ Apart /\ \A h \in 1..Handlers : Once(h)
  BY BufferParts
<1>2. 1..made \subseteq 1..made'
  BY <1>1, BufferTyped
<1>3. Apart'
  BY <1>1, <1>2, Zenon DEF Apart, Distinct
<1>4. ASSUME NEW h \in 1..Handlers PROVE Once(h)'
  <2>1. Waiting(h)' = Waiting(h)
    BY <1>4, Zenon DEF Waiting
  <2>2. Here(h)' = Here(h)
    BY <2>1, Zenon DEF Here
  <2>3. Once(h)
    BY <1>1
  <2> QED
    BY <1>2, <2>1, <2>2, <2>3, Zenon DEF Once, Distinct
<1> QED
  BY <1>3, <1>4, Zenon DEF InOnePlace

LEMMA DropKeeps ==
  ASSUME BufferStrong, NEW t \in Threads, Drop(t)
  PROVE  BufferStrong'
<1>1. /\ pc[t] = "idle" /\ made < MaxRecords /\ made' = made + 1 /\ dropped' = dropped + 1
      /\ UNCHANGED <<buffer, flushed, pc, batch, handler, read, handed>>
  BY DEF Drop
<1>2. TypeOK /\ FullBufferIsFlushed /\ Tidy /\ CountedLast
  BY BufferParts
<1>3. TypeOK'
  BY <1>1, <1>2, BufferAssumption DEF TypeOK
<1>4. FullBufferIsFlushed' /\ Tidy'
  BY <1>1, <1>2 DEF FullBufferIsFlushed, Tidy
<1>5. Uncounted' = Uncounted
  BY <1>1 DEF Uncounted, Adding
<1>6. CountedLast'
  BY <1>1, <1>2, <1>5, Zenon DEF CountedLast
<1>7. InOnePlace'
  <2>1. \A h \in 1..Handlers : Pending(h)' = Pending(h)
    BY <1>1 DEF Pending
  <2>2. made' \in Nat /\ made <= made' /\ made' - dropped' = made - dropped
    BY <1>1, <1>2, BufferTyped
  <2> QED
    BY <1>1, <2>1, <2>2, StaysApart, Zenon
<1> QED
  BY <1>3, <1>4, <1>6, <1>7, Zenon DEF BufferStrong

LEMMA RecordKeeps ==
  ASSUME BufferStrong, NEW t \in Threads, Record(t)
  PROVE  BufferStrong'
<1>1. /\ made < MaxRecords /\ Len(buffer) < MaxSize /\ made' = made + 1
      /\ buffer' = Append(buffer, made') /\ pc[t] = "idle"
      /\ UNCHANGED <<dropped, flushed, batch, handler, read, handed>>
  BY DEF Record, Move
<1>2. TypeOK /\ FullBufferIsFlushed /\ Tidy /\ CountedLast /\ Apart /\ \A h \in 1..Handlers : Once(h)
  BY BufferParts
<1>3. made' \in Nat /\ made' \in Snapshots /\ made' \in 0..MaxRecords /\ made' \notin 1..made
      /\ 1..made' = (1..made) \cup {made'} /\ dropped \in Nat
  <2>1. made \in Nat /\ MaxRecords \in Nat /\ dropped \in Nat
    BY <1>2, BufferTyped, Zenon
  <2>2. made' \in Nat /\ made' \in 1..MaxRecords /\ made' \in 0..MaxRecords /\ made' \notin 1..made
    BY <1>1, <2>1
  <2>3. 1..made' = (1..made) \cup {made'}
    BY <1>1, <2>1
  <2> QED
    BY <2>1, <2>2, <2>3 DEF Snapshots
<1>4. /\ buffer' \in Seq(Snapshots) /\ Len(buffer') = Len(buffer) + 1
      /\ ToSet(buffer') = ToSet(buffer) \cup {made'}
      /\ Distinct(buffer) /\ made' \notin ToSet(buffer) => Distinct(buffer')
  <2>1. buffer \in Seq(Snapshots)
    BY <1>2, BufferTyped, Zenon
  <2>2. /\ Append(buffer, made') \in Seq(Snapshots)
        /\ Len(Append(buffer, made')) = Len(buffer) + 1
        /\ ToSet(Append(buffer, made')) = ToSet(buffer) \cup {made'}
        /\ Distinct(buffer) /\ made' \notin ToSet(buffer) => Distinct(Append(buffer, made'))
    <3>1. \A x \in Snapshots :
            /\ Append(buffer, x) \in Seq(Snapshots) /\ Len(Append(buffer, x)) = Len(buffer) + 1
            /\ ToSet(Append(buffer, x)) = ToSet(buffer) \cup {x}
            /\ Distinct(buffer) /\ x \notin ToSet(buffer) => Distinct(Append(buffer, x))
      BY <2>1, AppendMembers, Zenon
    <3> QED
      BY <1>3, <3>1
  <2> QED
    BY <1>1, <2>2
<1>5. /\ pc' = [pc EXCEPT ![t] = "flush"] \/ pc' = [pc EXCEPT ![t] = "idle"]
      /\ Len(buffer') = MaxSize => pc'[t] = "flush"
  <2>1. pc' = [pc EXCEPT ![t] = "flush"] \/ (Len(buffer') < MaxSize /\ pc' = [pc EXCEPT ![t] = "idle"])
    BY DEF Record, Move
  <2>2. Len(buffer') \in Nat /\ MaxSize \in Nat
    BY <1>2, <1>4, BufferTyped
  <2>3. pc \in [Threads -> {"idle", "flush", "hand", "add", "store"}]
    BY <1>2 DEF TypeOK
  <2> QED
    BY <2>1, <2>2, <2>3
<1>6. /\ pc'[t] \in {"idle", "flush"}
      /\ \A u \in Threads : u # t => pc'[u] = pc[u]
      /\ pc' \in [Threads -> {"idle", "flush", "hand", "add", "store"}]
  BY <1>2, <1>5 DEF TypeOK
<1>7. TypeOK'
  <2>1. Len(buffer') <= MaxSize
    BY <1>1, <1>2, <1>4, BufferTyped
  <2> QED
    BY <1>1, <1>2, <1>3, <1>4, <1>6, <2>1 DEF TypeOK
<1>8. FullBufferIsFlushed'
  BY <1>5, Zenon DEF FullBufferIsFlushed
<1>9. Tidy'
  BY <1>1, <1>2, <1>6 DEF Tidy
<1>10. Uncounted' = Uncounted
  <2>1. Adding' = Adding
    BY <1>1, <1>6 DEF Adding
  <2> QED
    BY <1>1, <2>1, Zenon DEF Uncounted
<1>11. CountedLast'
  <2>1. \A u \in Threads : pc'[u] = "store" => pc[u] = "store"
    BY <1>6
  <2> QED
    BY <1>1, <1>2, <1>10, <2>1, Zenon DEF CountedLast
<1>12. Apart'
  <2>1. made' \notin ToSet(buffer) /\ ToSet(buffer) \subseteq 1..made
    BY <1>2, <1>3, Zenon DEF Apart
  <2>2. Distinct(buffer')
    BY <1>2, <1>4, <2>1, Zenon DEF Apart
  <2>3. ToSet(buffer)' \subseteq 1..made'
    BY <1>3, <1>4, <2>1, Zenon
  <2>4. \A u \in Threads :
          /\ Distinct(batch[u]) /\ ToSet(batch[u]) \subseteq 1..made
          /\ ToSet(batch[u]) \cap ToSet(buffer) = {}
    BY <1>2, Zenon DEF Apart
  <2>5. \A u \in Threads :
          /\ Distinct(batch[u]) /\ ToSet(batch[u]) \subseteq 1..made'
          /\ ToSet(batch[u]) \cap ToSet(buffer') = {}
    BY <2>4, <1>3, <1>4
  <2>6. \A u, v \in Threads : u # v => ToSet(batch[u]) \cap ToSet(batch[v]) = {}
    BY <1>2, Zenon DEF Apart
  <2> QED
    BY <1>1, <2>2, <2>3, <2>5, <2>6, Zenon DEF Apart, Distinct
<1>13. ASSUME NEW h \in 1..Handlers PROVE Once(h)'
  <2>1. Waiting(h)' = Waiting(h)
    <3>1. Pending(h)' = Pending(h)
      BY <1>1, <1>6 DEF Pending
    <3> QED
      BY <1>1, <3>1, Zenon DEF Waiting
  <2>2. Here(h)' = Here(h) \cup {made'}
    BY <1>1, <1>4, <2>1, Zenon DEF Here
  <2>3. Once(h)
    BY <1>2
  <2>4. Here(h) \subseteq 1..made /\ IsFiniteSet(Here(h)) /\ Cardinality(Here(h)) \in Nat
    BY SetsAreFinite, Zenon
  <2>5. Cardinality(Here(h)') = Cardinality(Here(h)) + 1
    BY <1>3, <2>2, <2>4, OneMore, Zenon
  <2>6. Cardinality(Here(h)') = made' - dropped
    <3>1. Cardinality(Here(h)) = made - dropped
      BY <2>3, Zenon DEF Once
    <3> QED
      BY <1>1, <1>2, <1>3, <2>4, <2>5, <3>1, BufferTyped
  <2>7. /\ Distinct(handed[h]) /\ ToSet(handed[h]) \subseteq 1..made
        /\ ToSet(handed[h]) \cap ToSet(buffer) = {} /\ ToSet(handed[h]) \cap Waiting(h) = {}
    BY <2>3, Zenon DEF Once
  <2>8. ToSet(handed[h]) \subseteq 1..made' /\ ToSet(handed[h]) \cap ToSet(buffer') = {}
    BY <1>3, <1>4, <2>7
  <2>9. handed' = handed /\ dropped' = dropped
    BY <1>1
  <2> QED
    BY <2>1, <2>6, <2>7, <2>8, <2>9, Zenon DEF Once, Distinct
<1> QED
  BY <1>7, <1>8, <1>9, <1>11, <1>12, <1>13, Zenon DEF BufferStrong, InOnePlace

LEMMA SwapKeeps ==
  ASSUME BufferStrong, NEW t \in Threads, Swap(t)
  PROVE  BufferStrong'
<1>1. /\ pc[t] \in {"idle", "flush"}
      /\ pc' = [pc EXCEPT ![t] = IF buffer = <<>> THEN "idle" ELSE "hand"]
      /\ batch' = [batch EXCEPT ![t] = buffer] /\ buffer' = <<>>
      /\ UNCHANGED <<dropped, flushed, handler, read, made, handed>>
  BY DEF Swap
<1>2. TypeOK /\ FullBufferIsFlushed /\ Tidy /\ CountedLast /\ Apart /\ \A h \in 1..Handlers : Once(h)
  BY BufferParts
<1>3. batch[t] = <<>> /\ handler[t] = 1
  BY <1>1, <1>2 DEF Tidy
<1>4. /\ pc'[t] \in {"idle", "hand"} /\ (buffer # <<>> <=> pc'[t] = "hand")
      /\ \A u \in Threads : u # t => pc'[u] = pc[u] /\ batch'[u] = batch[u]
      /\ batch'[t] = buffer
      /\ pc' \in [Threads -> {"idle", "flush", "hand", "add", "store"}]
  BY <1>1, <1>2 DEF TypeOK
<1>5. /\ <<>> \in Seq(Snapshots) /\ ToSet(<<>>) = {} /\ Distinct(<<>>) /\ Len(<<>>) = 0
      /\ buffer \in Seq(Snapshots) /\ MaxSize \in Nat \ {0}
  <2>1. <<>> \in Seq(Snapshots)
    OBVIOUS
  <2> QED
    BY <1>2, <2>1, BufferTyped, MembersOf, Zenon
<1>6. TypeOK'
  <2>1. batch' \in [Threads -> Seq(Snapshots)]
    BY <1>1, <1>2, <1>5 DEF TypeOK
  <2>2. Len(buffer') <= MaxSize
    BY <1>1, <1>5
  <2>3. buffer' \in Seq(Snapshots)
    BY <1>1, <1>5
  <2> QED
    BY <1>1, <1>2, <1>4, <2>1, <2>2, <2>3 DEF TypeOK
<1>7. FullBufferIsFlushed'
  <2>1. Len(buffer') # MaxSize
    BY <1>1, <1>5
  <2> QED
    BY <2>1 DEF FullBufferIsFlushed
<1>8. Tidy'
  <2>1. \A u \in Threads : u # t => /\ pc[u] \in {"idle", "flush"} => batch[u] = <<>>
                                    /\ pc[u] # "hand" => handler[u] = 1
    BY <1>2 DEF Tidy
  <2> QED
    BY <1>1, <1>3, <1>4, <2>1 DEF Tidy
<1>9. Uncounted' = Uncounted /\ \A u \in Threads : pc'[u] = "store" => pc[u] = "store"
  <2>1. Adding' = Adding /\ t \notin Adding
    BY <1>1, <1>4 DEF Adding
  <2>2. \A u \in Adding : batch'[u] = batch[u]
    BY <1>4, <2>1 DEF Adding
  <2> QED
    BY <1>4, <2>1, <2>2 DEF Uncounted
<1>10. CountedLast'
  BY <1>1, <1>2, <1>9, Zenon DEF CountedLast
<1>11. /\ Distinct(buffer) /\ ToSet(buffer) \subseteq 1..made
       /\ \A u \in Threads : /\ Distinct(batch[u]) /\ ToSet(batch[u]) \subseteq 1..made
                             /\ ToSet(batch[u]) \cap ToSet(buffer) = {}
       /\ \A u, v \in Threads : u # v => ToSet(batch[u]) \cap ToSet(batch[v]) = {}
  BY <1>2, Zenon DEF Apart
<1>12. Apart'
  <2>1. Distinct(buffer') /\ ToSet(buffer') = {}
    BY <1>1, <1>5
  <2>2. \A u \in Threads : /\ Distinct(batch'[u]) /\ ToSet(batch'[u]) \subseteq 1..made
                           /\ ToSet(batch'[u]) \cap ToSet(buffer') = {}
    BY <1>4, <1>11, <2>1
  <2>3. ASSUME NEW u \in Threads, NEW v \in Threads, u # v
        PROVE  ToSet(batch'[u]) \cap ToSet(batch'[v]) = {}
    <3>1. CASE u # t /\ v # t
      BY <1>4, <1>11, <2>3, <3>1
    <3>2. CASE u = t
      BY <1>4, <1>11, <2>3, <3>2
    <3>3. CASE v = t
      BY <1>4, <1>11, <2>3, <3>3
    <3> QED
      BY <3>1, <3>2, <3>3
  <2>4. made' = made
    BY <1>1
  <2> QED
    BY <2>1, <2>2, <2>3, <2>4, Zenon DEF Apart, Distinct
<1>13. ASSUME NEW h \in 1..Handlers PROVE Once(h)'
  <2>1. Waiting(h)' = Waiting(h) \cup ToSet(buffer)
    <3>1. \A u \in Pending(h) : u # t /\ u \in Pending(h)' /\ batch'[u] = batch[u]
      BY <1>1, <1>4 DEF Pending
    <3>2. \A u \in Pending(h)' : u # t => u \in Pending(h) /\ batch'[u] = batch[u]
      BY <1>1, <1>4 DEF Pending
    <3>3. CASE buffer = <<>>
      <4>1. t \notin Pending(h)' /\ ToSet(buffer) = {}
        BY <1>4, <1>5, <3>3 DEF Pending
      <4>2. Pending(h)' = Pending(h)
        BY <3>1, <3>2, <4>1
      <4> QED
        BY <3>1, <4>1, <4>2 DEF Waiting
    <3>4. CASE buffer # <<>>
      <4>1. t \in Pending(h)'
        BY <1>1, <1>3, <1>4, <3>4 DEF Pending
      <4>2. Pending(h)' = Pending(h) \cup {t}
        BY <3>1, <3>2, <4>1
      <4> QED
        BY <1>4, <3>1, <4>2 DEF Waiting
    <3> QED
      BY <3>3, <3>4
  <2>2. /\ Distinct(handed[h]) /\ ToSet(handed[h]) \subseteq 1..made
        /\ ToSet(handed[h]) \cap ToSet(buffer) = {} /\ ToSet(handed[h]) \cap Waiting(h) = {}
        /\ Cardinality(Here(h)) = made - dropped
    BY <1>2, Zenon DEF Once
  <2>3. Here(h)' = Here(h)
    BY <1>1, <1>5, <2>1 DEF Here
  <2>4. ToSet(handed[h]) \cap ToSet(buffer') = {} /\ ToSet(handed[h]) \cap Waiting(h)' = {}
    BY <1>1, <1>5, <2>1, <2>2
  <2>5. handed' = handed /\ made' = made /\ dropped' = dropped
    BY <1>1
  <2> QED
    BY <2>2, <2>3, <2>4, <2>5, Zenon DEF Once, Distinct
<1> QED
  BY <1>6, <1>7, <1>8, <1>10, <1>12, <1>13, Zenon DEF BufferStrong, InOnePlace

\* The handler gets the batch and the batch moves on to the next, or is to be counted.
LEMMA HandKeeps ==
  ASSUME BufferStrong, NEW t \in Threads, Hand(t)
  PROVE  BufferStrong'
<1> SUFFICES ASSUME NEW g \in 1..Handlers, g = handler[t] PROVE BufferStrong'
  BY BufferParts, BufferTyped
<1>1. /\ pc[t] = "hand" /\ handed' = [handed EXCEPT ![g] = @ \o batch[t]]
      /\ UNCHANGED <<buffer, dropped, flushed, batch, read, made>>
      /\ \/ g < Handlers /\ handler' = [handler EXCEPT ![t] = g + 1] /\ pc' = pc
         \/ /\ ~(g < Handlers) /\ handler' = [handler EXCEPT ![t] = 1]
            /\ pc' = [pc EXCEPT ![t] = "add"]
  BY DEF Hand, Move
<1>2. TypeOK /\ FullBufferIsFlushed /\ Tidy /\ CountedLast /\ Apart /\ \A h \in 1..Handlers : Once(h)
  BY BufferParts
<1>3. /\ g \in 1..Handlers /\ handed[g] \in Seq(Snapshots) /\ batch[t] \in Seq(Snapshots)
      /\ Handlers \in Nat \ {0}
  BY <1>2, BufferTyped
<1>4. /\ pc'[t] \in {"hand", "add"} /\ (pc'[t] = "hand" <=> g < Handlers)
      /\ (pc'[t] = "hand" => handler'[t] = g + 1) /\ (pc'[t] = "add" => handler'[t] = 1)
      /\ \A u \in Threads : u # t => pc'[u] = pc[u] /\ handler'[u] = handler[u]
  BY <1>1, <1>2 DEF TypeOK
<1>5. /\ handed[g] \o batch[t] \in Seq(Snapshots)
      /\ Len(handed[g] \o batch[t]) = Len(handed[g]) + Len(batch[t])
      /\ ToSet(handed[g] \o batch[t]) = ToSet(handed[g]) \cup ToSet(batch[t])
      /\ Distinct(handed[g]) /\ Distinct(batch[t]) /\ ToSet(handed[g]) \cap ToSet(batch[t]) = {}
           => Distinct(handed[g] \o batch[t])
  BY <1>3, ConcatMembers, ZenonT(90)
<1>6. /\ handed'[g] = handed[g] \o batch[t]
      /\ \A h \in 1..Handlers : h # g => handed'[h] = handed[h]
  BY <1>1, <1>2, <1>3 DEF TypeOK
<1>7. TypeOK'
  <2>1. handed' \in [1..Handlers -> Seq(Snapshots)]
    BY <1>1, <1>2, <1>5 DEF TypeOK
  <2>2. handler' \in [Threads -> 1..Handlers]
    <3>1. handler \in [Threads -> 1..Handlers]
      BY <1>2 DEF TypeOK
    <3>2. 1 \in 1..Handlers /\ (g < Handlers => g + 1 \in 1..Handlers)
      BY <1>3
    <3>3. \E n \in 1..Handlers : handler' = [handler EXCEPT ![t] = n]
      BY <1>1, <3>2
    <3> QED
      BY <3>1, <3>3
  <2>3. pc' \in [Threads -> {"idle", "flush", "hand", "add", "store"}]
    BY <1>1, <1>2 DEF TypeOK
  <2> QED
    BY <1>1, <1>2, <2>1, <2>2, <2>3 DEF TypeOK
<1>8. FullBufferIsFlushed'
  <2>1. \A u \in Threads : pc[u] = "flush" => pc'[u] = "flush"
    BY <1>1, <1>4
  <2> QED
    BY <1>1, <1>2, <2>1, Zenon DEF FullBufferIsFlushed
<1>9. Tidy'
  BY <1>1, <1>2, <1>4 DEF Tidy
<1>10. /\ Distinct(buffer) /\ ToSet(buffer) \subseteq 1..made
       /\ \A u \in Threads : /\ Distinct(batch[u]) /\ ToSet(batch[u]) \subseteq 1..made
                             /\ ToSet(batch[u]) \cap ToSet(buffer) = {}
       /\ \A u, v \in Threads : u # v => ToSet(batch[u]) \cap ToSet(batch[v]) = {}
  BY <1>2, Zenon DEF Apart
<1>11. Apart'
  <2>1. buffer' = buffer /\ batch' = batch /\ made' = made
    BY <1>1
  <2> QED
    BY <1>2, <2>1, Zenon DEF Apart, Distinct
<1>12. /\ t \in Pending(g) /\ Pending(g)' = Pending(g) \ {t}
       /\ \A h \in 1..Handlers : h # g => Pending(h)' = Pending(h)
  <2>1. \A h \in 1..Handlers : /\ t \in Pending(h) <=> g <= h
                               /\ t \in Pending(h)' <=> g < h
    BY <1>1, <1>3, <1>4 DEF Pending
  <2>2. \A h \in 1..Handlers, u \in Threads : u # t => (u \in Pending(h)' <=> u \in Pending(h))
    BY <1>4 DEF Pending
  <2>3. \A h \in 1..Handlers : Pending(h) \subseteq Threads /\ Pending(h)' \subseteq Threads
    BY DEF Pending
  <2>4. \A h \in 1..Handlers : h # g => (g <= h <=> g < h)
    BY <1>3
  <2>5. g <= g /\ ~(g < g)
    BY <1>3
  <2>6. \A h \in 1..Handlers : h # g => Pending(h)' = Pending(h)
    BY <2>1, <2>2, <2>3, <2>4
  <2> QED
    BY <1>3, <2>1, <2>2, <2>3, <2>5, <2>6
<1>13. ASSUME NEW h \in 1..Handlers, h # g PROVE Once(h)'
  <2>1. /\ Pending(h)' = Pending(h) /\ handed'[h] = handed[h]
        /\ batch' = batch /\ buffer' = buffer /\ made' = made /\ dropped' = dropped
    BY <1>1, <1>6, <1>12, <1>13
  <2>2. Waiting(h)' = Waiting(h)
    BY <2>1, Zenon DEF Waiting
  <2>3. Here(h)' = Here(h)
    BY <2>1, <2>2, Zenon DEF Here
  <2>4. Once(h)
    BY <1>2
  <2> QED
    BY <2>1, <2>2, <2>3, <2>4, Zenon DEF Once, Distinct
<1>14. /\ Distinct(handed[g]) /\ ToSet(handed[g]) \subseteq 1..made
       /\ ToSet(handed[g]) \cap ToSet(buffer) = {} /\ ToSet(handed[g]) \cap Waiting(g) = {}
       /\ Cardinality(Here(g)) = made - dropped
  BY <1>2, <1>3, Zenon DEF Once
<1>15. /\ Waiting(g) = Waiting(g)' \cup ToSet(batch[t])
       /\ Waiting(g)' \cap ToSet(batch[t]) = {}
       /\ ToSet(handed[g]) \cap ToSet(batch[t]) = {}
  <2>1. batch' = batch
    BY <1>1
  <2>2. Waiting(g)' = UNION {ToSet(batch[u]) : u \in Pending(g) \ {t}}
    BY <1>12, <2>1 DEF Waiting
  <2>3. Waiting(g) = Waiting(g)' \cup ToSet(batch[t])
    BY <1>12, <2>2 DEF Waiting
  <2>4. \A u \in Pending(g) \ {t} : ToSet(batch[u]) \cap ToSet(batch[t]) = {}
    BY <1>10 DEF Pending
  <2>5. Waiting(g)' \cap ToSet(batch[t]) = {}
    BY <2>2, <2>4
  <2> QED
    BY <1>14, <2>3, <2>5
<1>16. Once(g)'
  <2>1. Distinct(handed'[g])
    BY <1>5, <1>6, <1>10, <1>14, <1>15, Zenon
  <2>2. ToSet(handed'[g]) = ToSet(handed[g]) \cup ToSet(batch[t])
    BY <1>5, <1>6
  <2>3. /\ ToSet(handed'[g]) \subseteq 1..made /\ ToSet(handed'[g]) \cap ToSet(buffer) = {}
        /\ ToSet(handed'[g]) \cap Waiting(g)' = {}
    BY <2>2, <1>10, <1>14, <1>15
  <2>4. buffer' = buffer /\ made' = made /\ dropped' = dropped
    BY <1>1
  <2>5. Here(g)' = Here(g)
    BY <1>15, <2>2, <2>4 DEF Here
  <2> QED
    BY <1>14, <2>1, <2>3, <2>4, <2>5, Zenon DEF Once, Distinct
<1>17. CountedLast'
  <2>1. /\ flushed' = flushed /\ read' = read
        /\ \A u \in Threads : pc'[u] = "store" => pc[u] = "store"
    BY <1>1, <1>4
  <2>2. /\ flushed + Cardinality(Uncounted) <= Len(handed[Handlers])
        /\ \A u \in Threads : pc[u] = "store" =>
             read[u] + Cardinality(Uncounted) <= Len(handed[Handlers])
    BY <1>2, Zenon DEF CountedLast
  <2>3. Handlers \in 1..Handlers /\ Len(handed[Handlers]) \in Nat /\ Len(batch[t]) \in Nat
        /\ flushed \in Nat /\ \A u \in Threads : read[u] \in Nat
    BY <1>2, <1>3, BufferTyped, SequenceTyped
  <2>4. IsFiniteSet(Uncounted) /\ Cardinality(Uncounted) \in Nat
    BY SetsAreFinite
  <2>5. CASE g < Handlers
    <3>1. handed'[Handlers] = handed[Handlers]
      BY <1>3, <1>6, <2>3, <2>5
    <3>2. Adding' = Adding
      BY <1>1, <1>4, <2>5 DEF Adding
    <3>3. Uncounted' = Uncounted
      BY <1>1, <3>2, Zenon DEF Uncounted
    <3> QED
      BY <2>1, <2>2, <3>1, <3>3, Zenon DEF CountedLast
  <2>6. CASE ~(g < Handlers)
    <3>1. g = Handlers
      BY <1>3, <2>6
    <3>2. Len(handed'[Handlers]) = Len(handed[Handlers]) + Len(batch[t])
      BY <1>5, <1>6, <3>1
    <3>3. Adding' = Adding \cup {t}
      BY <1>1, <1>4, <2>6 DEF Adding
    <3>4. Uncounted' = Uncounted \cup ToSet(batch[t])
      BY <1>1, <3>3 DEF Uncounted
    <3>5. /\ IsFiniteSet(ToSet(batch[t])) /\ Cardinality(ToSet(batch[t])) \in Nat
          /\ Len(batch[t]) = Cardinality(ToSet(batch[t]))
      <4>1. IsFiniteSet(ToSet(batch[t])) /\ Cardinality(ToSet(batch[t])) \in Nat
        BY <1>3, MembersOf, Zenon
      <4> QED
        BY <1>10, <4>1, Zenon DEF Distinct
    <3>6. /\ Cardinality(Uncounted \cup ToSet(batch[t])) =
               Cardinality(Uncounted) + Cardinality(ToSet(batch[t]))
                 - Cardinality(Uncounted \cap ToSet(batch[t]))
      BY <2>4, <3>5, FS_Union, Zenon
    <3>7. Cardinality(Uncounted \cap ToSet(batch[t])) \in Nat
      <4>1. Uncounted \cap ToSet(batch[t]) \in SUBSET Uncounted
        OBVIOUS
      <4> QED
        BY <2>4, <4>1, FS_Subset, FS_CardinalityType, Zenon
    <3>8. /\ Cardinality(Uncounted') <= Cardinality(Uncounted) + Len(batch[t])
          /\ Cardinality(Uncounted') \in Int
      BY <2>4, <3>4, <3>5, <3>6, <3>7
    <3> DEFINE C == Cardinality(Uncounted)
               D == Cardinality(Uncounted')
               L == Len(handed[Handlers])
               b == Len(batch[t])
    <3>a. C \in Nat /\ D \in Int /\ L \in Nat /\ b \in Nat /\ flushed \in Nat /\ D <= C + b
      BY <2>3, <2>4, <3>8
    <3>b. \A n \in Nat : n + C <= L => n + D <= L + b
      <4> HIDE DEF C, D, L, b
      <4> QED
        BY <3>a
    <3>9. flushed' + D <= Len(handed'[Handlers])
      <4>1. flushed' + D <= L + b
        BY <2>1, <2>2, <3>a, <3>b
      <4> QED
        BY <3>2, <4>1
    <3>10. ASSUME NEW u \in Threads, pc'[u] = "store"
           PROVE  read'[u] + Cardinality(Uncounted') <= Len(handed'[Handlers])
      <4>1. read'[u] = read[u] /\ read[u] \in Nat
              /\ read[u] + Cardinality(Uncounted) <= Len(handed[Handlers])
        BY <2>1, <2>2, <2>3, <3>10
      <4>2. read'[u] + D <= L + b
        BY <3>b, <4>1
      <4> QED
        BY <3>2, <4>2
    <3> QED
      BY <3>9, <3>10 DEF CountedLast
  <2> QED
    BY <2>5, <2>6
<1> QED
  BY <1>7, <1>8, <1>9, <1>11, <1>13, <1>16, <1>17, Zenon DEF BufferStrong, InOnePlace

LEMMA ReadKeeps ==
  ASSUME BufferStrong, NEW t \in Threads, ReadFlushed(t)
  PROVE  BufferStrong'
<1>1. /\ pc[t] = "add" /\ pc' = [pc EXCEPT ![t] = "store"]
      /\ read' = [read EXCEPT ![t] = flushed]
      /\ UNCHANGED <<buffer, dropped, flushed, batch, handler, made, handed>>
  BY DEF ReadFlushed, Move
<1>2. TypeOK /\ FullBufferIsFlushed /\ Tidy /\ CountedLast
  BY BufferParts
<1>3. /\ pc'[t] = "store" /\ read'[t] = flushed
      /\ \A u \in Threads : u # t => pc'[u] = pc[u] /\ read'[u] = read[u]
  BY <1>1, <1>2 DEF TypeOK
<1>4. TypeOK'
  BY <1>1, <1>2 DEF TypeOK
<1>5. FullBufferIsFlushed'
  <2>1. \A u \in Threads : pc[u] = "flush" => pc'[u] = "flush"
    BY <1>1, <1>3
  <2> QED
    BY <1>1, <1>2, <2>1, Zenon DEF FullBufferIsFlushed
<1>6. Tidy'
  BY <1>1, <1>2, <1>3 DEF Tidy
<1>7. Uncounted' = Uncounted
  <2>1. Adding' = Adding
    BY <1>1, <1>3 DEF Adding
  <2> QED
    BY <1>1, <2>1, Zenon DEF Uncounted
<1>8. CountedLast'
  BY <1>1, <1>2, <1>3, <1>7 DEF CountedLast
<1>9. InOnePlace'
  <2>1. \A h \in 1..Handlers : Pending(h)' = Pending(h)
    BY <1>1, <1>3 DEF Pending
  <2>2. made' \in Nat /\ made <= made' /\ made' - dropped' = made - dropped
    BY <1>1, <1>2, BufferTyped
  <2> QED
    BY <1>1, <2>1, <2>2, StaysApart, Zenon
<1> QED
  BY <1>4, <1>5, <1>6, <1>8, <1>9, Zenon DEF BufferStrong

LEMMA StoreKeeps ==
  ASSUME BufferStrong, NEW t \in Threads, StoreFlushed(t)
  PROVE  BufferStrong'
<1>1. /\ pc[t] = "store" /\ pc' = [pc EXCEPT ![t] = "idle"]
      /\ flushed' = read[t] + Len(batch[t])
      /\ batch' = [batch EXCEPT ![t] = <<>>] /\ read' = [read EXCEPT ![t] = 0]
      /\ UNCHANGED <<buffer, dropped, handler, made, handed>>
  BY DEF StoreFlushed, Move
<1>2. TypeOK /\ FullBufferIsFlushed /\ Tidy /\ CountedLast /\ Apart /\ \A h \in 1..Handlers : Once(h)
  BY BufferParts
<1>3. /\ pc'[t] = "idle" /\ batch'[t] = <<>>
      /\ \A u \in Threads : u # t => pc'[u] = pc[u] /\ batch'[u] = batch[u] /\ read'[u] = read[u]
  BY <1>1, <1>2 DEF TypeOK
<1>4. /\ <<>> \in Seq(Snapshots) /\ ToSet(<<>>) = {} /\ Distinct(<<>>)
      /\ batch[t] \in Seq(Snapshots) /\ Len(batch[t]) \in Nat /\ read[t] \in Nat
  <2>1. <<>> \in Seq(Snapshots) /\ batch[t] \in Seq(Snapshots) /\ read[t] \in Nat
    BY <1>2, BufferTyped
  <2> QED
    BY <2>1, MembersOf, Zenon
<1>5. TypeOK'
  <2>1. flushed' \in Nat
    BY <1>1, <1>4
  <2>2. batch' \in [Threads -> Seq(Snapshots)] /\ read' \in [Threads -> Nat]
    BY <1>1, <1>2, <1>4 DEF TypeOK
  <2>3. pc' \in [Threads -> {"idle", "flush", "hand", "add", "store"}]
    BY <1>1, <1>2 DEF TypeOK
  <2> QED
    BY <1>1, <1>2, <2>1, <2>2, <2>3 DEF TypeOK
<1>6. FullBufferIsFlushed'
  <2>1. \A u \in Threads : pc[u] = "flush" => pc'[u] = "flush"
    BY <1>1, <1>3
  <2> QED
    BY <1>1, <1>2, <2>1, Zenon DEF FullBufferIsFlushed
<1>7. Tidy'
  BY <1>1, <1>2, <1>3 DEF Tidy
<1>8. /\ Distinct(buffer) /\ ToSet(buffer) \subseteq 1..made
      /\ \A u \in Threads : /\ Distinct(batch[u]) /\ ToSet(batch[u]) \subseteq 1..made
                            /\ ToSet(batch[u]) \cap ToSet(buffer) = {}
      /\ \A u, v \in Threads : u # v => ToSet(batch[u]) \cap ToSet(batch[v]) = {}
  BY <1>2, Zenon DEF Apart
<1>9. Apart'
  <2>1. \A u \in Threads : /\ Distinct(batch'[u]) /\ ToSet(batch'[u]) \subseteq 1..made
                           /\ ToSet(batch'[u]) \cap ToSet(buffer) = {}
    BY <1>3, <1>4, <1>8
  <2>2. \A u, v \in Threads : u # v => ToSet(batch'[u]) \cap ToSet(batch'[v]) = {}
    BY <1>3, <1>4, <1>8
  <2>3. buffer' = buffer /\ made' = made
    BY <1>1
  <2> QED
    BY <1>8, <2>1, <2>2, <2>3, Zenon DEF Apart, Distinct
<1>10. ASSUME NEW h \in 1..Handlers PROVE Once(h)'
  <2>1. Pending(h)' = Pending(h) /\ t \notin Pending(h)
    BY <1>1, <1>3 DEF Pending
  <2>2. \A u \in Pending(h) : batch'[u] = batch[u]
    BY <1>3, <2>1 DEF Pending
  <2>3. Waiting(h)' = Waiting(h)
    BY <2>1, <2>2 DEF Waiting
  <2>4. buffer' = buffer /\ made' = made /\ dropped' = dropped /\ handed' = handed
    BY <1>1
  <2>5. Here(h)' = Here(h)
    BY <2>3, <2>4, Zenon DEF Here
  <2>6. Once(h)
    BY <1>2
  <2> QED
    BY <2>3, <2>4, <2>5, <2>6, Zenon DEF Once, Distinct
<1>11. CountedLast'
  <2>1. /\ read[t] + Cardinality(Uncounted) <= Len(handed[Handlers])
        /\ \A u \in Threads : pc[u] = "store" =>
             read[u] + Cardinality(Uncounted) <= Len(handed[Handlers])
    BY <1>1, <1>2, Zenon DEF CountedLast
  <2>2. Len(handed[Handlers]) \in Nat /\ \A u \in Threads : read[u] \in Nat
    BY <1>2, BufferTyped, SequenceTyped
  <2>3. IsFiniteSet(Uncounted) /\ Cardinality(Uncounted) \in Nat
    BY SetsAreFinite
  <2>4. Adding' = Adding \ {t} /\ t \in Adding
    BY <1>1, <1>3 DEF Adding
  <2>5. Uncounted' = Uncounted \ ToSet(batch[t]) /\ ToSet(batch[t]) \subseteq Uncounted
    <3>1. \A u \in Adding \ {t} : /\ batch'[u] = batch[u]
                                  /\ ToSet(batch[u]) \cap ToSet(batch[t]) = {}
      BY <1>3, <1>8 DEF Adding
    <3>2. Uncounted' = UNION {ToSet(batch[u]) : u \in Adding \ {t}}
      BY <2>4, <3>1 DEF Uncounted
    <3>3. Uncounted = UNION {ToSet(batch[u]) : u \in Adding}
      BY DEF Uncounted
    <3> QED
      BY <2>4, <3>1, <3>2, <3>3
  <2>6. Cardinality(Uncounted \ ToSet(batch[t]))
          = Cardinality(Uncounted) - Cardinality(Uncounted \cap ToSet(batch[t]))
    BY <2>3, FS_Difference, Zenon
  <2>7. Uncounted \cap ToSet(batch[t]) = ToSet(batch[t])
    BY <2>5
  <2>8. Len(batch[t]) = Cardinality(ToSet(batch[t]))
    BY <1>8, Zenon DEF Distinct
  <2>9. Cardinality(Uncounted') = Cardinality(Uncounted) - Len(batch[t])
    BY <2>5, <2>6, <2>7, <2>8
  <2>10. flushed' + Cardinality(Uncounted') <= Len(handed[Handlers])
    BY <1>1, <1>4, <2>1, <2>2, <2>3, <2>9
  <2>11. ASSUME NEW u \in Threads, pc'[u] = "store"
         PROVE  read'[u] + Cardinality(Uncounted') <= Len(handed[Handlers])
    <3>1. u # t /\ pc[u] = "store" /\ read'[u] = read[u]
      BY <1>3, <2>11
    <3>2. read[u] + Cardinality(Uncounted) <= Len(handed[Handlers]) /\ read[u] \in Nat
      BY <2>1, <2>2, <3>1
    <3> QED
      BY <1>4, <2>2, <2>3, <2>9, <3>1, <3>2
  <2>12. handed' = handed
    BY <1>1
  <2> QED
    BY <2>10, <2>11, <2>12 DEF CountedLast
<1> QED
  BY <1>5, <1>6, <1>7, <1>9, <1>10, <1>11, Zenon DEF BufferStrong, InOnePlace

LEMMA BufferSame ==
  ASSUME BufferStrong, UNCHANGED bufferVars
  PROVE  BufferStrong'
<1>1. UNCHANGED <<buffer, dropped, flushed, pc, batch, handler, read, made, handed>>
  BY DEF bufferVars
<1>2. TypeOK /\ FullBufferIsFlushed /\ Tidy /\ CountedLast
  BY BufferParts
<1>3. TypeOK' /\ FullBufferIsFlushed' /\ Tidy'
  BY <1>1, <1>2 DEF TypeOK, FullBufferIsFlushed, Tidy
<1>4. Uncounted' = Uncounted /\ \A h \in 1..Handlers : Pending(h)' = Pending(h)
  BY <1>1 DEF Uncounted, Adding, Pending
<1>5. CountedLast'
  BY <1>1, <1>2, <1>4, Zenon DEF CountedLast
<1>6. InOnePlace'
  <2>1. made' \in Nat /\ made <= made' /\ made' - dropped' = made - dropped
    BY <1>1, <1>2, BufferTyped
  <2> QED
    BY <1>1, <1>4, <2>1, StaysApart, Zenon
<1> QED
  BY <1>3, <1>5, <1>6, Zenon DEF BufferStrong

\* Every operation of the buffer keeps it, in whatever thread.
LEMMA BufferKeeps ==
  ASSUME BufferStrong, NEW t \in Threads,
         Drop(t) \/ Record(t) \/ Swap(t) \/ FinishFlush(t) \/ Continue(t)
  PROVE  BufferStrong'
  BY DropKeeps, RecordKeeps, SwapKeeps, HandKeeps, ReadKeeps, StoreKeeps, Zenon
     DEF FinishFlush, Continue

-----------------------------------------------------------------------------
LEMMA UptoGrows ==
  /\ Upto(0) = <<>>
  /\ \A n \in Nat : n > 0 => Upto(n - 1) \o <<n>> = Upto(n)
<1>1. Upto(0) = <<>>
  BY DEF Upto
<1>2. ASSUME NEW n \in Nat, n > 0 PROVE Upto(n - 1) \o <<n>> = Upto(n)
  <2>1. Upto(n - 1) \in Seq(Nat) /\ Len(Upto(n - 1)) = n - 1
    BY <1>2 DEF Upto
  <2>2. <<n>> \in Seq(Nat) /\ Len(<<n>>) = 1 /\ <<n>>[1] = n
    OBVIOUS
  <2>3. Upto(n) \in Seq(Nat) /\ Len(Upto(n)) = n
    BY <1>2 DEF Upto
  <2>4. Upto(n - 1) \o <<n>> \in Seq(Nat) /\ Len(Upto(n - 1) \o <<n>>) = n
    BY <1>2, <2>1, <2>2
  <2>5. ASSUME NEW i \in 1..n PROVE (Upto(n - 1) \o <<n>>)[i] = Upto(n)[i]
    <3>1. Upto(n)[i] = i
      BY <2>5 DEF Upto
    <3>2. CASE i = n
      <4>1. (Upto(n - 1) \o <<n>>)[i] = <<n>>[i - (n - 1)] /\ i - (n - 1) = 1
        BY <1>2, <2>1, <2>2, <3>2
      <4> QED
        BY <2>2, <3>1, <3>2, <4>1
    <3>3. CASE i # n
      <4>1. i \in 1..(n - 1)
        BY <1>2, <3>3
      <4>2. (Upto(n - 1) \o <<n>>)[i] = Upto(n - 1)[i]
        BY <2>1, <2>2, <4>1
      <4>3. Upto(n - 1)[i] = i
        BY <4>1 DEF Upto
      <4> QED
        BY <3>1, <4>2, <4>3
    <3> QED
      BY <3>2, <3>3
  <2> QED
    BY <2>3, <2>4, <2>5, SeqEqual, Zenon
<1> QED
  BY <1>1, <1>2

LEMMA RunnersFinite ==
  /\ IsFiniteSet(Recording) /\ Cardinality(Recording) \in Nat
  /\ Owner \in Threads /\ Owner \notin Runners /\ Runners \subseteq Threads
  /\ NoThread \notin Runners /\ MaxStarts \in Nat
<1>1. MaxStarts \in Nat /\ Owner \in Threads /\ Owner \notin Runners /\ Runners \subseteq Threads
      /\ NoThread \notin Runners
  BY ExporterAssumption DEF Owner, Runners, NoThread
<1>2. IsFiniteSet(Runners)
  BY <1>1, FS_Interval DEF Runners
<1>3. Recording \in SUBSET Runners
  BY DEF Recording
<1> QED
  BY <1>1, <1>2, <1>3, FS_Subset, FS_CardinalityType

LEMMA ExporterStarts == UsesInit => ExporterStrong
<1> SUFFICES ASSUME UsesInit PROVE ExporterStrong
  OBVIOUS
<1>1. BufferInit /\ stopSet = FALSE /\ thread = NoThread /\ snapshotCount = 0
      /\ owner = "idle" /\ place = [r \in Runners |-> "new"] /\ started = 0 /\ timedOut = FALSE
  BY DEF UsesInit, Init
<1>2. BufferStrong
  BY <1>1, BufferStarts
<1>3. Recording = {} /\ \A r \in Runners : ~Busy(r) /\ ~Alive(r)
  BY <1>1 DEF Recording, Busy, Alive
<1>4. RunnersStrong
  <2>1. Cardinality(Recording) = 0
    BY <1>3, FS_EmptySet
  <2>2. made = 0
    BY <1>1 DEF BufferInit
  <2>3. snapshotCount \in Nat /\ snapshotCount + Cardinality(Recording) <= made
    BY <1>1, <2>1, <2>2
  <2>4. started \in 0..MaxStarts
    BY <1>1, RunnersFinite
  <2>5. place \in [Runners -> {"new", "looping", "waiting", "capturing", "recording",
                               "flushing", "dead"}]
    BY <1>1
  <2> QED
    BY <1>1, <2>3, <2>4, <2>5 DEF RunnersStrong
<1>5. OneAlive
  BY <1>1, <1>3 DEF OneAlive
<1>6. AtWork
  <2>1. AtRest /\ made = 0 /\ \A t \in Threads : pc[t] = "idle"
    BY <1>1, UptoGrows DEF BufferInit, AtRest
  <2> QED
    BY <1>1, <1>3, <2>1 DEF AtWork
<1> QED
  BY <1>1, <1>2, <1>4, <1>5, <1>6 DEF ExporterStrong

\* What a step of an exporter does to the threads: nothing, or it moves one of them.
LEMMA RunnersKeep ==
  ASSUME BufferStrong, RunnersStrong, ExporterNext
  PROVE  RunnersStrong'
<1> DEFINE Places == {"new", "looping", "waiting", "capturing", "recording", "flushing", "dead"}
           Owners == {"idle", "joining", "flushing", "closing"}
<1>1. /\ stopSet \in BOOLEAN /\ thread \in Runners \cup {NoThread} /\ snapshotCount \in Nat
      /\ owner \in Owners /\ place \in [Runners -> Places]
      /\ started \in 0..MaxStarts /\ timedOut \in BOOLEAN
      /\ snapshotCount + Cardinality(Recording) <= made /\ made \in Nat
      /\ MaxStarts \in Nat /\ Cardinality(Recording) \in Nat
  BY BufferParts, BufferTyped, RunnersFinite DEF RunnersStrong
<1>2. ASSUME /\ UNCHANGED <<snapshotCount, made>>
             /\ \A r \in Runners : place'[r] = "recording" <=> place[r] = "recording",
             stopSet' \in BOOLEAN, thread' \in Runners \cup {NoThread},
             owner' \in Owners, place' \in [Runners -> Places],
             started' \in 0..MaxStarts, timedOut' \in BOOLEAN
      PROVE  RunnersStrong'
  <2>1. Recording' = Recording
    BY <1>2 DEF Recording
  <2> QED
    BY <1>1, <1>2, <2>1, Zenon DEF RunnersStrong
<1>3. CASE Start
  <2>1. /\ stopSet' = FALSE /\ started' = started + 1 /\ thread' = started + 1
        /\ started < MaxStarts /\ place[started + 1] = "new"
        /\ place' = [place EXCEPT ![started + 1] = "looping"]
        /\ UNCHANGED <<snapshotCount, owner, timedOut, made>>
    BY <1>3 DEF Start, Reach, bufferVars
  <2>2. started' \in 0..MaxStarts /\ thread' \in Runners
    BY <1>1, <2>1 DEF Runners
  <2>3. place' \in [Runners -> Places]
    BY <1>1, <2>1
  <2>4. \A r \in Runners : place'[r] = "recording" <=> place[r] = "recording"
    BY <1>1, <2>1
  <2> QED
    BY <1>1, <1>2, <2>1, <2>2, <2>3, <2>4
<1>4. CASE Stop \/ Join \/ JoinTimesOut \/ FlushRest \/ Stopped \/ FlushGoesOn
  <2>1. /\ UNCHANGED <<snapshotCount, place, started, made>>
        /\ stopSet' \in BOOLEAN /\ thread' \in Runners \cup {NoThread}
        /\ owner' \in Owners /\ timedOut' \in BOOLEAN
    BY <1>1, <1>4 DEF Stop, Join, JoinTimesOut, Forget, FlushRest, Stopped, FlushGoesOn,
         FinishFlush, Hand, ReadFlushed, StoreFlushed, Swap, bufferVars, exporterVars
  <2> QED
    BY <1>1, <1>2, <2>1, Zenon
<1>5. ASSUME NEW r \in Runners, TestLoop(r) \/ EndWait(r) \/ Flushed(r) \/ GoOn(r)
      PROVE  RunnersStrong'
  <2>1. /\ UNCHANGED <<snapshotCount, stopSet, thread, owner, started, timedOut, made>>
        /\ \/ UNCHANGED place
           \/ /\ place[r] # "recording"
              /\ \E p \in Places \ {"recording"} : place' = [place EXCEPT ![r] = p]
    BY <1>5 DEF TestLoop, EndWait, Flushed, GoOn, Reach, Continue, FinishFlush,
         Hand, ReadFlushed, StoreFlushed, Swap, bufferVars, exporterVars
  <2>2. place' \in [Runners -> Places]
    BY <1>1, <2>1
  <2>3. \A s \in Runners : place'[s] = "recording" <=> place[s] = "recording"
    BY <1>1, <2>1
  <2> QED
    BY <1>1, <1>2, <2>1, <2>2, <2>3
<1>6. ASSUME NEW r \in Runners, Capture(r) PROVE RunnersStrong'
  <2>1. /\ place[r] = "capturing" /\ place' = [place EXCEPT ![r] = "recording"]
        /\ made' = made + 1
        /\ UNCHANGED <<stopSet, thread, snapshotCount, owner, started, timedOut>>
    BY <1>6 DEF Capture, Reach, Record, Drop
  <2>2. place' \in [Runners -> Places]
    BY <1>1, <2>1
  <2>3. Recording' = Recording \cup {r} /\ r \notin Recording
    BY <1>1, <2>1 DEF Recording
  <2>4. Cardinality(Recording') = Cardinality(Recording) + 1
    BY <2>3, RunnersFinite, OneMore
  <2>5. snapshotCount' + Cardinality(Recording') <= made'
    BY <1>1, <2>1, <2>4
  <2> QED
    BY <1>1, <2>1, <2>2, <2>5 DEF RunnersStrong
<1>7. ASSUME NEW r \in Runners, CountAndFlush(r) PROVE RunnersStrong'
  <2>1. /\ place[r] = "recording" /\ place' = [place EXCEPT ![r] = "flushing"]
        /\ snapshotCount' = snapshotCount + 1
        /\ UNCHANGED <<stopSet, thread, owner, started, timedOut, made>>
    BY <1>7 DEF CountAndFlush, Reach, Swap
  <2>2. place' \in [Runners -> Places]
    BY <1>1, <2>1
  <2>3. Recording' = Recording \ {r} /\ r \in Recording
    BY <1>1, <2>1 DEF Recording
  <2>4. Cardinality(Recording') = Cardinality(Recording) - 1
    BY <2>3, RunnersFinite, OneLess
  <2>5. snapshotCount' \in Nat /\ snapshotCount' + Cardinality(Recording') <= made'
    BY <1>1, <2>1, <2>4
  <2> QED
    BY <1>1, <2>1, <2>2, <2>5 DEF RunnersStrong
<1> QED
  BY <1>3, <1>4, <1>5, <1>6, <1>7, Zenon DEF ExporterNext, OwnerGoesOn, Run

\* The buffer of an exporter is used as a buffer may be.
LEMMA ExporterBuffer ==
  ASSUME BufferStrong, ExporterNext
  PROVE  BufferStrong'
<1>1. CASE Start \/ Stop \/ Join \/ JoinTimesOut \/ Stopped
  BY <1>1, BufferSame, Zenon DEF Start, Stop, Join, JoinTimesOut, Forget, Stopped
<1>2. CASE FlushRest \/ FlushGoesOn
  BY <1>2, BufferKeeps, RunnersFinite, Zenon DEF FlushRest, FlushGoesOn
<1>3. ASSUME NEW r \in Runners, Run(r) PROVE BufferStrong'
  <2>1. r \in Threads
    BY RunnersFinite
  <2>2. UNCHANGED bufferVars \/ Record(r) \/ Drop(r) \/ Swap(r) \/ Continue(r)
    BY <1>3, Zenon DEF Run, TestLoop, EndWait, Capture, CountAndFlush, Flushed, GoOn
  <2> QED
    BY <2>1, <2>2, BufferKeeps, BufferSame, Zenon
<1> QED
  BY <1>1, <1>2, <1>3, Zenon DEF ExporterNext, OwnerGoesOn

LEMMA OneAliveKeeps ==
  ASSUME RunnersStrong, OneAlive, ExporterNext, ~timedOut'
  PROVE  OneAlive'
<1>1. /\ \A r \in Runners : Alive(r) => r = thread
      /\ stopSet /\ owner # "joining" => thread = NoThread
      /\ owner = "joining" => thread # NoThread
      /\ owner # "idle" => stopSet
  BY DEF OneAlive
<1>2. /\ place \in [Runners -> {"new", "looping", "waiting", "capturing", "recording",
                                "flushing", "dead"}]
      /\ stopSet \in BOOLEAN /\ started \in Nat /\ NoThread \notin Runners
      /\ thread \in Runners \cup {NoThread}
  BY RunnersFinite DEF RunnersStrong
<1>3. CASE Start
  <2>1. /\ owner = "idle" /\ owner' = owner /\ stopSet' = FALSE /\ thread' = started + 1
        /\ thread # NoThread => ~Alive(thread)
        /\ place' = [place EXCEPT ![started + 1] = "looping"]
    BY <1>3 DEF Start, Reach
  <2>2. \A r \in Runners : ~Alive(r)
    BY <1>1, <1>2, <2>1
  <2>3. \A r \in Runners : r # started + 1 => ~Alive(r)'
    BY <1>2, <2>1, <2>2 DEF Alive
  <2> QED
    BY <2>1, <2>3 DEF OneAlive
<1>4. CASE Stop
  BY <1>1, <1>4 DEF Stop, OneAlive, Alive
<1>5. CASE Join
  <2>1. \A r \in Runners : ~Alive(r)
    BY <1>1, <1>5 DEF Join
  <2>2. owner = "joining" /\ owner' = "flushing" /\ thread' = NoThread /\ UNCHANGED <<stopSet, place>>
    BY <1>5 DEF Join, Forget
  <2>3. stopSet
    BY <1>1, <2>2
  <2> QED
    BY <2>1, <2>2, <2>3 DEF OneAlive, Alive
<1>6. CASE FlushRest \/ Stopped \/ FlushGoesOn
  BY <1>1, <1>6 DEF FlushRest, Stopped, FlushGoesOn, exporterVars, OneAlive, Alive
<1>7. ASSUME NEW r \in Runners, Run(r) PROVE OneAlive'
  <2>1. /\ UNCHANGED <<stopSet, thread, owner>>
        /\ \/ UNCHANGED place
           \/ Alive(r) /\ \E p : place' = [place EXCEPT ![r] = p]
    BY <1>7 DEF Run, TestLoop, EndWait, Capture, CountAndFlush, Flushed, GoOn, Reach,
         exporterVars, Alive
  <2>2. \A s \in Runners : Alive(s)' => Alive(s)
    BY <1>2, <2>1 DEF Alive
  <2> QED
    BY <1>1, <2>1, <2>2 DEF OneAlive
<1> QED
  BY <1>3, <1>4, <1>5, <1>6, <1>7 DEF ExporterNext, OwnerGoesOn, JoinTimesOut

\* A step that leaves the buffer and the threads at work on it alone.
LEMMA WorkSame ==
  ASSUME AtWork, UNCHANGED <<bufferVars, snapshotCount>>,
         \A r \in Runners : Busy(r) \/ Busy(r)' => place'[r] = place[r]
  PROVE  AtWork'
<1>1. UNCHANGED <<buffer, dropped, flushed, pc, batch, handler, read, made, handed>>
  BY DEF bufferVars
<1>2. /\ \A t \in Threads : pc[t] # "idle" => t \in Runners /\ Busy(t)
      /\ (\A r \in Runners : ~Busy(r)) => AtRest /\ snapshotCount = made
      /\ \A r \in Runners : Busy(r) => BusyOn(r)
  BY Zenon DEF AtWork
<1>3. \A r \in Runners : Busy(r)' <=> Busy(r)
  BY DEF Busy
<1>4. AtRest' <=> AtRest
  BY <1>1 DEF AtRest
<1>5. \A r \in Runners : Moving(r)' <=> Moving(r)
  BY <1>1, <1>4 DEF Moving, LastBuffered, LastInBatch
<1>6. \A r \in Runners : Busy(r)' => BusyOn(r)'
  BY <1>1, <1>2, <1>3, <1>4, <1>5 DEF BusyOn
<1>7. \A t \in Threads : pc'[t] # "idle" => t \in Runners /\ Busy(t)'
  BY <1>1, <1>2, <1>3
<1>8. (\A r \in Runners : ~Busy(r)') => AtRest' /\ snapshotCount' = made'
  BY <1>1, <1>2, <1>3, <1>4
<1> QED
  BY <1>6, <1>7, <1>8, Zenon DEF AtWork

\* A step of the one thread at work.
LEMMA WorkOfOne ==
  ASSUME RunnersStrong, AtWork, NEW r \in Runners, \A s \in Runners : Busy(s) => s = r,
         \A t \in Threads : t # r => pc'[t] = pc[t],
         \A s \in Runners : s # r => place'[s] = place[s],
         Busy(r)', BusyOn(r)'
  PROVE  AtWork'
<1>1. \A s \in Runners : Busy(s)' => s = r
  BY DEF Busy
<1>2. \A t \in Threads : t # r => pc[t] = "idle"
  BY Zenon DEF AtWork
<1>3. \A t \in Threads : pc'[t] # "idle" => t = r
  BY <1>2
<1>4. \A t \in Threads : pc'[t] # "idle" => t \in Runners /\ Busy(t)'
  BY <1>3
<1>5. \A s \in Runners : Busy(s)' => BusyOn(s)'
  BY <1>1
<1>6. (\A s \in Runners : ~Busy(s)') => AtRest' /\ snapshotCount' = made'
  OBVIOUS
<1> QED
  BY <1>4, <1>5, <1>6, Zenon DEF AtWork

LEMMA CaptureWorks ==
  ASSUME BufferStrong, RunnersStrong, OneAlive, AtWork, NEW r \in Runners, Capture(r)
  PROVE  AtWork'
<1>1. /\ place[r] = "capturing" /\ place' = [place EXCEPT ![r] = "recording"]
      /\ Record(r) \/ Drop(r)
      /\ snapshotCount' = snapshotCount
  BY DEF Capture, Reach
<1>2. /\ TypeOK /\ made \in Nat /\ flushed \in Nat /\ MaxSize \in Nat \ {0} /\ r \in Threads
      /\ \A s \in Runners : Alive(s) => s = thread
  BY BufferParts, BufferTyped, RunnersFinite DEF OneAlive
<1>3. \A s \in Runners : ~Busy(s)
  BY <1>1, <1>2 DEF Busy, Alive
<1>4. AtRest /\ snapshotCount = made
  BY <1>3, Zenon DEF AtWork
<1>5. ~Drop(r)
  BY <1>2, <1>4 DEF Drop, AtRest
<1>6. /\ made' = made + 1 /\ buffer' = Append(buffer, made')
      /\ pc[r] = "idle" /\ \E l \in {"idle", "flush"} : pc' = [pc EXCEPT ![r] = l]
      /\ snapshotCount' = snapshotCount /\ UNCHANGED <<flushed, handed>>
  BY <1>1, <1>5 DEF Record, Move, Capture
<1>7. LastBuffered'
  <2>1. made' - 1 = made /\ made' > 0 /\ made' \in Nat
    BY <1>2, <1>6
  <2>2. buffer' = <<made'>>
    BY <1>4, <1>6 DEF AtRest
  <2>3. flushed' = made' - 1 /\ \A h \in 1..Handlers : handed'[h] = Upto(made' - 1)
    BY <1>4, <1>6, <2>1 DEF AtRest
  <2> QED
    BY <2>1, <2>2, <2>3 DEF LastBuffered
<1>8. pc'[r] \in {"idle", "flush"} /\ \A t \in Threads : t # r => pc'[t] = pc[t]
  BY <1>2, <1>6 DEF TypeOK
<1>9. place'[r] = "recording" /\ \A s \in Runners : s # r => place'[s] = place[s]
  BY <1>1 DEF RunnersStrong
<1>10. Moving(r)'
  BY <1>7, <1>8 DEF Moving
<1>11. BusyOn(r)'
  BY <1>4, <1>6, <1>9, <1>10 DEF BusyOn
<1>12. Busy(r)'
  BY <1>9 DEF Busy
<1> QED
  BY <1>3, <1>8, <1>9, <1>11, <1>12, WorkOfOne, Zenon

\* The swap of a thread that is at work.
LEMMA SwapWorks ==
  ASSUME BufferStrong, NEW t \in Threads, Swap(t), Moving(t)
  PROVE  /\ Moving(t)' /\ (pc'[t] = "idle" => AtRest') /\ made' = made
         /\ \A u \in Threads : u # t => pc'[u] = pc[u]
<1>1. /\ pc[t] \in {"idle", "flush"}
      /\ pc' = [pc EXCEPT ![t] = IF buffer = <<>> THEN "idle" ELSE "hand"]
      /\ batch' = [batch EXCEPT ![t] = buffer] /\ buffer' = <<>>
      /\ UNCHANGED <<dropped, flushed, handler, read, made, handed>>
  BY DEF Swap
<1>2. TypeOK /\ handler[t] = 1 /\ Handlers \in Nat
  BY <1>1, BufferParts, BufferTyped DEF Tidy
<1>3. /\ pc'[t] = IF buffer = <<>> THEN "idle" ELSE "hand"
      /\ batch'[t] = buffer /\ \A u \in Threads : u # t => pc'[u] = pc[u]
  BY <1>1, <1>2 DEF TypeOK
<1>4. CASE buffer = <<>>
  <2>1. AtRest
    <3>1. ~LastBuffered
      BY <1>4 DEF LastBuffered
    <3> QED
      BY <1>1, <3>1, Zenon DEF Moving
  <2>2. AtRest'
    BY <1>1, <2>1 DEF AtRest
  <2>3. pc'[t] = "idle" /\ made' = made
    BY <1>1, <1>3, <1>4
  <2> QED
    BY <1>3, <2>2, <2>3, Zenon DEF Moving
<1>5. CASE buffer # <<>>
  <2>1. LastBuffered
    BY <1>1, <1>5 DEF Moving, AtRest
  <2>2. pc'[t] = "hand" /\ made' = made /\ handler' = handler /\ handed' = handed
        /\ flushed' = flushed
    BY <1>1, <1>3, <1>5
  <2>3. \A h \in 1..Handlers : ~(h < handler[t])
    BY <1>2
  <2>4. LastInBatch(t)'
    BY <1>1, <1>3, <2>1, <2>2, <2>3 DEF LastBuffered, LastInBatch
  <2> QED
    BY <1>3, <2>2, <2>4 DEF Moving
<1> QED
  BY <1>4, <1>5

\* A thread at work hands out, and counts, what it has taken from the buffer.
LEMMA FinishWorks ==
  ASSUME BufferStrong, NEW t \in Threads, FinishFlush(t), Moving(t)
  PROVE  /\ Moving(t)' /\ (pc'[t] = "idle" => AtRest') /\ made' = made
         /\ \A u \in Threads : u # t => pc'[u] = pc[u]
<1>1. /\ TypeOK /\ Handlers \in Nat \ {0} /\ handler[t] \in 1..Handlers /\ made \in Nat
      /\ \A u \in Threads : handler[u] \in 1..Handlers
  BY BufferParts, BufferTyped
<1>2. pc[t] \in {"hand", "add", "store"}
  BY DEF FinishFlush, Hand, ReadFlushed, StoreFlushed, Move
<1>3. LastInBatch(t)
  BY <1>2 DEF Moving
<1>4. /\ made > 0 /\ batch[t] = <<made>> /\ buffer = <<>> /\ flushed = made - 1
      /\ pc[t] = "store" => read[t] = made - 1
      /\ \A h \in 1..Handlers :
           /\ pc[t] # "hand" \/ h < handler[t] => handed[h] = Upto(made)
           /\ pc[t] = "hand" /\ ~(h < handler[t]) => handed[h] = Upto(made - 1)
  BY <1>3, Zenon DEF LastInBatch
<1>5. CASE Hand(t)
  <2> SUFFICES ASSUME NEW g \in 1..Handlers, g = handler[t]
               PROVE  /\ LastInBatch(t)' /\ pc'[t] \in {"hand", "add"} /\ made' = made
                      /\ \A u \in Threads : u # t => pc'[u] = pc[u]
    BY <1>1 DEF Moving
  <2>1. /\ pc[t] = "hand" /\ handed' = [handed EXCEPT ![g] = @ \o batch[t]]
        /\ UNCHANGED <<buffer, dropped, flushed, batch, read, made>>
        /\ \/ g < Handlers /\ handler' = [handler EXCEPT ![t] = g + 1] /\ pc' = pc
           \/ /\ ~(g < Handlers) /\ handler' = [handler EXCEPT ![t] = 1]
              /\ pc' = [pc EXCEPT ![t] = "add"]
    BY <1>5 DEF Hand, Move
  <2>2. /\ pc'[t] \in {"hand", "add"} /\ (pc'[t] = "hand" <=> g < Handlers)
        /\ pc'[t] = "hand" => handler'[t] = g + 1
        /\ \A u \in Threads : u # t => pc'[u] = pc[u]
    BY <1>1, <2>1 DEF TypeOK
  <2>3. /\ \A h \in 1..Handlers : h # g => handed'[h] = handed[h]
        /\ handed'[g] = handed[g] \o batch[t]
    BY <1>1, <2>1 DEF TypeOK
  <2>4. handed'[g] = Upto(made)
    <3>1. ~(g < g)
      BY <1>1
    <3>2. handed[g] = Upto(made - 1)
      BY <1>4, <2>1, <3>1
    <3> QED
      BY <1>1, <1>4, <2>3, <3>2, UptoGrows
  <2>5. \A h \in 1..Handlers : h < g => handed'[h] = Upto(made)
    BY <1>1, <1>4, <2>1, <2>3
  <2>6. ASSUME NEW h \in 1..Handlers
        PROVE  /\ pc'[t] # "hand" \/ h < handler'[t] => handed'[h] = Upto(made)
               /\ pc'[t] = "hand" /\ ~(h < handler'[t]) => handed'[h] = Upto(made - 1)
    <3>1. CASE h < g
      BY <1>1, <2>2, <2>5, <3>1
    <3>2. CASE h = g
      BY <1>1, <2>2, <2>4, <3>2
    <3>3. CASE h > g
      <4>1. g < Handlers /\ h # g /\ ~(h < g + 1) /\ ~(h < g)
        BY <1>1, <3>3
      <4>2. pc'[t] = "hand" /\ handler'[t] = g + 1
        BY <2>2, <4>1
      <4>3. handed'[h] = Upto(made - 1)
        BY <1>4, <2>1, <2>3, <4>1
      <4> QED
        BY <4>1, <4>2, <4>3
    <3> QED
      BY <1>1, <3>1, <3>2, <3>3
  <2>7. made' = made /\ batch' = batch /\ buffer' = buffer /\ flushed' = flushed
    BY <2>1
  <2>8. LastInBatch(t)'
    BY <1>4, <2>2, <2>6, <2>7 DEF LastInBatch
  <2> QED
    BY <2>2, <2>7, <2>8
<1>6. CASE ReadFlushed(t)
  <2>1. /\ pc[t] = "add" /\ pc' = [pc EXCEPT ![t] = "store"]
        /\ read' = [read EXCEPT ![t] = flushed]
        /\ UNCHANGED <<buffer, dropped, flushed, batch, handler, made, handed>>
    BY <1>6 DEF ReadFlushed, Move
  <2>2. /\ pc'[t] = "store" /\ read'[t] = flushed
        /\ \A u \in Threads : u # t => pc'[u] = pc[u]
    BY <1>1, <2>1 DEF TypeOK
  <2>3. LastInBatch(t)'
    BY <1>4, <2>1, <2>2 DEF LastInBatch
  <2> QED
    BY <2>1, <2>2, <2>3 DEF Moving
<1>7. CASE StoreFlushed(t)
  <2>1. /\ pc[t] = "store" /\ pc' = [pc EXCEPT ![t] = "idle"]
        /\ flushed' = read[t] + Len(batch[t])
        /\ UNCHANGED <<buffer, dropped, handler, made, handed>>
    BY <1>7 DEF StoreFlushed, Move
  <2>2. pc'[t] = "idle" /\ \A u \in Threads : u # t => pc'[u] = pc[u]
    BY <1>1, <2>1 DEF TypeOK
  <2>3. flushed' = made
    <3>1. Len(batch[t]) = 1
      BY <1>4
    <3> QED
      BY <1>1, <1>4, <2>1, <3>1
  <2>4. AtRest'
    BY <1>4, <2>1, <2>3 DEF AtRest
  <2> QED
    BY <2>1, <2>2, <2>4 DEF Moving
<1> QED
  BY <1>5, <1>6, <1>7 DEF FinishFlush, Moving

LEMMA AtWorkKeeps ==
  ASSUME BufferStrong, RunnersStrong, OneAlive, AtWork, ExporterNext, ~timedOut'
  PROVE  AtWork'
<1>1. /\ place \in [Runners -> {"new", "looping", "waiting", "capturing", "recording",
                                "flushing", "dead"}]
      /\ NoThread \notin Runners /\ Runners \subseteq Threads
      /\ Owner \in Threads /\ Owner \notin Runners
  BY RunnersFinite DEF RunnersStrong
<1>2. /\ \A r \in Runners : Alive(r) => r = thread
      /\ stopSet /\ owner # "joining" => thread = NoThread
      /\ owner # "idle" => stopSet
  BY DEF OneAlive
<1>3. /\ \A t \in Threads : pc[t] # "idle" => t \in Runners /\ Busy(t)
      /\ (\A r \in Runners : ~Busy(r)) => AtRest /\ snapshotCount = made
      /\ \A r \in Runners : Busy(r) => BusyOn(r)
  BY Zenon DEF AtWork
<1>4. \A r \in Runners : Busy(r) => Alive(r)
  BY <1>1 DEF Busy, Alive
<1>5. ASSUME NEW r \in Runners, Busy(r)
      PROVE  r \in Threads /\ BusyOn(r) /\ \A s \in Runners : Busy(s) => s = r
  BY <1>1, <1>2, <1>3, <1>4, <1>5
<1>6. CASE Start
  <2>1. /\ UNCHANGED bufferVars /\ snapshotCount' = snapshotCount /\ place[started + 1] = "new"
        /\ place' = [place EXCEPT ![started + 1] = "looping"]
    BY <1>6 DEF Start, Reach
  <2>2. \A r \in Runners : Busy(r) \/ Busy(r)' => place'[r] = place[r]
    BY <1>1, <2>1 DEF Busy
  <2> QED
    BY <2>1, <2>2, WorkSame
<1>7. CASE Stop \/ Join \/ Stopped
  <2>1. UNCHANGED <<bufferVars, snapshotCount, place>>
    BY <1>7 DEF Stop, Join, Forget, Stopped
  <2> QED
    BY <2>1, WorkSame
<1>8. CASE FlushRest
  <2>1. /\ owner = "flushing" /\ Swap(Owner)
        /\ UNCHANGED <<thread, snapshotCount, place, started, timedOut>>
    BY <1>8 DEF FlushRest
  <2>2. \A r \in Runners : ~Busy(r)
    BY <1>1, <1>2, <1>4, <2>1
  <2>3. AtRest /\ snapshotCount = made
    BY <1>3, <2>2
  <2>4. /\ pc[Owner] = "idle" /\ pc \in [Threads -> {"idle", "flush", "hand", "add", "store"}]
        /\ \A t \in Threads : pc[t] = "idle"
    BY <1>1, <1>3, <2>2, BufferParts DEF TypeOK
  <2>5. /\ buffer' = <<>> /\ pc' = [pc EXCEPT ![Owner] = "idle"]
        /\ UNCHANGED <<flushed, made, handed>>
    BY <2>1, <2>3 DEF Swap, AtRest
  <2>6. AtRest' /\ snapshotCount' = made' /\ \A t \in Threads : pc'[t] = "idle"
    BY <2>1, <2>3, <2>4, <2>5 DEF AtRest
  <2>7. \A r \in Runners : ~Busy(r)'
    BY <2>1, <2>2 DEF Busy
  <2> QED
    BY <2>6, <2>7, Zenon DEF AtWork
<1>9. CASE FlushGoesOn
  <2>1. pc[Owner] # "idle"
    BY <1>9 DEF FlushGoesOn, FinishFlush, Hand, ReadFlushed, StoreFlushed, Move
  <2> QED
    BY <1>1, <1>3, <2>1
<1>10. ASSUME NEW r \in Runners, TestLoop(r) \/ EndWait(r) PROVE AtWork'
  <2>1. /\ UNCHANGED <<bufferVars, snapshotCount>> /\ place[r] \in {"looping", "waiting"}
        /\ \E p \in {"dead", "looping", "waiting", "capturing"} :
             place' = [place EXCEPT ![r] = p]
    BY <1>10 DEF TestLoop, EndWait, Reach
  <2>2. \A s \in Runners : Busy(s) \/ Busy(s)' => place'[s] = place[s]
    BY <1>1, <2>1 DEF Busy
  <2> QED
    BY <2>1, <2>2, WorkSame
<1>11. ASSUME NEW r \in Runners, Capture(r) PROVE AtWork'
  BY <1>11, CaptureWorks
<1>12. ASSUME NEW r \in Runners, CountAndFlush(r) PROVE AtWork'
  <2>1. /\ pc[r] = "idle" /\ place[r] = "recording"
        /\ place' = [place EXCEPT ![r] = "flushing"]
        /\ snapshotCount' = snapshotCount + 1 /\ Swap(r)
    BY <1>12 DEF CountAndFlush, Reach
  <2>2. Busy(r)
    BY <2>1 DEF Busy
  <2>3. r \in Threads /\ BusyOn(r) /\ \A s \in Runners : Busy(s) => s = r
    BY <1>5, <2>2
  <2>4. Moving(r) /\ made = snapshotCount + 1
    BY <2>1, <2>3 DEF BusyOn
  <2>5. /\ Moving(r)' /\ (pc'[r] = "idle" => AtRest') /\ made' = made
        /\ \A u \in Threads : u # r => pc'[u] = pc[u]
    BY <2>1, <2>3, <2>4, SwapWorks
  <2>6. place'[r] = "flushing" /\ \A s \in Runners : s # r => place'[s] = place[s]
    BY <1>1, <2>1
  <2>7. BusyOn(r)' /\ Busy(r)'
    BY <2>1, <2>4, <2>5, <2>6 DEF BusyOn, Busy
  <2> QED
    BY <2>3, <2>5, <2>6, <2>7, WorkOfOne, Zenon
<1>13. ASSUME NEW r \in Runners, Flushed(r) PROVE AtWork'
  <2>1. /\ pc[r] = "idle" /\ place[r] = "flushing" /\ snapshotCount' = snapshotCount
        /\ place' = [place EXCEPT ![r] = "looping"]
        /\ UNCHANGED <<buffer, dropped, flushed, pc, batch, handler, read, made, handed>>
    BY <1>13 DEF Flushed, Reach, bufferVars
  <2>2. Busy(r)
    BY <2>1 DEF Busy
  <2>3. r \in Threads /\ BusyOn(r) /\ \A s \in Runners : Busy(s) => s = r
    BY <1>5, <2>2
  <2>4. AtRest /\ made = snapshotCount
    BY <2>1, <2>3 DEF BusyOn
  <2>5. \A s \in Runners : ~Busy(s)'
    BY <1>1, <2>1, <2>3 DEF Busy
  <2>6. AtRest' /\ snapshotCount' = made'
    BY <2>1, <2>4 DEF AtRest
  <2>7. \A t \in Threads : pc'[t] = "idle"
    BY <1>3, <2>1, <2>3
  <2> QED
    BY <2>5, <2>6, <2>7, Zenon DEF AtWork
<1>14. ASSUME NEW r \in Runners, GoOn(r) PROVE AtWork'
  <2>1. /\ UNCHANGED <<place, snapshotCount>> /\ r \in Threads
        /\ (pc[r] = "flush" /\ Swap(r)) \/ FinishFlush(r)
    BY <1>1, <1>14 DEF GoOn, Continue, exporterVars
  <2>2. pc[r] # "idle"
    BY <2>1 DEF FinishFlush, Hand, ReadFlushed, StoreFlushed, Move
  <2>3. Busy(r)
    BY <1>3, <2>1, <2>2
  <2>4. BusyOn(r) /\ \A s \in Runners : Busy(s) => s = r
    BY <1>5, <2>3
  <2>5. Moving(r)
    BY <2>4 DEF BusyOn
  <2>6. /\ Moving(r)' /\ (pc'[r] = "idle" => AtRest') /\ made' = made
        /\ \A u \in Threads : u # r => pc'[u] = pc[u]
    BY <2>1, <2>5, SwapWorks, FinishWorks
  <2>7. BusyOn(r)' /\ Busy(r)'
    BY <2>1, <2>3, <2>4, <2>6 DEF BusyOn, Busy
  <2> QED
    BY <2>1, <2>4, <2>6, <2>7, WorkOfOne, Zenon
<1> QED
  BY <1>6, <1>7, <1>8, <1>9, <1>10, <1>11, <1>12, <1>13, <1>14
     DEF ExporterNext, OwnerGoesOn, Run, JoinTimesOut

\* A join that has timed out has timed out for good.
LEMMA TimedOutStays ==
  ASSUME RunnersStrong, ExporterNext, timedOut
  PROVE  timedOut'
  BY DEF ExporterNext, OwnerGoesOn, Run, Start, Stop, Join, JoinTimesOut, FlushRest, Stopped,
     FlushGoesOn, TestLoop, EndWait, Capture, CountAndFlush, Flushed, GoOn, exporterVars

\* Threads that use the buffer without an exporter.
LEMMA DirectKeeps ==
  ASSUME BufferStrong, RunnersStrong, BufferNext, UNCHANGED exporterVars
  PROVE  BufferStrong' /\ RunnersStrong' /\ stopSet' = stopSet
<1>1. BufferStrong'
  BY BufferKeeps, Zenon DEF BufferNext
<1>2. made \in Nat /\ made' \in Nat /\ made <= made'
  <2>1. made' = made \/ made' = made + 1
    BY DEF BufferNext, Drop, Record, Swap, Continue, FinishFlush, Hand, ReadFlushed, StoreFlushed
  <2>2. made \in Nat
    BY BufferParts, BufferTyped, Zenon
  <2> QED
    BY <2>1, <2>2
<1>3. UNCHANGED <<stopSet, thread, snapshotCount, owner, place, started, timedOut>>
  BY DEF exporterVars
<1>4. Recording' = Recording
  BY <1>3, Zenon DEF Recording
<1>5. snapshotCount + Cardinality(Recording) <= made'
  <2>1. /\ snapshotCount \in Nat /\ Cardinality(Recording) \in Nat
        /\ snapshotCount + Cardinality(Recording) <= made
    BY RunnersFinite DEF RunnersStrong
  <2> QED
    BY <1>2, <2>1
<1>6. RunnersStrong'
  BY <1>3, <1>4, <1>5, Zenon DEF RunnersStrong
<1> QED
  BY <1>1, <1>3, <1>6

LEMMA ExporterStep ==
  ASSUME ExporterStrong, [UsesNext]_<<use, vars, batchVars>>
  PROVE  ExporterStrong'
<1>1. /\ BufferStrong /\ RunnersStrong /\ (use # "exporter" => ~stopSet)
      /\ use = "exporter" /\ ~timedOut => OneAlive /\ AtWork
  BY Zenon DEF ExporterStrong
<1>2. CASE use = "direct" /\ BufferNext /\ UNCHANGED <<exporterVars, batchVars>> /\ UNCHANGED use
  <2>1. BufferStrong' /\ RunnersStrong' /\ stopSet' = stopSet
    BY <1>1, <1>2, DirectKeeps
  <2> QED
    BY <1>1, <1>2, <2>1, Zenon DEF ExporterStrong
<1>3. CASE use = "exporter" /\ ExporterNext /\ UNCHANGED use
  <2>1. BufferStrong' /\ RunnersStrong'
    BY <1>1, <1>3, ExporterBuffer, RunnersKeep, Zenon
  <2>2. ASSUME ~timedOut' PROVE OneAlive' /\ AtWork'
    <3>1. OneAlive /\ AtWork
      BY <1>1, <1>3, <2>2, TimedOutStays, Zenon
    <3> QED
      BY <1>1, <1>3, <2>2, <3>1, OneAliveKeeps, AtWorkKeeps, Zenon
  <2> QED
    BY <1>3, <2>1, <2>2, Zenon DEF ExporterStrong
<1>4. CASE UNCHANGED <<use, vars>>
  <2>1. /\ UNCHANGED <<buffer, dropped, flushed, pc, batch, handler, read, made, handed>>
        /\ UNCHANGED <<stopSet, thread, snapshotCount, owner, place, started, timedOut, use>>
        /\ UNCHANGED bufferVars
    BY <1>4 DEF vars, bufferVars, exporterVars
  <2>2. BufferStrong'
    BY <1>1, <2>1, BufferSame, Zenon
  <2>3. Recording' = Recording
    BY <2>1, Zenon DEF Recording
  <2>4. RunnersStrong'
    BY <1>1, <2>1, <2>3, Zenon DEF RunnersStrong
  <2>5. OneAlive => OneAlive'
    BY <2>1 DEF OneAlive, Alive
  <2>6. AtWork => AtWork'
    BY <2>1, WorkSame
  <2> QED
    BY <1>1, <2>1, <2>2, <2>4, <2>5, <2>6, Zenon DEF ExporterStrong
<1> QED
  BY <1>2, <1>3, <1>4, Zenon DEF UsesNext

LEMMA ExporterImplies == ExporterStrong => ExporterInv /\ StopLeavesNothing
<1> SUFFICES ASSUME ExporterStrong PROVE ExporterInv /\ StopLeavesNothing
  OBVIOUS
<1>1. /\ BufferStrong /\ RunnersStrong /\ (use # "exporter" => ~stopSet)
      /\ use = "exporter" /\ ~timedOut => OneAlive /\ AtWork
  BY Zenon DEF ExporterStrong
<1>2. TypeOK /\ FullBufferIsFlushed /\ CountedLast /\ \A h \in 1..Handlers : Once(h)
  BY <1>1, BufferParts
<1>3. ExporterTypeOK
  <2>1. /\ snapshotCount \in Nat /\ Cardinality(Recording) \in Nat /\ made \in Nat
        /\ snapshotCount + Cardinality(Recording) <= made
    BY <1>1, <1>2, RunnersFinite, BufferTyped DEF RunnersStrong
  <2>2. snapshotCount \in 0..made
    BY <2>1
  <2> QED
    BY <1>1, <1>2, <2>2, Zenon DEF ExporterTypeOK, RunnersStrong
<1>4. HandedOnce
  BY <1>2, Zenon DEF HandedOnce, Once, Here, Waiting, Distinct
<1>5. NeverOvercounts
  <2>1. flushed + Cardinality(Uncounted) <= Len(handed[Handlers])
    BY <1>2, Zenon DEF CountedLast
  <2>2. Cardinality(Uncounted) \in Nat /\ flushed \in Nat /\ Len(handed[Handlers]) \in Nat
    BY <1>1, <1>2, SetsAreFinite, BufferTyped, SequenceTyped
  <2> QED
    BY <2>1, <2>2 DEF NeverOvercounts
<1>6. ASSUME owner = "idle", stopSet, ~timedOut
      PROVE  /\ \A r \in Runners : ~Alive(r)
             /\ buffer = <<>> /\ flushed = snapshotCount
             /\ \A h \in 1..Handlers : handed[h] = [i \in 1..snapshotCount |-> i]
  <2>1. OneAlive /\ AtWork
    BY <1>1, <1>6, Zenon
  <2>2. \A r \in Runners : ~Alive(r)
    BY <1>6, <2>1, RunnersFinite DEF OneAlive
  <2>3. \A r \in Runners : ~Busy(r)
    BY <2>2 DEF Busy, Alive
  <2>4. AtRest /\ snapshotCount = made
    BY <2>1, <2>3, Zenon DEF AtWork
  <2> QED
    BY <2>2, <2>4 DEF AtRest, Upto
<1> QED
  BY <1>2, <1>3, <1>4, <1>5, <1>6, Zenon DEF ExporterInv, StopLeavesNothing

LEMMA ExporterInvariant == UsesSpec => []ExporterStrong
<1> DEFINE Inv == ExporterStrong
<1>1. UsesInit => Inv
  BY ExporterStarts
<1>2. Inv /\ [UsesNext]_<<use, vars, batchVars>> => Inv'
  BY ExporterStep
<1>3. UsesSpec => UsesInit /\ [][UsesNext]_<<use, vars, batchVars>>
  BY PTL DEF UsesSpec
<1> HIDE DEF Inv
<1>4. UsesSpec => []Inv
  BY <1>1, <1>2, <1>3, PTL
<1> QED
  BY <1>4 DEF Inv

\* However the threads of a buffer, of an exporter and of its earlier exporters overlap,
\* each handler gets each snapshot once, the total of the flushed never runs ahead, and
\* a full buffer has a thread on its way to flush it (export_buffer.py:40-76).
THEOREM SnapshotsGoOut == UsesSpec => []ExporterInv
<1> DEFINE Strong == ExporterStrong
           Weak == ExporterInv
<1>1. Strong => Weak
  BY ExporterImplies
<1>2. UsesSpec => []Strong
  BY ExporterInvariant
<1> HIDE DEF Strong, Weak
<1>3. UsesSpec => []Weak
  BY <1>1, <1>2, PTL
<1> QED
  BY <1>3 DEF Weak

\* If no join timed out, stop() returns with no thread left and with every snapshot that
\* was counted handed to every handler, in order (export_buffer.py:129-136).
THEOREM StopIsClean == UsesSpec => []StopLeavesNothing
<1> DEFINE Strong == ExporterStrong
           Weak == StopLeavesNothing
<1>1. Strong => Weak
  BY ExporterImplies
<1>2. UsesSpec => []Strong
  BY ExporterInvariant
<1> HIDE DEF Strong, Weak
<1>3. UsesSpec => []Weak
  BY <1>1, <1>2, PTL
<1> QED
  BY <1>3 DEF Weak

-----------------------------------------------------------------------------
\* The batch counter.  Each thread on its way to flush has added one increment at most
\* to a buffer that was full.
Flushing == {t \in Threads : step[t] = "flush"}
InBatches(k) == [t \in Threads |-> applied[t][k]]

BatchStrong ==
  /\ pending \in [Keys -> Nat] /\ pendingCount \in Nat
  /\ known \subseteq Keys /\ Cardinality(known) <= MaxCardinality
  /\ values \in [Keys -> Nat] /\ \A k \in Keys \ known : values[k] = 0
  /\ step \in [Threads -> {"idle", "flush", "apply"}]
  /\ applied \in [Threads -> [Keys -> Nat]]
  /\ incs \in [Keys -> Nat] /\ lost \in [Keys -> Nat]
  /\ \A t \in Threads, k \in Keys : step[t] # "apply" => applied[t][k] = 0
  /\ \A k \in Keys : incs[k] = pending[k] + SumFunctionOnSet(InBatches(k), Threads)
                                + values[k] + lost[k]
  /\ pendingCount = SumFunctionOnSet(pending, Keys)
  /\ pendingCount < BatchSize + Cardinality(Flushing)

\* The operators of the instance are those of its community modules.
LEMMA SameSums ==
  /\ \A f : Batch!SumFunction(f) = SumFunctionOnSet(f, DOMAIN f)
  /\ \A S : Batch!Cardinality(S) = Cardinality(S)
<1>1. \A f : Batch!SumFunction(f) = SumFunctionOnSet(f, DOMAIN f)
  BY DEF Batch!SumFunction, Batch!SumFunctionOnSet, Batch!FoldFunctionOnSet,
         Batch!MapThenFoldSet, SumFunctionOnSet, FoldFunctionOnSet, MapThenFoldSet
<1>2. \A S : Batch!Cardinality(S) = Cardinality(S)
  BY DEF Batch!Cardinality, Cardinality
<1> QED
  BY <1>1, <1>2

LEMMA BatchConstants ==
  /\ BatchSize \in Nat \ {0} /\ MaxCardinality \in Nat
  /\ IsFiniteSet(Threads) /\ IsFiniteSet(Keys)
  /\ IsFiniteSet(Flushing) /\ Cardinality(Flushing) \in Nat
  /\ Cardinality(Threads) \in Nat /\ Cardinality(Flushing) <= Cardinality(Threads)
<1>1. MaxStarts \in Nat /\ Threads = 0..MaxStarts
  BY ExporterAssumption
<1>2. IsFiniteSet(Threads)
  BY <1>1, FS_Interval
<1>3. BatchSize \in Nat \ {0} /\ MaxCardinality \in Nat /\ IsFiniteSet(Keys)
  BY CountersAssumption DEF Batch!BatchAssumption, Batch!IsFiniteSet, IsFiniteSet
<1>4. Flushing \in SUBSET Threads
  BY DEF Flushing
<1> QED
  BY <1>2, <1>3, <1>4, FS_Subset, FS_CardinalityType

LEMMA BatchParts ==
  ASSUME BatchStrong
  PROVE  /\ pending \in [Keys -> Nat] /\ pendingCount \in Nat
         /\ known \subseteq Keys /\ Cardinality(known) <= MaxCardinality
         /\ values \in [Keys -> Nat] /\ \A k \in Keys \ known : values[k] = 0
         /\ step \in [Threads -> {"idle", "flush", "apply"}]
         /\ applied \in [Threads -> [Keys -> Nat]]
         /\ incs \in [Keys -> Nat] /\ lost \in [Keys -> Nat]
         /\ \A t \in Threads, k \in Keys : step[t] # "apply" => applied[t][k] = 0
         /\ \A k \in Keys : incs[k] = pending[k] + SumFunctionOnSet(InBatches(k), Threads)
                                       + values[k] + lost[k]
         /\ pendingCount = SumFunctionOnSet(pending, Keys)
         /\ pendingCount < BatchSize + Cardinality(Flushing)
  BY Zenon DEF BatchStrong

LEMMA InBatchesTyped ==
  ASSUME applied \in [Threads -> [Keys -> Nat]], NEW k \in Keys
  PROVE  /\ \A t \in Threads : InBatches(k)[t] = applied[t][k] /\ InBatches(k)[t] \in Int
         /\ SumFunctionOnSet(InBatches(k), Threads) \in Nat
<1>1. \A t \in Threads : InBatches(k)[t] = applied[t][k] /\ InBatches(k)[t] \in Nat
  BY DEF InBatches
<1>2. /\ SumFunctionOnSet(InBatches(k), Threads) \in Int
      /\ SumFunctionOnSet(InBatches(k), Threads) >= 0
  BY <1>1, BatchConstants, SumFacts
<1> QED
  BY <1>1, <1>2

LEMMA BatchStarts == Batch!Init => BatchStrong
<1> SUFFICES ASSUME Batch!Init PROVE BatchStrong
  OBVIOUS
<1>1. /\ pending = [k \in Keys |-> 0] /\ pendingCount = 0 /\ known = {}
      /\ values = [k \in Keys |-> 0] /\ step = [t \in Threads |-> "idle"]
      /\ applied = [t \in Threads |-> [k \in Keys |-> 0]]
      /\ incs = [k \in Keys |-> 0] /\ lost = [k \in Keys |-> 0]
  BY DEF Batch!Init, Batch!Nothing
<1>2. /\ pending \in [Keys -> Nat] /\ pendingCount \in Nat
      /\ known \subseteq Keys
      /\ values \in [Keys -> Nat] /\ (\A k \in Keys \ known : values[k] = 0)
      /\ step \in [Threads -> {"idle", "flush", "apply"}]
      /\ applied \in [Threads -> [Keys -> Nat]]
      /\ incs \in [Keys -> Nat] /\ lost \in [Keys -> Nat]
      /\ \A t \in Threads, k \in Keys : step[t] # "apply" => applied[t][k] = 0
  BY <1>1
<1>3. Cardinality(known) <= MaxCardinality
  BY <1>1, FS_EmptySet, BatchConstants
<1>4. pendingCount = SumFunctionOnSet(pending, Keys)
  BY <1>1, SumOfZeros, BatchConstants
<1>5. pendingCount < BatchSize + Cardinality(Flushing)
  BY <1>1, BatchConstants
<1>6. ASSUME NEW k \in Keys
      PROVE  incs[k] = pending[k] + SumFunctionOnSet(InBatches(k), Threads) + values[k] + lost[k]
  <2>1. \A t \in Threads : InBatches(k)[t] = 0
    BY <1>1 DEF InBatches
  <2>2. SumFunctionOnSet(InBatches(k), Threads) = 0
    BY <2>1, SumOfZeros, BatchConstants
  <2> QED
    BY <1>1, <2>2
<1> QED
  BY <1>2, <1>3, <1>4, <1>5, <1>6, Zenon DEF BatchStrong

LEMMA IncKeeps ==
  ASSUME BatchStrong, NEW t \in Threads, NEW k \in Keys, Batch!Inc(t, k)
  PROVE  BatchStrong'
<1>1. /\ step[t] = "idle" /\ pending' = [pending EXCEPT ![k] = @ + 1]
      /\ pendingCount' = pendingCount + 1 /\ incs' = [incs EXCEPT ![k] = @ + 1]
      /\ \/ step' = [step EXCEPT ![t] = "flush"]
         \/ pendingCount' < BatchSize /\ step' = [step EXCEPT ![t] = "idle"]
      /\ UNCHANGED <<known, values, applied, lost>>
  BY DEF Batch!Inc, Batch!Move
<1>2. /\ pending \in [Keys -> Nat] /\ pendingCount \in Nat /\ incs \in [Keys -> Nat]
      /\ step \in [Threads -> {"idle", "flush", "apply"}]
      /\ applied \in [Threads -> [Keys -> Nat]]
      /\ values \in [Keys -> Nat] /\ lost \in [Keys -> Nat]
  BY BatchParts
<1>3. /\ pending' \in [Keys -> Nat] /\ pendingCount' \in Nat /\ incs' \in [Keys -> Nat]
      /\ step' \in [Threads -> {"idle", "flush", "apply"}]
  BY <1>1, <1>2
<1>4. ASSUME NEW u \in Threads, NEW j \in Keys, step'[u] # "apply" PROVE applied'[u][j] = 0
  <2>1. step[u] # "apply"
    BY <1>1, <1>2, <1>4
  <2> QED
    BY <1>1, <2>1, BatchParts
<1>5. ASSUME NEW j \in Keys
      PROVE  incs'[j] = pending'[j] + SumFunctionOnSet(InBatches(j)', Threads)
                          + values'[j] + lost'[j]
  <2>1. InBatches(j)' = InBatches(j)
    BY <1>1 DEF InBatches
  <2>2. incs[j] = pending[j] + SumFunctionOnSet(InBatches(j), Threads) + values[j] + lost[j]
    BY BatchParts
  <2>3. SumFunctionOnSet(InBatches(j), Threads) \in Nat
    BY <1>2, InBatchesTyped
  <2>4. \/ incs'[j] = incs[j] /\ pending'[j] = pending[j]
        \/ incs'[j] = incs[j] + 1 /\ pending'[j] = pending[j] + 1
    BY <1>1, <1>2
  <2>5. pending[j] \in Nat /\ values[j] \in Nat /\ lost[j] \in Nat /\ values' = values /\ lost' = lost
    BY <1>1, <1>2
  <2> QED
    BY <2>1, <2>2, <2>3, <2>4, <2>5
<1>6. pendingCount' = SumFunctionOnSet(pending', Keys)
  <2>1. \A j \in Keys : pending[j] \in Int /\ pending'[j] \in Int /\ (j # k => pending'[j] = pending[j])
    BY <1>1, <1>2
  <2>2. SumFunctionOnSet(pending', Keys) = SumFunctionOnSet(pending, Keys) + pending'[k] - pending[k]
    BY <2>1, SumChange, BatchConstants
  <2>3. pending'[k] = pending[k] + 1 /\ pending[k] \in Nat /\ pendingCount = SumFunctionOnSet(pending, Keys)
    BY <1>1, <1>2, BatchParts
  <2> QED
    BY <1>1, <1>2, <2>2, <2>3
<1>7. pendingCount' < BatchSize + Cardinality(Flushing')
  <2>1. pendingCount < BatchSize + Cardinality(Flushing)
    BY BatchParts
  <2>2. CASE step' = [step EXCEPT ![t] = "flush"]
    <3>1. Flushing' = Flushing \cup {t} /\ t \notin Flushing
      BY <1>1, <1>2, <2>2 DEF Flushing
    <3>2. Cardinality(Flushing') = Cardinality(Flushing) + 1
      BY <3>1, BatchConstants, OneMore
    <3> QED
      BY <1>1, <1>2, <2>1, <3>2, BatchConstants
  <2>3. CASE pendingCount' < BatchSize /\ step' = [step EXCEPT ![t] = "idle"]
    <3>1. Flushing' = Flushing
      BY <1>1, <1>2, <2>3 DEF Flushing
    <3> QED
      BY <1>3, <2>3, <3>1, BatchConstants
  <2> QED
    BY <1>1, <2>2, <2>3
<1>8. /\ known' = known /\ values' = values /\ applied' = applied /\ lost' = lost
  BY <1>1
<1> QED
  BY BatchParts, <1>3, <1>4, <1>5, <1>6, <1>7, <1>8, Zenon DEF BatchStrong

LEMMA BatchSwapKeeps ==
  ASSUME BatchStrong, NEW t \in Threads, Batch!Swap(t)
  PROVE  BatchStrong'
<1>1. /\ step[t] \in {"idle", "flush"}
      /\ \/ pending = [k \in Keys |-> 0] /\ step' = [step EXCEPT ![t] = "idle"]
         \/ step' = [step EXCEPT ![t] = "apply"]
      /\ applied' = [applied EXCEPT ![t] = pending]
      /\ pending' = [k \in Keys |-> 0] /\ pendingCount' = 0
      /\ UNCHANGED <<known, values, incs, lost>>
  BY DEF Batch!Swap, Batch!Nothing
<1>2. /\ pending \in [Keys -> Nat] /\ pendingCount \in Nat /\ incs \in [Keys -> Nat]
      /\ step \in [Threads -> {"idle", "flush", "apply"}]
      /\ applied \in [Threads -> [Keys -> Nat]]
      /\ values \in [Keys -> Nat] /\ lost \in [Keys -> Nat]
  BY BatchParts
<1>3. /\ pending' \in [Keys -> Nat] /\ pendingCount' \in Nat
      /\ step' \in [Threads -> {"idle", "flush", "apply"}]
      /\ applied' \in [Threads -> [Keys -> Nat]]
  BY <1>1, <1>2
<1>4. \A k \in Keys : applied[t][k] = 0
  BY <1>1, BatchParts
<1>5. ASSUME NEW u \in Threads, NEW j \in Keys, step'[u] # "apply" PROVE applied'[u][j] = 0
  <2>1. CASE u = t
    BY <1>1, <1>2, <1>5, <2>1
  <2>2. CASE u # t
    <3>1. step[u] # "apply" /\ applied'[u] = applied[u]
      BY <1>1, <1>2, <1>5, <2>2
    <3> QED
      BY <3>1, BatchParts
  <2> QED
    BY <2>1, <2>2
<1>6. ASSUME NEW j \in Keys
      PROVE  incs'[j] = pending'[j] + SumFunctionOnSet(InBatches(j)', Threads)
                          + values'[j] + lost'[j]
  <2> DEFINE f == InBatches(j)
             g == [u \in Threads |-> applied'[u][j]]
  <2>1. InBatches(j)' = g
    BY DEF InBatches
  <2>2. \A u \in Threads : f[u] \in Int /\ g[u] \in Int /\ (u # t => g[u] = f[u])
    BY <1>1, <1>2, <1>3 DEF InBatches
  <2>3. f[t] = 0 /\ g[t] = pending[j]
    BY <1>1, <1>2, <1>4 DEF InBatches
  <2>4. SumFunctionOnSet(f, Threads) \in Nat
    BY <1>2, InBatchesTyped
  <2>5. incs[j] = pending[j] + SumFunctionOnSet(f, Threads) + values[j] + lost[j]
    BY BatchParts
  <2> HIDE DEF f, g
  <2>6. SumFunctionOnSet(g, Threads) = SumFunctionOnSet(f, Threads) + g[t] - f[t]
    BY <2>2, SumChange, BatchConstants
  <2>7. pending[j] \in Nat /\ values[j] \in Nat /\ lost[j] \in Nat /\ pending'[j] = 0
        /\ values' = values /\ lost' = lost /\ incs' = incs
    BY <1>1, <1>2
  <2> QED
    BY <2>1, <2>3, <2>4, <2>5, <2>6, <2>7
<1>7. pendingCount' = SumFunctionOnSet(pending', Keys)
  <2>1. \A k \in Keys : pending'[k] = 0
    BY <1>1
  <2> QED
    BY <1>1, <2>1, SumOfZeros, BatchConstants
<1>8. pendingCount' < BatchSize + Cardinality(Flushing')
  <2>1. Flushing' \in SUBSET Threads
    BY DEF Flushing
  <2>2. Cardinality(Flushing') \in Nat
    BY <2>1, BatchConstants, FS_Subset, FS_CardinalityType
  <2> QED
    BY <1>1, <2>2, BatchConstants
<1>9. known' = known /\ values' = values /\ incs' = incs /\ lost' = lost
  BY <1>1
<1> QED
  BY BatchParts, <1>3, <1>5, <1>6, <1>7, <1>8, <1>9, Zenon DEF BatchStrong

LEMMA ApplyKeeps ==
  ASSUME BatchStrong, NEW t \in Threads, NEW k \in Keys, Batch!Apply(t, k)
  PROVE  BatchStrong'
<1> DEFINE n == applied[t][k]
<1>1. /\ step[t] = "apply" /\ applied[t][k] > 0
      /\ applied' = [applied EXCEPT ![t][k] = 0]
      /\ \/ applied'[t] = [j \in Keys |-> 0] /\ step' = [step EXCEPT ![t] = "idle"]
         \/ step' = [step EXCEPT ![t] = "apply"]
      /\ \/ /\ k \in known \/ Cardinality(known) < MaxCardinality
            /\ known' = known \cup {k}
            /\ values' = [values EXCEPT ![k] = @ + applied[t][k]] /\ lost' = lost
         \/ lost' = [lost EXCEPT ![k] = @ + applied[t][k]] /\ known' = known /\ values' = values
      /\ UNCHANGED <<pending, pendingCount, incs>>
  BY SameSums DEF Batch!Apply, Batch!Fits, Batch!Nothing
<1>2. /\ pending \in [Keys -> Nat] /\ pendingCount \in Nat /\ incs \in [Keys -> Nat]
      /\ step \in [Threads -> {"idle", "flush", "apply"}]
      /\ applied \in [Threads -> [Keys -> Nat]] /\ applied[t][k] \in Nat
      /\ values \in [Keys -> Nat] /\ lost \in [Keys -> Nat]
  BY BatchParts
<1>3. /\ step' \in [Threads -> {"idle", "flush", "apply"}]
      /\ applied' \in [Threads -> [Keys -> Nat]]
      /\ values' \in [Keys -> Nat] /\ lost' \in [Keys -> Nat]
  <2>1. step' \in [Threads -> {"idle", "flush", "apply"}]
    BY <1>1, <1>2
  <2>2. applied' \in [Threads -> [Keys -> Nat]]
    BY <1>1, <1>2
  <2>3. values[k] + applied[t][k] \in Nat /\ lost[k] + applied[t][k] \in Nat
    BY <1>2
  <2>4. values' \in [Keys -> Nat]
    BY <1>1, <1>2, <2>3
  <2>5. lost' \in [Keys -> Nat]
    BY <1>1, <1>2, <2>3
  <2> QED
    BY <2>1, <2>2, <2>4, <2>5
<1>4. /\ \A u \in Threads : u # t => applied'[u] = applied[u] /\ step'[u] = step[u]
      /\ \A j \in Keys : j # k => applied'[t][j] = applied[t][j]
      /\ applied'[t][k] = 0
  BY <1>1, <1>2
<1>5. /\ known' \subseteq Keys /\ Cardinality(known') <= MaxCardinality
      /\ \A j \in Keys \ known' : values'[j] = 0
  <2>1. known \subseteq Keys /\ Cardinality(known) <= MaxCardinality
        /\ \A j \in Keys \ known : values[j] = 0
    BY BatchParts
  <2>2. IsFiniteSet(known) /\ Cardinality(known) \in Nat
    BY <2>1, BatchConstants, FS_Subset, FS_CardinalityType
  <2>3. CASE known' = known
    BY <1>1, <1>2, <2>1, <2>3
  <2>4. CASE k \notin known /\ Cardinality(known) < MaxCardinality
              /\ known' = known \cup {k} /\ values' = [values EXCEPT ![k] = @ + applied[t][k]]
    <3>1. Cardinality(known') = Cardinality(known) + 1
      BY <2>2, <2>4, OneMore
    <3>2. Cardinality(known') <= MaxCardinality
      BY <2>2, <2>4, <3>1, BatchConstants
    <3>3. \A j \in Keys \ known' : values'[j] = 0
      BY <1>2, <2>1, <2>4
    <3> QED
      BY <2>1, <2>4, <3>2, <3>3
  <2> QED
    BY <1>1, <2>3, <2>4
<1>6. ASSUME NEW u \in Threads, NEW j \in Keys, step'[u] # "apply" PROVE applied'[u][j] = 0
  <2>1. CASE u = t
    BY <1>1, <1>2, <1>6, <2>1
  <2>2. CASE u # t
    BY <1>4, <1>6, <2>2, BatchParts
  <2> QED
    BY <2>1, <2>2
<1>7. ASSUME NEW j \in Keys
      PROVE  incs'[j] = pending'[j] + SumFunctionOnSet(InBatches(j)', Threads)
                          + values'[j] + lost'[j]
  <2> DEFINE f == InBatches(j)
             g == [u \in Threads |-> applied'[u][j]]
  <2>1. InBatches(j)' = g
    BY DEF InBatches
  <2>2. \A u \in Threads : f[u] \in Int /\ g[u] \in Int /\ (u # t => g[u] = f[u])
    BY <1>2, <1>3, <1>4 DEF InBatches
  <2>3. f[t] = applied[t][j] /\ g[t] = IF j = k THEN 0 ELSE applied[t][j]
    BY <1>4 DEF InBatches
  <2>4. SumFunctionOnSet(f, Threads) \in Nat
    BY <1>2, InBatchesTyped
  <2>5. incs[j] = pending[j] + SumFunctionOnSet(f, Threads) + values[j] + lost[j]
    BY BatchParts
  <2> HIDE DEF f, g
  <2>6. SumFunctionOnSet(g, Threads) = SumFunctionOnSet(f, Threads) + g[t] - f[t]
    BY <2>2, SumChange, BatchConstants
  <2>7. pending[j] \in Nat /\ values[j] \in Nat /\ lost[j] \in Nat /\ applied[t][j] \in Nat
        /\ pending' = pending /\ incs' = incs
    BY <1>1, <1>2
  <2>8. CASE j = k
    <3>1. values'[k] + lost'[k] = values[k] + lost[k] + applied[t][k]
      BY <1>1, <1>2
    <3>2. values'[k] \in Nat /\ lost'[k] \in Nat
      BY <1>3
    <3> QED
      BY <2>1, <2>3, <2>4, <2>5, <2>6, <2>7, <2>8, <3>1, <3>2
  <2>9. CASE j # k
    <3>1. values'[j] = values[j] /\ lost'[j] = lost[j]
      BY <1>1, <1>2, <2>9
    <3> QED
      BY <2>1, <2>3, <2>4, <2>5, <2>6, <2>7, <2>9, <3>1
  <2> QED
    BY <2>8, <2>9
<1>8. Flushing' = Flushing
  BY <1>1, <1>2, <1>4 DEF Flushing
<1>9. pending' = pending /\ pendingCount' = pendingCount /\ incs' = incs
  BY <1>1
<1> QED
  BY BatchParts, <1>3, <1>5, <1>6, <1>7, <1>8, <1>9, Zenon DEF BatchStrong

LEMMA BatchStep ==
  ASSUME BatchStrong, [UsesNext]_<<use, vars, batchVars>>
  PROVE  BatchStrong'
<1>1. CASE Batch!Next
  BY <1>1, IncKeeps, BatchSwapKeeps, ApplyKeeps DEF Batch!Next, Batch!Flush
<1>2. CASE UNCHANGED batchVars
  <2>1. UNCHANGED <<pending, pendingCount, known, values, step, applied, incs, lost>>
    BY <1>2 DEF batchVars
  <2>2. Flushing' = Flushing /\ \A k \in Keys : InBatches(k)' = InBatches(k)
    BY <2>1 DEF Flushing, InBatches
  <2> QED
    BY BatchParts, <2>1, <2>2, Zenon DEF BatchStrong
<1> QED
  BY <1>1, <1>2, Zenon DEF UsesNext

LEMMA BatchImplies == BatchStrong => BatchInv
<1> SUFFICES ASSUME BatchStrong PROVE Batch!BatchInv
  BY DEF BatchInv
<1>1. /\ pending \in [Keys -> Nat] /\ pendingCount \in Nat
      /\ known \subseteq Keys /\ Cardinality(known) <= MaxCardinality
      /\ values \in [Keys -> Nat] /\ (\A k \in Keys \ known : values[k] = 0)
      /\ step \in [Threads -> {"idle", "flush", "apply"}]
      /\ applied \in [Threads -> [Keys -> Nat]]
      /\ incs \in [Keys -> Nat] /\ lost \in [Keys -> Nat]
  BY BatchParts
<1>2. Batch!TypeOK
  BY <1>1, SameSums DEF Batch!TypeOK
<1>3. Batch!Conserved
  <2>1. \A k \in Keys : DOMAIN InBatches(k) = Threads
    BY DEF InBatches
  <2>2. \A k \in Keys : Batch!SumFunction(InBatches(k)) = SumFunctionOnSet(InBatches(k), Threads)
    BY <2>1, SameSums
  <2>3. \A k \in Keys : incs[k] = pending[k] + Batch!SumFunction(InBatches(k)) + values[k] + lost[k]
    BY <2>2, BatchParts
  <2> QED
    BY <2>3 DEF Batch!Conserved, InBatches
<1>4. Batch!FullBatchIsFlushed
  <2>1. pendingCount = Batch!SumFunction(pending)
    <3>1. DOMAIN pending = Keys
      BY <1>1
    <3> QED
      BY <3>1, SameSums, BatchParts
  <2>2. pendingCount < BatchSize + Cardinality(Flushing)
    BY BatchParts
  <2>3. pendingCount >= BatchSize => \E t \in Threads : step[t] = "flush"
    <3>1. Flushing = {} => Cardinality(Flushing) = 0
      BY FS_EmptySet
    <3>2. pendingCount >= BatchSize => Flushing # {}
      BY <1>1, <2>2, <3>1, BatchConstants
    <3> QED
      BY <3>2 DEF Flushing
  <2>4. pendingCount < BatchSize + Batch!Cardinality(Threads)
    <3>1. pendingCount < BatchSize + Cardinality(Threads)
      BY <1>1, <2>2, BatchConstants
    <3> QED
      BY <3>1, SameSums
  <2> QED
    BY <2>1, <2>3, <2>4 DEF Batch!FullBatchIsFlushed
<1> QED
  BY <1>2, <1>3, <1>4 DEF Batch!BatchInv

\* However increments and flushes interleave, every increment is in one place, and a full
\* batch is on its way and outgrows its size by less than a thread's worth each
\* (batching.py:47-81).
THEOREM IncrementsAreConserved == UsesSpec => []BatchInv
<1> DEFINE Strong == BatchStrong
           Weak == BatchInv
<1>1. UsesInit => Strong
  BY BatchStarts DEF UsesInit
<1>2. Strong /\ [UsesNext]_<<use, vars, batchVars>> => Strong'
  BY BatchStep
<1>3. Strong => Weak
  BY BatchImplies
<1>4. UsesSpec => UsesInit /\ [][UsesNext]_<<use, vars, batchVars>>
  BY PTL DEF UsesSpec
<1> HIDE DEF Strong, Weak
<1>5. UsesSpec => []Weak
  BY <1>1, <1>2, <1>3, <1>4, PTL
<1> QED
  BY <1>5 DEF Weak
=============================================================================
