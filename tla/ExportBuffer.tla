---------------------------- MODULE ExportBuffer ----------------------------
(***************************************************************************)
(* The ExportBuffer of performance/export_buffer.py.  Recording and the    *)
(* swap of a flush run under the lock; the handlers are called, and the    *)
(* flushed are counted, outside it.                                        *)
(***************************************************************************)
EXTENDS Integers, FiniteSets, SequencesExt

CONSTANTS Threads,      \* the threads that record and flush
          Handlers,     \* number of handlers
          MaxSize,      \* max_size
          MaxRecords    \* bound on the snapshots, which are numbered

ASSUME BufferAssumption == Handlers \in Nat \ {0} /\ MaxSize \in Nat \ {0} /\ MaxRecords \in Nat

VARIABLES
  buffer,      \* _buffer
  dropped,     \* _total_dropped
  flushed,     \* _total_flushed
  pc,          \* where each thread is
  batch,       \* its to_flush
  handler,     \* the handler it calls next
  read,        \* what it has read of _total_flushed
  made,        \* history: the snapshots recorded or dropped so far
  handed       \* history: the snapshots each handler was given

bufferVars == <<buffer, dropped, flushed, pc, batch, handler, read, made, handed>>

Snapshots == 1..MaxRecords

TypeOK ==
  /\ buffer \in Seq(Snapshots) /\ Len(buffer) <= MaxSize
  /\ dropped \in Nat /\ flushed \in Nat
  /\ pc \in [Threads -> {"idle", "flush", "hand", "add", "store"}]
  /\ batch \in [Threads -> Seq(Snapshots)]
  /\ handler \in [Threads -> 1..Handlers]
  /\ read \in [Threads -> Nat]
  /\ made \in 0..MaxRecords
  /\ handed \in [1..Handlers -> Seq(Snapshots)]

BufferInit ==
  /\ buffer = <<>> /\ dropped = 0 /\ flushed = 0
  /\ pc = [t \in Threads |-> "idle"]
  /\ batch = [t \in Threads |-> <<>>]
  /\ handler = [t \in Threads |-> 1]
  /\ read = [t \in Threads |-> 0]
  /\ made = 0
  /\ handed = [h \in 1..Handlers |-> <<>>]

Move(t, from, to) == pc[t] = from /\ pc' = [pc EXCEPT ![t] = to]

\* record() on a full buffer.
Drop(t) ==
  /\ pc[t] = "idle"
  /\ made < MaxRecords
  /\ Len(buffer) >= MaxSize
  /\ made' = made + 1
  /\ dropped' = dropped + 1
  /\ UNCHANGED <<buffer, flushed, pc, batch, handler, read, handed>>

\* Faulty: a full buffer is not flushed.
Record_OffByOne(t) ==
  /\ made < MaxRecords /\ Len(buffer) < MaxSize
  /\ made' = made + 1
  /\ buffer' = Append(buffer, made')
  /\ \/ Move(t, "idle", "flush")
     \/ Len(buffer') <= MaxSize /\ Move(t, "idle", "idle")
  /\ UNCHANGED <<dropped, flushed, batch, handler, read, handed>>

\* record() that makes the buffer full, or finds the interval over, flushes.
Record(t) ==
  /\ made < MaxRecords
  /\ Len(buffer) < MaxSize
  /\ made' = made + 1
  /\ buffer' = Append(buffer, made')
  /\ \/ Move(t, "idle", "flush")
     \/ Len(buffer') < MaxSize /\ Move(t, "idle", "idle")
  /\ UNCHANGED <<dropped, flushed, batch, handler, read, handed>>

\* Faulty: the buffer is copied and not emptied.
Swap_Copies(t) ==
  /\ pc[t] \in {"idle", "flush"}
  /\ pc' = [pc EXCEPT ![t] = IF buffer = <<>> THEN "idle" ELSE "hand"]
  /\ batch' = [batch EXCEPT ![t] = buffer]
  /\ UNCHANGED <<buffer, dropped, flushed, handler, read, made, handed>>

\* flush(), by record() or by hand.
Swap(t) ==
  /\ pc[t] \in {"idle", "flush"}
  /\ pc' = [pc EXCEPT ![t] = IF buffer = <<>> THEN "idle" ELSE "hand"]
  /\ batch' = [batch EXCEPT ![t] = buffer]
  /\ buffer' = <<>>
  /\ UNCHANGED <<dropped, flushed, handler, read, made, handed>>

\* One handler is called; an exception it raises is swallowed.
Hand(t) ==
  /\ pc[t] = "hand"
  /\ handed' = [handed EXCEPT ![handler[t]] = @ \o batch[t]]
  /\ IF handler[t] < Handlers
       THEN handler' = [handler EXCEPT ![t] = @ + 1] /\ UNCHANGED pc
       ELSE handler' = [handler EXCEPT ![t] = 1] /\ Move(t, "hand", "add")
  /\ UNCHANGED <<buffer, dropped, flushed, batch, read, made>>

\* _total_flushed += len(to_flush), without the lock: it is read before the call
\* of len() and stored after it.
ReadFlushed(t) ==
  /\ Move(t, "add", "store")
  /\ read' = [read EXCEPT ![t] = flushed]
  /\ UNCHANGED <<buffer, dropped, flushed, batch, handler, made, handed>>

StoreFlushed(t) ==
  /\ Move(t, "store", "idle")
  /\ flushed' = read[t] + Len(batch[t])
  /\ batch' = [batch EXCEPT ![t] = <<>>]
  /\ read' = [read EXCEPT ![t] = 0]
  /\ UNCHANGED <<buffer, dropped, handler, made, handed>>

\* What a thread does until flush() returns, or record().
FinishFlush(t) == Hand(t) \/ ReadFlushed(t) \/ StoreFlushed(t)
Continue(t)    == (pc[t] = "flush" /\ Swap(t)) \/ FinishFlush(t)

\* Threads that use a buffer of their own, without an exporter.
BufferNext == \E t \in Threads : Drop(t) \/ Record(t) \/ Swap(t) \/ Continue(t)

-----------------------------------------------------------------------------
\* The threads whose batch has not reached handler h yet.
Pending(h) == {t \in Threads : pc[t] = "hand" /\ handler[t] <= h}

\* Every snapshot that was accepted is in the buffer, in one batch on its way to
\* the handler, or was handed to it, in one of these places and once.
HandedOnce ==
  \A h \in 1..Handlers :
    LET here == ToSet(handed[h]) \cup ToSet(buffer)
                  \cup UNION {ToSet(batch[t]) : t \in Pending(h)}
    IN  /\ Cardinality(here) = made - dropped
        /\ Len(handed[h]) = Cardinality(ToSet(handed[h]))

\* A buffer that is full has a thread on its way to flush it, so snapshots are
\* dropped only while that thread waits for the lock.
FullBufferIsFlushed ==
  Len(buffer) = MaxSize => \E t \in Threads : pc[t] = "flush"

\* The total get_stats() reports never exceeds what the handlers were given.
NeverOvercounts == flushed <= Len(handed[Handlers])
=============================================================================
