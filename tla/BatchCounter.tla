---------------------------- MODULE BatchCounter ----------------------------
(***************************************************************************)
(* The BatchCounter of performance/batching.py over the Counter of         *)
(* metrics.py.  A flush swaps the buffer under the batch lock and then     *)
(* moves what was in it, label set by label set, under the counter's lock. *)
(***************************************************************************)
EXTENDS Integers, FiniteSets, Functions

CONSTANTS Threads, Keys,    \* threads, and sets of labels
          BatchSize,        \* batch_size
          MaxCardinality,   \* max_cardinality of the underlying counter
          MaxIncs           \* bound on the increments

BatchAssumption ==
  /\ BatchSize \in Nat \ {0} /\ MaxCardinality \in Nat /\ MaxIncs \in Nat
  /\ IsFiniteSet(Threads) /\ IsFiniteSet(Keys)

VARIABLES
  buffer, bufferCount,   \* _buffer and _buffer_count
  known, values,         \* the keys of Counter._values, and what they map to
  pc,                    \* where each thread is
  batch,                 \* to_flush of each thread
  incs, dropped          \* history: increments made, and dropped by the counter

vars == <<buffer, bufferCount, known, values, pc, batch, incs, dropped>>

Nothing == [k \in Keys |-> 0]

TypeOK ==
  /\ buffer \in [Keys -> Nat] /\ bufferCount \in Nat
  /\ known \subseteq Keys /\ Cardinality(known) <= MaxCardinality
  /\ values \in [Keys -> Nat] /\ \A k \in Keys \ known : values[k] = 0
  /\ pc \in [Threads -> {"idle", "flush", "apply"}]
  /\ batch \in [Threads -> [Keys -> Nat]]
  /\ incs \in [Keys -> Nat] /\ dropped \in [Keys -> Nat]

Init ==
  /\ buffer = Nothing /\ bufferCount = 0
  /\ known = {} /\ values = Nothing
  /\ pc = [t \in Threads |-> "idle"]
  /\ batch = [t \in Threads |-> Nothing]
  /\ incs = Nothing /\ dropped = Nothing

Move(t, from, to) == pc[t] = from /\ pc' = [pc EXCEPT ![t] = to]

\* Faulty: a batch that is full is not flushed.
Inc_OffByOne(t, k) ==
  /\ SumFunction(incs) < MaxIncs
  /\ buffer' = [buffer EXCEPT ![k] = @ + 1]
  /\ bufferCount' = bufferCount + 1
  /\ \/ Move(t, "idle", "flush")
     \/ bufferCount' <= BatchSize /\ Move(t, "idle", "idle")
  /\ incs' = [incs EXCEPT ![k] = @ + 1]
  /\ UNCHANGED <<known, values, batch, dropped>>

\* inc(): the batch is full, or the interval is over, or neither.
Inc(t, k) ==
  /\ SumFunction(incs) < MaxIncs
  /\ buffer' = [buffer EXCEPT ![k] = @ + 1]
  /\ bufferCount' = bufferCount + 1
  /\ \/ Move(t, "idle", "flush")
     \/ bufferCount' < BatchSize /\ Move(t, "idle", "idle")
  /\ incs' = [incs EXCEPT ![k] = @ + 1]
  /\ UNCHANGED <<known, values, batch, dropped>>

\* Faulty: the buffer is copied and not emptied.
Swap_Copies(t) ==
  /\ pc[t] \in {"idle", "flush"}
  /\ pc' = [pc EXCEPT ![t] = IF buffer = Nothing THEN "idle" ELSE "apply"]
  /\ batch' = [batch EXCEPT ![t] = buffer]
  /\ bufferCount' = 0
  /\ UNCHANGED <<buffer, known, values, incs, dropped>>

\* Faulty: the count is not reset with the buffer.
Swap_KeepsCount(t) ==
  /\ pc[t] \in {"idle", "flush"}
  /\ pc' = [pc EXCEPT ![t] = IF buffer = Nothing THEN "idle" ELSE "apply"]
  /\ batch' = [batch EXCEPT ![t] = buffer]
  /\ buffer' = Nothing
  /\ UNCHANGED <<bufferCount, known, values, incs, dropped>>

\* flush(), called by inc(), by to_prometheus() or by a user: the swap, ...
Swap(t) ==
  /\ pc[t] \in {"idle", "flush"}
  /\ pc' = [pc EXCEPT ![t] = IF buffer = Nothing THEN "idle" ELSE "apply"]
  /\ batch' = [batch EXCEPT ![t] = buffer]
  /\ buffer' = Nothing /\ bufferCount' = 0
  /\ UNCHANGED <<known, values, incs, dropped>>

\* ... and Counter.inc(amount) for each label set, which the counter drops if it
\* is new and the counter is full.
Fits(k) == k \in known \/ Cardinality(known) < MaxCardinality

Apply(t, k) ==
  /\ pc[t] = "apply" /\ batch[t][k] > 0
  /\ batch' = [batch EXCEPT ![t][k] = 0]
  /\ pc' = [pc EXCEPT ![t] = IF batch'[t] = Nothing THEN "idle" ELSE "apply"]
  /\ IF Fits(k)
       THEN /\ known' = known \cup {k}
            /\ values' = [values EXCEPT ![k] = @ + batch[t][k]]
            /\ UNCHANGED dropped
       ELSE /\ dropped' = [dropped EXCEPT ![k] = @ + batch[t][k]]
            /\ UNCHANGED <<known, values>>
  /\ UNCHANGED <<buffer, bufferCount, incs>>

Flush(t) == Swap(t) \/ \E k \in Keys : Apply(t, k)

Next == \E t \in Threads : Flush(t) \/ \E k \in Keys : Inc(t, k)

Spec == Init /\ [][Next]_vars

\* A flush that inc() began is carried on; nobody need begin one by hand.
GoesOn(t) == pc[t] # "idle" /\ Flush(t)

-----------------------------------------------------------------------------
\* Every increment is in the buffer, in the batch of one thread, in the counter
\* or dropped for its label set: concurrent flushes count none twice.
Conserved ==
  \A k \in Keys :
    incs[k] = buffer[k] + SumFunction([t \in Threads |-> batch[t][k]])
                        + values[k] + dropped[k]

\* A buffer that has reached the batch size has a thread on its way to flush it,
\* so it outgrows the batch size by less than one increment per thread.
FullBatchIsFlushed ==
  /\ bufferCount = SumFunction(buffer)
  /\ bufferCount >= BatchSize => \E t \in Threads : pc[t] = "flush"
  /\ bufferCount < BatchSize + Cardinality(Threads)

BatchInv == TypeOK /\ Conserved /\ FullBatchIsFlushed
=============================================================================
