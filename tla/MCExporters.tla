---------------------------- MODULE MCExporters ----------------------------
(***************************************************************************)
(* The buffers that are flushed in batches: the export buffer in its two   *)
(* uses, by threads that record and flush it directly or by a              *)
(* BufferedExporter, and the batch counter.                                *)
(***************************************************************************)
EXTENDS BufferedExporter

CONSTANTS Keys, BatchSize, MaxCardinality, MaxIncs

VARIABLES use,   \* "direct", "exporter" or "batch"
          pending, pendingCount, known, values, step, applied, incs, lost

Batch == INSTANCE BatchCounter
  WITH buffer <- pending, bufferCount <- pendingCount, pc <- step, batch <- applied,
       dropped <- lost

ASSUME CountersAssumption == Batch!BatchAssumption

batchVars == <<pending, pendingCount, known, values, step, applied, incs, lost>>

UsesInit == use \in {"direct", "exporter", "batch"} /\ Init /\ Batch!Init

UsesNext ==
  /\ UNCHANGED use
  /\ \/ use = "direct" /\ BufferNext /\ UNCHANGED <<exporterVars, batchVars>>
     \/ use = "exporter" /\ ExporterNext /\ UNCHANGED batchVars
     \/ use = "batch" /\ Batch!Next /\ UNCHANGED vars

\* Threads are scheduled and handlers return; nobody need call start or stop.
UsesSpec ==
  /\ UsesInit /\ [][UsesNext]_<<use, vars, batchVars>>
  /\ WF_vars(use = "exporter" /\ OwnerGoesOn)
  /\ \A r \in Runners : WF_vars(use = "exporter" /\ Run(r))
  /\ \A t \in Threads : WF_batchVars(Batch!GoesOn(t))

\* Every increment is in one place, and a batch that is full is on its way
\* (batching.py:47-81).
BatchInv == use = "batch" => Batch!BatchInv

\* A batch that is full does not stay full (batching.py:47-75).
BufferDrains == pendingCount >= BatchSize ~> pendingCount < BatchSize
=============================================================================
