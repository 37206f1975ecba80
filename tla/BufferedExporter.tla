-------------------------- MODULE BufferedExporter --------------------------
(***************************************************************************)
(* The BufferedExporter of performance/export_buffer.py over its           *)
(* ExportBuffer: one owner starts and stops background threads that        *)
(* capture the collector and flush.  Thread 0 is the owner, thread n the   *)
(* n-th background thread; all of them test the one stop event.            *)
(***************************************************************************)
EXTENDS ExportBuffer

CONSTANT MaxStarts   \* bound on the threads started

ASSUME ExporterAssumption == MaxStarts \in Nat /\ Threads = 0..MaxStarts

VARIABLES
  stopSet,        \* whether _stop_event is set
  thread,         \* _thread, or NoThread
  snapshotCount,  \* _snapshot_count
  owner,          \* where the owner is
  place,          \* where each background thread is
  started,        \* how many were started
  timedOut        \* history: a join of stop() has timed out

exporterVars == <<stopSet, thread, snapshotCount, owner, place, started, timedOut>>
vars == <<bufferVars, exporterVars>>

Owner    == 0
NoThread == 0
Runners  == 1..MaxStarts

ExporterTypeOK ==
  /\ TypeOK
  /\ stopSet \in BOOLEAN
  /\ thread \in Runners \cup {NoThread}
  /\ snapshotCount \in 0..made
  /\ owner \in {"idle", "joining", "flushing", "closing"}
  /\ place \in [Runners -> {"new", "looping", "waiting", "capturing", "recording",
                            "flushing", "dead"}]
  /\ started \in 0..MaxStarts
  /\ timedOut \in BOOLEAN

Init ==
  /\ BufferInit
  /\ stopSet = FALSE /\ thread = NoThread /\ snapshotCount = 0
  /\ owner = "idle" /\ place = [r \in Runners |-> "new"] /\ started = 0
  /\ timedOut = FALSE

Alive(r) == place[r] \notin {"new", "dead"}
Reach(r, from, to) == place[r] = from /\ place' = [place EXCEPT ![r] = to]

-----------------------------------------------------------------------------

\* start() by the owner; it returns at once if the thread it knows is alive.
Start ==
  /\ owner = "idle" /\ started < MaxStarts
  /\ thread # NoThread => ~Alive(thread)
  /\ stopSet' = FALSE
  /\ started' = started + 1
  /\ thread' = started'
  /\ Reach(started', "new", "looping")
  /\ UNCHANGED <<bufferVars, snapshotCount, owner, timedOut>>

\* stop(): the event is set, the thread is joined for a while and forgotten, ...
Stop ==
  /\ owner = "idle"
  /\ stopSet' = TRUE
  /\ owner' = IF thread = NoThread THEN "flushing" ELSE "joining"
  /\ UNCHANGED <<bufferVars, thread, snapshotCount, place, started, timedOut>>

Forget ==
  /\ owner = "joining"
  /\ thread' = NoThread /\ owner' = "flushing"
  /\ UNCHANGED <<bufferVars, stopSet, snapshotCount, place, started>>

\* Faulty: the thread is not waited for.
Join_AtOnce == Forget /\ UNCHANGED timedOut

Join == Forget /\ ~Alive(thread) /\ UNCHANGED timedOut

\* A handler may take longer than stop() waits.
JoinTimesOut == Forget /\ Alive(thread) /\ timedOut' = TRUE

\* ... and what remains is flushed.
FlushRest ==
  /\ owner = "flushing"
  /\ Swap(Owner)
  /\ owner' = "closing"
  /\ UNCHANGED <<stopSet, thread, snapshotCount, place, started, timedOut>>

Stopped ==
  /\ owner = "closing" /\ pc[Owner] = "idle"
  /\ owner' = "idle"
  /\ UNCHANGED <<bufferVars, stopSet, thread, snapshotCount, place, started, timedOut>>

-----------------------------------------------------------------------------

\* Faulty: the loop does not test the event.
TestLoop_Always(r) ==
  /\ Reach(r, "looping", "waiting")
  /\ UNCHANGED <<bufferVars, stopSet, thread, snapshotCount, owner, started, timedOut>>

\* _run(): the loop tests the event, ...
TestLoop(r) ==
  /\ Reach(r, "looping", IF stopSet THEN "dead" ELSE "waiting")
  /\ UNCHANGED <<bufferVars, stopSet, thread, snapshotCount, owner, started, timedOut>>

\* ... waits for it or for the interval, and tests it again.
EndWait(r) ==
  /\ stopSet \/ made + Cardinality({s \in Runners : place[s] = "capturing"}) < MaxRecords
  /\ Reach(r, "waiting", IF stopSet THEN "looping" ELSE "capturing")
  /\ UNCHANGED <<bufferVars, stopSet, thread, snapshotCount, owner, started, timedOut>>

\* The snapshot is recorded, which may flush, is counted and is flushed.
Capture(r) ==
  /\ Reach(r, "capturing", "recording")
  /\ Record(r) \/ Drop(r)
  /\ UNCHANGED <<stopSet, thread, snapshotCount, owner, started, timedOut>>

CountAndFlush(r) ==
  /\ pc[r] = "idle"
  /\ Reach(r, "recording", "flushing")
  /\ snapshotCount' = snapshotCount + 1
  /\ Swap(r)
  /\ UNCHANGED <<stopSet, thread, owner, started, timedOut>>

Flushed(r) ==
  /\ pc[r] = "idle"
  /\ Reach(r, "flushing", "looping")
  /\ UNCHANGED <<bufferVars, stopSet, thread, snapshotCount, owner, started, timedOut>>

\* record() and flush() go on in whatever thread called them.
FlushGoesOn == FinishFlush(Owner) /\ UNCHANGED exporterVars
GoOn(r)     == Continue(r) /\ UNCHANGED exporterVars

OwnerGoesOn == Join \/ JoinTimesOut \/ FlushRest \/ FlushGoesOn \/ Stopped
Run(r) == \/ TestLoop(r) \/ EndWait(r) \/ Capture(r) \/ CountAndFlush(r)
          \/ Flushed(r) \/ GoOn(r)

ExporterNext == Start \/ Stop \/ OwnerGoesOn \/ \E r \in Runners : Run(r)

ExporterSpec == Init /\ [][ExporterNext]_vars

-----------------------------------------------------------------------------
\* However exporters overlap when joins time out, each snapshot goes once to each
\* handler, the total of the flushed never runs ahead of the handlers, and a full
\* buffer has a thread on its way to flush it.
ExporterInv ==
  ExporterTypeOK /\ HandedOnce /\ NeverOvercounts /\ FullBufferIsFlushed

\* If no join has timed out: once stop() has returned, and until the next start(),
\* no background thread is left and every snapshot that was counted was handed to
\* every handler, once and in order.
StopLeavesNothing ==
  owner = "idle" /\ stopSet /\ ~timedOut =>
    /\ \A r \in Runners : ~Alive(r)
    /\ buffer = <<>>
    /\ flushed = snapshotCount
    /\ \A h \in 1..Handlers : handed[h] = [i \in 1..snapshotCount |-> i]

\* A thread that stop() has forgotten notices the event and ends, unless a new
\* start() clears the event first.
StopEndsThread == \A r \in Runners : stopSet /\ Alive(r) ~> ~stopSet \/ ~Alive(r)
=============================================================================
