--------------------------- MODULE OfflineStorage ---------------------------
(***************************************************************************)
(* The OfflineStorage of self_sufficiency/offline_storage.py: a list in    *)
(* memory, emptied into files named after the millisecond of their         *)
(* writing, and a sync that replays both.  Only the list is locked.  The   *)
(* entries are numbered; a process may crash, which leaves the files.      *)
(***************************************************************************)
EXTENDS Integers, Sequences, Functions

CONSTANTS Threads,
          MaxEntries,    \* max_entries
          BatchSize,     \* batch_size
          MaxRecords,    \* bound on the entries
          MaxTime,       \* bound on the clock, in milliseconds
          MaxCrashes     \* bound on the crashes

StorageAssumption ==
  /\ MaxEntries \in Nat \ {0} /\ BatchSize \in Nat \ {0}
  /\ MaxRecords \in Nat /\ MaxTime \in Nat /\ MaxCrashes \in Nat

VARIABLES
  memory,      \* _buffer
  disk,        \* the entries of the file of each millisecond, none if there is no file
  ms,          \* time.time() * 1000
  job,         \* what each thread is doing, see Jobs
  stored,      \* history: entries stored; their number is _total_stored
  synced,      \* history: the entries sync_fn has accepted
  lost,        \* history: the entries lost to a crash or to a file, or cleared
  unsaved,     \* history: the entries of a write that raised and put nothing back
  swept,       \* history: the entries a sync removed without having read them
  crashes      \* history: the number of crashes

storageVars == <<memory, disk, ms, job, stored, synced, lost, swept, unsaved, crashes>>

Records == 1..MaxRecords
Files   == 0..MaxTime
Steps   == {"idle", "writing", "copied", "sending", "clearing", "deleting", "wiping"}

\* A call: hand is to_write of store_to_disk() or all_entries of sync(), sent its
\* offset, failed whether a batch has failed.
Jobs == [step : Steps, hand : Seq(Records), onDisk : BOOLEAN, sent : Nat, failed : BOOLEAN]
Idle == [step |-> "idle", hand |-> <<>>, onDisk |-> FALSE, sent |-> 0, failed |-> FALSE]

TypeOK ==
  /\ memory \in Seq(Records) /\ disk \in [Files -> Seq(Records)] /\ ms \in Files
  /\ job \in [Threads -> Jobs] /\ stored \in 0..MaxRecords /\ crashes \in 0..MaxCrashes
  /\ synced \subseteq Records /\ lost \subseteq Records /\ swept \subseteq Records
  /\ unsaved \subseteq Records

Init ==
  /\ memory = <<>> /\ disk = [f \in Files |-> <<>>] /\ ms = 0
  /\ job = [t \in Threads |-> Idle]
  /\ stored = 0 /\ synced = {} /\ lost = {} /\ swept = {} /\ unsaved = {}
  /\ crashes = 0

At(t, s) == job[t].step = s
Do(t, j) == job' = [job EXCEPT ![t] = j]
Prefix(s, n) == SubSeq(s, 1, IF n < Len(s) THEN n ELSE Len(s))
Rest(s, n) == SubSeq(s, n + 1, Len(s))

\* load_from_disk(): the files in the order of their names; one whose reading fails
\* gives the lines before the failure, and the loop goes on to the next.
InOrder(files) ==
  LET upTo[f \in Files] == IF f = 0 THEN files[f] ELSE upTo[f - 1] \o files[f]
  IN  upTo[MaxTime]
Loaded == {InOrder([f \in Files |-> Prefix(disk[f], cut[f])]) :
             cut \in {c \in [Files -> 0..MaxRecords] : \A f \in Files : c[f] <= Len(disk[f])}}

-----------------------------------------------------------------------------
\* store() refuses an entry when the list is full, and then changes nothing.
Store(t) ==
  /\ At(t, "idle") /\ stored < MaxRecords /\ Len(memory) < MaxEntries
  /\ stored' = stored + 1 /\ memory' = Append(memory, stored')
  /\ UNCHANGED <<disk, ms, job, synced, lost, swept, unsaved, crashes>>

\* store_to_disk() takes the list under the lock ...
TakeAll(t) ==
  /\ At(t, "idle") /\ memory # <<>>
  /\ Do(t, [Idle EXCEPT !.step = "writing", !.hand = memory]) /\ memory' = <<>>
  /\ UNCHANGED <<disk, ms, stored, synced, lost, swept, unsaved, crashes>>

\* The file of this millisecond is opened, which empties it, and holds the entries s.
Replace(s) == disk' = [disk EXCEPT ![ms] = s]

\* ... and writes it without the lock.
Write(t) ==
  /\ At(t, "writing") /\ Do(t, Idle)
  /\ Replace(job[t].hand) /\ lost' = lost \cup Range(disk[ms])
  /\ UNCHANGED <<memory, ms, stored, synced, swept, unsaved, crashes>>

\* Faulty: what was not written is not put back.
PutBack_Drops(s) == memory' = memory

\* What was not written goes back to the list, beyond max_entries if need be.
PutBack(s) == memory' = memory \o s

\* An OSError of open() puts all back; one of f.write() comes after n calls that
\* returned, m of which reach the file, and puts back the rest.
WriteFails(t) ==
  LET hand == job[t].hand IN
  /\ At(t, "writing") /\ Do(t, Idle)
  /\ \/ PutBack(hand) /\ UNCHANGED <<disk, lost>>
     \/ \E n \in 0..Len(hand) : \E m \in 0..n :
          /\ Replace(Prefix(hand, m)) /\ PutBack(Rest(hand, n))
          /\ lost' = lost \cup Range(disk[ms]) \cup Range(Rest(Prefix(hand, n), m))
  /\ UNCHANGED <<ms, stored, synced, swept, unsaved, crashes>>

\* What is raised outside the try, by mkdir(), or is no OSError, by json.dumps() for the
\* entry after the first n, goes to the caller, and nothing is put back.
WriteRaises(t) ==
  LET hand == job[t].hand IN
  /\ At(t, "writing") /\ Do(t, Idle)
  /\ \/ unsaved' = unsaved \cup Range(hand) /\ UNCHANGED <<disk, lost>>
     \/ \E n \in 0..Len(hand) - 1 :
          /\ Replace(Prefix(hand, n)) /\ lost' = lost \cup Range(disk[ms])
          /\ unsaved' = unsaved \cup Range(Rest(hand, n))
  /\ UNCHANGED <<memory, ms, stored, synced, swept, crashes>>

-----------------------------------------------------------------------------
\* sync() copies the list under the lock, ...
Copy(t) ==
  /\ At(t, "idle")
  /\ \E d \in BOOLEAN :
       Do(t, [Idle EXCEPT !.step = "copied", !.hand = memory, !.onDisk = d])
  /\ UNCHANGED <<memory, disk, ms, stored, synced, lost, swept, unsaved, crashes>>

\* ... reads the files, and returns NO_DATA when there is nothing, ...
Load(t) ==
  /\ At(t, "copied")
  /\ \E found \in IF job[t].onDisk THEN Loaded ELSE {<<>>} :
       LET all == found \o job[t].hand IN
       Do(t, IF all = <<>> THEN Idle ELSE [job[t] EXCEPT !.step = "sending", !.hand = all])
  /\ UNCHANGED <<memory, disk, ms, stored, synced, lost, swept, unsaved, crashes>>

\* Faulty: a batch that was refused is not noted.
Outcome_Forgotten(j, ok) == j.failed

Outcome(j, ok) == j.failed \/ ~ok

\* ... gives it batch by batch to sync_fn, which accepts it, or refuses it or
\* raises; after the last one it returns PARTIAL or FAILED if any failed, ...
Send(t) ==
  LET j     == job[t]
      batch == Rest(Prefix(j.hand, j.sent + BatchSize), j.sent)
  IN
  /\ At(t, "sending")
  /\ \E ok \in BOOLEAN :
       /\ synced' = IF ok THEN synced \cup Range(batch) ELSE synced
       /\ Do(t, IF j.sent + BatchSize < Len(j.hand)
                  THEN [j EXCEPT !.sent = @ + BatchSize, !.failed = Outcome(j, ok)]
                ELSE IF Outcome(j, ok) THEN Idle
                ELSE [j EXCEPT !.step = "clearing", !.sent = 0])
  /\ UNCHANGED <<memory, disk, ms, stored, lost, swept, unsaved, crashes>>

\* ... and if none did it clears the list and then deletes the files, with whatever
\* has come into them meanwhile.
ClearMemory(t) ==
  /\ At(t, "clearing")
  /\ Do(t, IF job[t].onDisk THEN [job[t] EXCEPT !.step = "deleting"] ELSE Idle)
  /\ memory' = <<>> /\ swept' = swept \cup (Range(memory) \ Range(job[t].hand))
  /\ UNCHANGED <<disk, ms, stored, synced, lost, unsaved, crashes>>

\* _clear_disk_files(), of sync() or of clear(): a file whose unlink() fails stays.
ClearDiskFiles(t) ==
  /\ \E gone \in SUBSET {f \in Files : disk[f] # <<>>} :
       LET entries == UNION {Range(disk[f]) : f \in gone} IN
       /\ disk' = [f \in Files |-> IF f \in gone THEN <<>> ELSE disk[f]]
       /\ \/ /\ At(t, "deleting")
             /\ swept' = swept \cup (entries \ Range(job[t].hand)) /\ lost' = lost
          \/ At(t, "wiping") /\ lost' = lost \cup entries /\ swept' = swept
  /\ Do(t, Idle)
  /\ UNCHANGED <<memory, ms, stored, synced, unsaved, crashes>>

Clear(t) ==
  /\ At(t, "idle") /\ Do(t, [Idle EXCEPT !.step = "wiping"])
  /\ memory' = <<>> /\ lost' = lost \cup Range(memory)
  /\ UNCHANGED <<disk, ms, stored, synced, swept, unsaved, crashes>>

-----------------------------------------------------------------------------
Unwritten == UNION {Range(job[t].hand) : t \in {u \in Threads : At(u, "writing")}}
Held == Range(memory) \cup Range(InOrder(disk)) \cup Unwritten

\* The process dies: a file that was being written keeps its first lines, and the
\* next process finds the files.
Crash ==
  /\ crashes < MaxCrashes /\ crashes' = crashes + 1
  /\ \/ disk' = disk
     \/ \E t \in Threads : At(t, "writing") /\ \E n \in 0..Len(job[t].hand) :
          Replace(Prefix(job[t].hand, n))
  /\ memory' = <<>> /\ job' = [t \in Threads |-> Idle]
  /\ lost' = lost \cup (Held \ UNION {Range(disk'[f]) : f \in Files})
  /\ UNCHANGED <<ms, stored, synced, swept, unsaved>>

Tick ==
  /\ ms < MaxTime /\ ms' = ms + 1
  /\ UNCHANGED <<memory, disk, job, stored, synced, lost, swept, unsaved, crashes>>

Next == \/ \E t \in Threads :
             \/ Store(t) \/ TakeAll(t) \/ Write(t) \/ WriteFails(t) \/ WriteRaises(t)
             \/ Copy(t) \/ Load(t) \/ Send(t) \/ ClearMemory(t)
             \/ ClearDiskFiles(t) \/ Clear(t)
        \/ Crash \/ Tick

Spec == Init /\ [][Next]_storageVars

-----------------------------------------------------------------------------
\* An entry that was stored is in the list, in a file or in the hand of a writer
\* until sync_fn has accepted it, or it is lost in a way the history names: to a crash,
\* with a file, by clear(), under a sync that did not read it, or by a write that
\* raised.  A write that fails with the OSError it catches puts back what it did not
\* write.
NoneVanishes == 1..stored \subseteq Held \cup synced \cup lost \cup swept \cup unsaved

\* A sync that goes on to clear has had all it read accepted, so that one that does
\* not succeed leaves the list and the files alone.
ClearsDelivered ==
  \A t \in Threads :
    job[t].step \in {"clearing", "deleting"} => Range(job[t].hand) \subseteq synced

StorageInv == TypeOK /\ NoneVanishes /\ ClearsDelivered

\* offline_storage.py:3-4: "Buffers metrics to a local file when the remote backend
\* is unavailable. On reconnect, replays buffered data through a sync callback."
\* No entry is removed by a sync that did not replay it.
ReplaysAll == swept \subseteq synced
=============================================================================
