---------------------------- MODULE SelfHealing ----------------------------
(***************************************************************************)
(* The SelfHealingCollector of self_sufficiency/self_healing.py: threads   *)
(* run one named collector, with retries, on the record they looked up at  *)
(* the start, while it is reset, unregistered or registered anew.  Only    *)
(* the two maps are locked, a record is not.  Records are numbered.        *)
(***************************************************************************)
EXTENDS Integers, FiniteSets

CONSTANTS Threads,
          MaxRetries,                    \* max_retries
          MaxRecords, MaxRuns, MaxResets \* bounds on the records, runs and resets

HealingAssumption ==
  {MaxRetries, MaxRecords, MaxRuns, MaxResets} \subseteq Nat /\ MaxRecords # 0

VARIABLES
  registered,   \* the record in _records, 0 if there is none
  made,         \* the number of records made
  record,       \* the fields of each record
  step,         \* where each thread is
  mine,         \* the record each thread works on
  attempt,      \* its loop variable
  alone,        \* history: whether nobody else has touched its record meanwhile
  last,         \* history: how the last run of each record ended, if it was alone
  runs, resets  \* history: the number of runs and of resets

healingVars == <<registered, made, record, step, mine, attempt, alone, last, runs, resets>>

Records == 1..MaxRecords
Record  == [status : {"idle", "running", "failed", "recovering"},
            failures : Nat, recoveries : Nat, runs : Nat]
NewRecord == [status |-> "idle", failures |-> 0, recoveries |-> 0, runs |-> 0]

TypeOK ==
  /\ registered \in 0..made /\ made \in 0..MaxRecords /\ record \in [Records -> Record]
  /\ step \in [Threads -> {"idle", "starting", "calling", "counted", "failed"}]
  /\ mine \in [Threads -> Records] /\ attempt \in [Threads -> 0..MaxRetries]
  /\ alone \in [Threads -> BOOLEAN] /\ runs \in 0..MaxRuns /\ resets \in 0..MaxResets
  /\ last \in [Records -> {"none", "good", "bad", "mixed"}]

Init ==
  /\ registered = 0 /\ made = 0 /\ record = [r \in Records |-> NewRecord]
  /\ step = [t \in Threads |-> "idle"] /\ mine = [t \in Threads |-> 1]
  /\ attempt = [t \in Threads |-> 0] /\ alone = [t \in Threads |-> TRUE]
  /\ last = [r \in Records |-> "none"] /\ runs = 0 /\ resets = 0

Runners(r) == {t \in Threads : step[t] # "idle" /\ mine[t] = r}
Goto(t, s) == step' = [step EXCEPT ![t] = s]
Disturb(r) == alone' = [t \in Threads |-> alone[t] /\ mine[t] # r]

\* register() replaces the record of the name.
Register ==
  /\ made < MaxRecords /\ made' = made + 1 /\ registered' = made'
  /\ UNCHANGED <<record, step, mine, attempt, alone, last, runs, resets>>

Unregister ==
  /\ registered # 0 /\ registered' = 0
  /\ UNCHANGED <<made, record, step, mine, attempt, alone, last, runs, resets>>

\* reset() and reset_all().
Reset ==
  /\ registered # 0 /\ resets < MaxResets /\ resets' = resets + 1
  /\ record' = [record EXCEPT ![registered].status = "idle", ![registered].failures = 0]
  /\ last' = [last EXCEPT ![registered] = IF Runners(registered) = {} THEN "none" ELSE "mixed"]
  /\ Disturb(registered)
  /\ UNCHANGED <<registered, made, step, mine, attempt, runs>>

\* run(): the look-up.
Begin(t) ==
  /\ step[t] = "idle" /\ registered # 0 /\ runs < MaxRuns /\ runs' = runs + 1
  /\ Goto(t, "starting") /\ mine' = [mine EXCEPT ![t] = registered]
  /\ attempt' = [attempt EXCEPT ![t] = 0]
  /\ alone' = [u \in Threads |-> IF u = t THEN Runners(registered) = {}
                                ELSE alone[u] /\ mine[u] # registered]
  /\ UNCHANGED <<registered, made, record, last, resets>>

\* An attempt, from its beginning, or from the end of the back-off, to the call of fn.
Attempt(t) ==
  /\ step[t] = "starting" /\ Goto(t, "calling")
  /\ record' = [record EXCEPT ![mine[t]].status = "running"]
  /\ UNCHANGED <<registered, made, mine, attempt, alone, last, runs, resets>>

End(t, how) == last' = [last EXCEPT ![mine[t]] = IF alone[t] THEN how ELSE "mixed"]

\* Faulty: the failures are not forgotten.
Cleared_Kept(rec) == [rec EXCEPT !.runs = @ + 1]

Cleared(rec) == [rec EXCEPT !.runs = @ + 1, !.failures = 0]

\* A good run leaves the status at RUNNING.
Succeed(t) ==
  /\ step[t] = "calling" /\ Goto(t, "idle") /\ End(t, "good")
  /\ record' = [record EXCEPT ![mine[t]] = Cleared(@)]
  /\ UNCHANGED <<registered, made, mine, attempt, alone, runs, resets>>

\* The failure is counted before the clock is read and marked after it.
Fail(t) ==
  /\ step[t] = "calling" /\ Goto(t, "counted")
  /\ record' = [record EXCEPT ![mine[t]].failures = @ + 1]
  /\ UNCHANGED <<registered, made, mine, attempt, alone, last, runs, resets>>

MarkFailed(t) ==
  /\ step[t] = "counted" /\ Goto(t, "failed")
  /\ record' = [record EXCEPT ![mine[t]].status = "failed"]
  /\ UNCHANGED <<registered, made, mine, attempt, alone, last, runs, resets>>

Recover(t) ==
  /\ step[t] = "failed" /\ attempt[t] < MaxRetries /\ Goto(t, "starting")
  /\ attempt' = [attempt EXCEPT ![t] = @ + 1]
  /\ record' = [record EXCEPT ![mine[t]].status = "recovering", ![mine[t]].recoveries = @ + 1]
  /\ UNCHANGED <<registered, made, mine, alone, last, runs, resets>>

GiveUp(t) ==
  /\ step[t] = "failed" /\ attempt[t] = MaxRetries /\ Goto(t, "idle") /\ End(t, "bad")
  /\ record' = [record EXCEPT ![mine[t]].status = "failed"]
  /\ UNCHANGED <<registered, made, mine, attempt, alone, runs, resets>>

\* What a thread does once it has begun, if fn returns.
Proceed(t) == \/ Attempt(t) \/ Succeed(t) \/ Fail(t) \/ MarkFailed(t)
              \/ Recover(t) \/ GiveUp(t)

Next == Register \/ Unregister \/ Reset \/ \E t \in Threads : Begin(t) \/ Proceed(t)

-----------------------------------------------------------------------------
\* A record nobody works on is not left recovering, and after a run that had it to
\* itself it tells how that run ended: failed after at least as many failures as
\* there are attempts, or without a failure; a record nobody has run since it was
\* made or reset is idle (self_healing.py:62-89, 127-142).
HealingInv ==
  /\ TypeOK
  /\ \A r \in Records : Runners(r) = {} =>
       /\ record[r].status # "recovering"
       /\ last[r] = "bad" => record[r].status = "failed" /\ record[r].failures > MaxRetries
       /\ last[r] = "good" => record[r].status = "running" /\ record[r].failures = 0
       /\ last[r] = "none" => record[r].status = "idle" /\ record[r].failures = 0
=============================================================================
