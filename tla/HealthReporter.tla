--------------------------- MODULE HealthReporter ---------------------------
(***************************************************************************)
(* The HealthReporter of health.py: one thread runs every check of a dict, *)
(* each in a thread of its own that it does not wait for beyond a timeout, *)
(* while others register and unregister checks.  A dict that has changed   *)
(* its size, or yields more entries than it had when the loop began, ends  *)
(* the loop over it with a RuntimeError.                                   *)
(***************************************************************************)
EXTENDS Integers, Sequences, FiniteSets, Functions

CONSTANTS Checks, Critical,   \* names of checks, and those that are critical
          MaxEntries          \* bound on the entries the dict has ever had

Gap == "gap"

ReporterAssumption == Critical \subseteq Checks /\ Gap \notin Checks /\ MaxEntries \in Nat

VARIABLES
  entries,   \* _checks in the order of insertion; a removed one leaves a gap
  loop,      \* check_all(): the position and the size its loop began with
  results,   \* its results so far
  overall,   \* the status of the report, or "none", or "error"
  stable     \* history: the checks that were neither added nor removed since

reporterVars == <<entries, loop, results, overall, stable>>

Statuses == {"healthy", "degraded", "unhealthy"}
Live     == Range(entries) \ {Gap}
Idle     == [pos |-> 0, size |-> 0]
Running  == loop # Idle

TypeOK ==
  /\ entries \in Seq(Checks \cup {Gap}) /\ loop.pos \in Nat /\ loop.size \in Nat
  /\ results \in Seq(Checks \X Statuses) /\ overall \in Statuses \cup {"none", "error"}
  /\ stable \subseteq Checks

Init == /\ entries = <<>> /\ loop = Idle /\ results = <<>>
        /\ overall = "none" /\ stable = {}

\* register_check() of a name that is there changes no size and no order.
Register(c) ==
  /\ c \notin Live /\ Len(entries) < MaxEntries /\ entries' = Append(entries, c)
  /\ stable' = stable \ {c} /\ UNCHANGED <<loop, results, overall>>

Unregister(c) ==
  /\ c \in Live /\ stable' = stable \ {c}
  /\ entries' = [i \in DOMAIN entries |-> IF entries[i] = c THEN Gap ELSE entries[i]]
  /\ UNCHANGED <<loop, results, overall>>

CheckAll ==
  /\ ~Running /\ loop' = [pos |-> 1, size |-> Cardinality(Live)]
  /\ results' = <<>> /\ overall' = "none" /\ stable' = Live /\ UNCHANGED entries

FailStatus(c) == IF c \in Critical THEN "unhealthy" ELSE "degraded"

\* Faulty: a check that times out, after which the loop continues, is left out.
RunCheck_SkipsLate(c) ==
  results' \in {Append(results, <<c, "healthy">>), results}

\* The check answers True; or it answers False, raises or does not answer in time.
RunCheck(c) ==
  \E s \in {"healthy", FailStatus(c)} : results' = Append(results, <<c, s>>)

\* What next() of the dict's iterator finds: the size has changed, or the entries have
\* and there is one too many, or nothing is left.
Changed ==
  \/ Cardinality(Live) # loop.size
  \/ /\ Len(results) >= loop.size
     /\ \E i \in loop.pos..Len(entries) : entries[i] # Gap
AtEnd == loop.pos > Len(entries)

Step ==
  /\ Running /\ ~Changed /\ ~AtEnd
  /\ loop' = [loop EXCEPT !.pos = @ + 1]
  /\ IF entries[loop.pos] = Gap THEN UNCHANGED results ELSE RunCheck(entries[loop.pos])
  /\ UNCHANGED <<entries, overall, stable>>

LoopFails ==
  /\ Running /\ Changed
  /\ loop' = Idle /\ overall' = "error" /\ UNCHANGED <<entries, results, stable>>

\* After the last entry the worst status is that of the report.
Report ==
  LET found == {r[2] : r \in Range(results)} IN
  /\ Running /\ ~Changed /\ AtEnd
  /\ overall' = IF "unhealthy" \in found THEN "unhealthy"
                ELSE IF "degraded" \in found THEN "degraded" ELSE "healthy"
  /\ loop' = Idle /\ UNCHANGED <<entries, results, stable>>

Reporter == Step \/ LoopFails \/ Report

Next == CheckAll \/ Reporter \/ \E c \in Checks : Register(c) \/ Unregister(c)

-----------------------------------------------------------------------------
\* A report tells of each check that was registered all the while, of none twice even
\* if it was replaced meanwhile, and is healthy only if all of them are; a critical
\* check that fails makes it unhealthy, another one degraded at least
\* (health.py:72-116).
ReportInv ==
  /\ TypeOK
  /\ overall \in Statuses =>
       /\ \A c \in stable : \E r \in Range(results) : r[1] = c
       /\ \A i, j \in DOMAIN results : i # j => results[i][1] # results[j][1]
       /\ overall = "healthy" <=> \A r \in Range(results) : r[2] = "healthy"
       /\ overall = "unhealthy" <=>
            \E r \in Range(results) : r[1] \in Critical /\ r[2] # "healthy"
=============================================================================
