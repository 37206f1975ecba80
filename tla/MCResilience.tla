---------------------------- MODULE MCResilience ----------------------------
(***************************************************************************)
(* The parts of the package that stand between a caller and what may fail: *)
(* a behaviour has a load shedder, one hedged request, a fallback chain of *)
(* functions with timeouts, a health report, or a self-healing collector.  *)
(***************************************************************************)
EXTENDS LoadShedder, Sequences

CONSTANTS Backends, MaxConcurrency,
          Functions,
          Checks, Critical, MaxEntries,
          Threads, MaxRetries, MaxRecords, MaxRuns, MaxResets

VARIABLES
  part,   \* which of them
  staggered, caller, launched, backend, winner, errors, finished, event, result, failures,
  timedOut,
  turn, worker, expired, answer,
  entries, loop, results, overall, stable,
  registered, made, record, step, mine, attempt, alone, last, runs, resets

Hedge  == INSTANCE HedgedRequest
Chain  == INSTANCE TimedCalls
Health == INSTANCE HealthReporter
Heal   == INSTANCE SelfHealing

ASSUME PartsAssumption ==
  /\ Hedge!HedgeAssumption /\ Chain!ChainAssumption
  /\ Health!ReporterAssumption /\ Heal!HealingAssumption

hedgeVars    == <<staggered, caller, launched, backend, winner, errors, finished, event,
                  result, failures, timedOut>>
chainVars    == <<turn, worker, expired, answer>>
reporterVars == <<entries, loop, results, overall, stable>>
healingVars  == <<registered, made, record, step, mine, attempt, alone, last, runs, resets>>
allVars      == <<part, vars, hedgeVars, chainVars, reporterVars, healingVars>>

PartsInit ==
  /\ part \in {"shedder", "hedge", "chain", "health", "healing"}
  /\ Init /\ Hedge!Init /\ Chain!Init /\ Health!Init /\ Heal!Init
  /\ part = "hedge" \/ ~staggered

PartsNext ==
  /\ UNCHANGED part
  /\ \/ part = "shedder" /\ Next
        /\ UNCHANGED <<hedgeVars, chainVars, reporterVars, healingVars>>
     \/ part = "hedge" /\ Hedge!Next
        /\ UNCHANGED <<vars, chainVars, reporterVars, healingVars>>
     \/ part = "chain" /\ Chain!Next
        /\ UNCHANGED <<vars, hedgeVars, reporterVars, healingVars>>
     \/ part = "health" /\ Health!Next
        /\ UNCHANGED <<vars, hedgeVars, chainVars, healingVars>>
     \/ part = "healing" /\ Heal!Next
        /\ UNCHANGED <<vars, hedgeVars, chainVars, reporterVars>>

PartsSpec ==
  /\ PartsInit /\ [][PartsNext]_allVars
  /\ WF_hedgeVars(part = "hedge" /\ Hedge!Caller)
  /\ \A i \in Hedge!Selected : WF_hedgeVars(part = "hedge" /\ Hedge!Report(i))
  /\ WF_chainVars(part = "chain" /\ Chain!Caller)
  /\ WF_reporterVars(Health!Reporter)
  /\ \A t \in Threads : WF_healingVars(Heal!Proceed(t))

\* The event tells of a winner or of nothing left to wait for, and execute() fails in
\* time only with every error (hedged_request.py:101-146).
HedgeInv == part = "hedge" => Hedge!HedgeInv

\* An abandoned backend never takes the place of the winner (hedged_request.py:105-138).
FirstWins == [][Hedge!KeepsWinner]_hedgeVars

\* The first function that answers in time is the answer (patterns.py:147-201).
ChainInv == part = "chain" => Chain!ChainInv

\* A report tells of every check that was there all the while (health.py:72-130).
ReportInv == part = "health" => Health!ReportInv

\* A record nobody works on tells how its last run ended (self_healing.py:62-142).
HealingInv == part = "healing" => Heal!HealingInv

\* A hedged request, a chain, a health check and a collector's run end, though backends
\* and functions hang for ever and others replace what they work on
\* (hedged_request.py:134-146, patterns.py:160-201, health.py:72-116,
\* self_healing.py:62-89).
EveryCallReturns ==
  /\ part = "hedge" ~> caller = "done"
  /\ part = "chain" ~> answer # Chain!Pending
  /\ Health!Running ~> ~Health!Running
  /\ <>[](\A t \in Threads : step[t] = "idle")
=============================================================================
