----------------------------- MODULE MCBreakers -----------------------------
(***************************************************************************)
(* A circuit breaker and what calls it: the coroutines of resilient_request*)
(* in one event loop, the threads of resilient_fetch, or callers that also *)
(* report to a tuner, which changes its settings.                          *)
(***************************************************************************)
EXTENDS ResilientRequest

CONSTANTS HistorySize, MinFailures, MaxRecoveries, BurstWindow, FirstThreshold,
          FirstTimeout, MaxCalls, MaxTicks

VARIABLES
  part,   \* "tasks", "threads" or "tuner"
  shared, wall, at, clock, tries, answer, streak,
  settings, cb, clockNow, owing, failed, trips, recoveries, recovered, advice, opens,
  highest, calls

Fetch == INSTANCE ResilientFetch
  WITH breaker <- shared, now <- wall, pc <- at, attempt <- tries, result <- answer,
       failRun <- streak

Tuner == INSTANCE CircuitTuner

ASSUME CallersAssumption == Fetch!FetchAssumption /\ Tuner!TuningAssumption

threadVars == <<shared, wall, at, clock, tries, answer, streak>>
tuningVars == <<settings, cb, clockNow, owing, failed, trips, recoveries, recovered,
                advice, opens, highest, calls>>
allVars    == <<part, vars, threadVars, tuningVars>>

BreakersInit ==
  part \in {"tasks", "threads", "tuner"} /\ Init /\ Fetch!Init /\ Tuner!Init

BreakersNext ==
  /\ UNCHANGED part
  /\ \/ part = "tasks" /\ Next /\ UNCHANGED <<threadVars, tuningVars>>
     \/ part = "threads" /\ Fetch!Next /\ UNCHANGED <<vars, tuningVars>>
     \/ part = "tuner" /\ Tuner!Next /\ UNCHANGED <<vars, threadVars>>

CallGoesOn(c) == \/ Proceed(c) /\ UNCHANGED threadVars
                 \/ Fetch!Proceed(c) /\ UNCHANGED vars

BreakersSpec ==
  /\ BreakersInit /\ [][BreakersNext]_allVars
  /\ \A c \in Calls : WF_<<vars, threadVars>>(CallGoesOn(c))

\* Threads inside the methods of the unlocked breaker neither hide a run of failures
\* nor count a call twice (_base.py:80-128, 200-238).
FetchInv == part = "threads" => Fetch!FetchInv

\* A call that was let through comes to an end, however often it retries and whatever
\* the others do to the breaker: from some time on no call is under way
\* (_base.py:200-238, 273-317).
AdmittedCallsEnd ==
  <>[](\A c \in Calls : {pc[c], at[c]} \subseteq {"new", "done"})

\* The tuner misses no trip and advises by the latest recoveries, and settings it applies
\* while the circuit counts do not keep it closed (circuit_tuner.py:65-182).
TuningInv == part = "tuner" => Tuner!TuningInv
=============================================================================
