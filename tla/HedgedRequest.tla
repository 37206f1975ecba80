--------------------------- MODULE HedgedRequest ---------------------------
(***************************************************************************)
(* One execute() of resilience/hedged_request.py: the caller launches the  *)
(* backends, each in a thread of its own, and waits for the first success, *)
(* for the last failure or for the time to be up.  Threads it abandons run *)
(* on.  The outcome of a backend and its bookkeeping under count_lock are  *)
(* two steps; timeouts may expire at any moment.                           *)
(***************************************************************************)
EXTENDS Integers, FiniteSets

CONSTANTS Backends,         \* how many callables execute() is given
          MaxConcurrency    \* max_concurrency

HedgeAssumption == Backends \in Nat \ {0} /\ MaxConcurrency \in Nat \ {0}

VARIABLES
  staggered,   \* whether stagger_delay > 0
  caller,      \* "launching", "pausing", "waiting", "checking", "failing", "done"
  launched,    \* how many threads the caller has started
  backend,     \* where each thread is
  winner,      \* the index in the winner list, or NoWinner
  errors,      \* the backends whose failure is in the errors list
  finished,    \* finished_count[0]
  event,       \* whether result_event is set
  result,      \* what execute() returns: an index, Failed, or NoWinner before
  failures,    \* _total_failures
  timedOut     \* history: the last wait ended without the event

vars == <<staggered, caller, launched, backend, winner, errors, finished, event, result,
          failures, timedOut>>

UseCount == IF Backends < MaxConcurrency THEN Backends ELSE MaxConcurrency
Selected == 1..UseCount
NoWinner == 0
Failed   == -1

CallerPlace  == {"launching", "pausing", "waiting", "checking", "failing", "done"}
BackendPlace == {"new", "running", "succeeded", "raised", "won", "late", "failed"}

TypeOK ==
  /\ staggered \in BOOLEAN
  /\ caller \in CallerPlace
  /\ launched \in 0..UseCount
  /\ backend \in [Selected -> BackendPlace]
  /\ winner \in Selected \cup {NoWinner}
  /\ errors \subseteq Selected
  /\ finished \in 0..UseCount
  /\ event \in BOOLEAN /\ timedOut \in BOOLEAN
  /\ result \in Selected \cup {NoWinner, Failed}
  /\ failures \in 0..1

Init ==
  /\ staggered \in BOOLEAN
  /\ caller = "launching" /\ launched = 0
  /\ backend = [i \in Selected |-> "new"]
  /\ winner = NoWinner /\ errors = {} /\ finished = 0 /\ event = FALSE
  /\ result = NoWinner /\ failures = 0 /\ timedOut = FALSE

callerVars  == <<staggered, caller, launched, result, failures, timedOut>>
sharedVars  == <<winner, errors, finished, event>>

-----------------------------------------------------------------------------

\* The caller's loop: a thread is started; between two starts the caller pauses
\* if a stagger delay was asked for.
Launch ==
  /\ caller = "launching"
  /\ launched' = launched + 1
  /\ backend' = [backend EXCEPT ![launched'] = "running"]
  /\ caller' = IF launched' = UseCount THEN "waiting"
               ELSE IF staggered THEN "pausing" ELSE "launching"
  /\ UNCHANGED <<staggered, result, failures, timedOut, sharedVars>>

\* The pause ends with the event or with the delay; a winner ends the loop.
Resume ==
  /\ caller = "pausing"
  /\ caller' = IF winner # NoWinner THEN "waiting" ELSE "launching"
  /\ UNCHANGED <<staggered, launched, result, failures, timedOut, backend, sharedVars>>

Wait(expired) ==
  /\ caller = "waiting"
  /\ caller' = "checking"
  /\ timedOut' = expired
  /\ UNCHANGED <<staggered, launched, result, failures, backend, sharedVars>>

Awake   == event /\ Wait(FALSE)

\* Faulty: the caller waits without a timeout.
Expire_Never == FALSE

Expire  == ~event /\ Wait(TRUE)

Check ==
  /\ caller = "checking"
  /\ IF winner # NoWinner THEN caller' = "done" /\ result' = winner
                          ELSE caller' = "failing" /\ result' = result
  /\ UNCHANGED <<staggered, launched, failures, timedOut, backend, sharedVars>>

\* The failure is counted; the errors that are there by now are joined.
CountFailure ==
  /\ caller = "failing"
  /\ failures' = failures + 1
  /\ caller' = "done" /\ result' = Failed
  /\ UNCHANGED <<staggered, launched, timedOut, backend, sharedVars>>

-----------------------------------------------------------------------------
Move(i, from, to) == backend[i] = from /\ backend' = [backend EXCEPT ![i] = to]

Answer(i) == \/ Move(i, "running", "succeeded") /\ UNCHANGED <<callerVars, sharedVars>>
             \/ Move(i, "running", "raised") /\ UNCHANGED <<callerVars, sharedVars>>

\* Faulty: the winner does not set the event.
Win_Silent(i) ==
  /\ winner = NoWinner
  /\ Move(i, "succeeded", "won")
  /\ winner' = i /\ finished' = finished + 1
  /\ UNCHANGED <<callerVars, errors, event>>

\* Under count_lock: the first success is the winner ...
Win(i) ==
  /\ winner = NoWinner
  /\ Move(i, "succeeded", "won")
  /\ winner' = i /\ event' = TRUE
  /\ finished' = finished + 1
  /\ UNCHANGED <<callerVars, errors>>

\* Faulty: a late success takes the place of the winner.
Lose_Overwrites(i) ==
  /\ winner # NoWinner
  /\ Move(i, "succeeded", "late")
  /\ winner' = i /\ finished' = finished + 1
  /\ UNCHANGED <<callerVars, errors, event>>

Lose(i) ==
  /\ winner # NoWinner
  /\ Move(i, "succeeded", "late")
  /\ finished' = finished + 1
  /\ UNCHANGED <<callerVars, winner, errors, event>>

\* Faulty: any failure sets the event.
Fail_Wakes(i) ==
  /\ Move(i, "raised", "failed")
  /\ errors' = errors \cup {i}
  /\ finished' = finished + 1 /\ event' = TRUE
  /\ UNCHANGED <<callerVars, winner>>

\* ... and the last failure sets the event.
Fail(i) ==
  /\ Move(i, "raised", "failed")
  /\ errors' = errors \cup {i}
  /\ finished' = finished + 1
  /\ event' = (event \/ finished' >= UseCount)
  /\ UNCHANGED <<callerVars, winner>>

\* The caller is scheduled and its waits have timeouts; a backend that has an
\* answer reports it, but nothing makes a backend answer.
Report(i) == Win(i) \/ Lose(i) \/ Fail(i)

Caller  == Launch \/ Resume \/ Awake \/ Expire \/ Check \/ CountFailure
Backend(i) == Answer(i) \/ Report(i)

Next == Caller \/ \E i \in Selected : Backend(i)

Spec == Init /\ [][Next]_vars

-----------------------------------------------------------------------------
\* Unless its time is up, execute() fails only when every backend was launched
\* and raised, and then it reports every error; a success that was booked before
\* the caller looked is returned.
FailsOnlyIfAllFail ==
  result = Failed /\ ~timedOut => errors = Selected

\* An abandoned backend never takes the place of the winner, whose thread was
\* launched and did succeed, and the result is that winner for good.
KeepsWinner ==
  /\ winner # NoWinner => winner' = winner
  /\ winner' # NoWinner => backend'[winner'] = "won"
  /\ result # NoWinner => result' = result

\* The event is set if and only if there is a winner or nothing left to wait for,
\* so the caller is neither woken for nothing nor left to sleep out its timeout.
EventIsRight ==
  event <=> winner # NoWinner \/ errors = Selected

\* Why: finished counts the threads that are through, each once.
Through == {i \in Selected : backend[i] \in {"won", "late", "failed"}}

HedgeInv ==
  /\ TypeOK /\ EventIsRight /\ FailsOnlyIfAllFail
  /\ finished = Cardinality(Through)
  /\ \A i \in Selected : backend[i] # "new" <=> i <= launched
  /\ errors = {i \in Selected : backend[i] = "failed"}
  /\ \A i \in Selected : backend[i] = "late" => winner # NoWinner
  /\ \A i \in Selected : backend[i] = "won" <=> i = winner
=============================================================================
