-------------------------- MODULE MCRateLimiters --------------------------
(***************************************************************************)
(* The two limiters of patterns.py, on the sliding window they share: a    *)
(* behaviour has threads on a RateLimiter, or tasks on an                  *)
(* AsyncRateLimiter.                                                       *)
(***************************************************************************)
EXTENDS RateLimiter

CONSTANTS Tasks, PollInterval, Timeouts

VARIABLES callers,   \* "threads" or "tasks"
          deadline, wakeAt, outcome

Async == INSTANCE AsyncRateLimiter

ASSUME TasksAssumption == Async!PollAssumption

taskVars == <<deadline, wakeAt, outcome>>
allVars  == <<callers, vars, taskVars>>

LimitersInit == callers \in {"threads", "tasks"} /\ Init /\ Async!Init

LimitersNext ==
  \/ callers = "threads" /\ Next /\ UNCHANGED <<callers, taskVars>>
  \/ callers = "tasks" /\ Async!Next /\ UNCHANGED <<callers, pc, clock>>

\* Time passes, and the event loop resumes a call whose sleep is over.
LimitersSpec ==
  /\ LimitersInit /\ [][LimitersNext]_allVars
  /\ WF_allVars(callers = "tasks" /\ Async!Tick /\ UNCHANGED <<callers, pc, clock>>)
  /\ \A c \in Tasks : WF_allVars(Async!Wake(c) /\ UNCHANGED <<callers, pc, clock>>)

\* The tasks of one event loop keep the limit in every window, and what wait() answers
\* to a thread is the time until the next request is admitted, neither sooner nor later
\* (patterns.py:112-121, 227-241).
WindowHolds == (callers = "tasks" => WindowLimit) /\ WaitIsExact

\* A call of wait(timeout) gives up at its deadline, neither sooner nor later, and
\* only if a last attempt found no room (patterns.py:243-266).
TimesOutOnTime == [][Async!GivesUpOnTime]_allVars

\* A call of wait() with a timeout is answered (patterns.py:243-266).
WaitEnds == Async!WaitEnds
=============================================================================
