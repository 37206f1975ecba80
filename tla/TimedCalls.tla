----------------------------- MODULE TimedCalls -----------------------------
(***************************************************************************)
(* A FallbackChain of patterns.py whose functions run under a Timeout each:*)
(* the caller waits for a thread, and on a timeout leaves it behind and    *)
(* tries the next function.  A function answers, raises an Exception, dies *)
(* of another BaseException, or hangs; the thread may do so late.          *)
(***************************************************************************)
EXTENDS Integers

CONSTANT Functions   \* the number of functions in the chain

ChainAssumption == Functions \in Nat \ {0}

VARIABLES
  turn,      \* the function the caller waits for, 0 before the first
  worker,    \* the thread of each function
  expired,   \* the functions that timed out
  answer     \* what execute() returned: a function's result, or an exception

chainVars == <<turn, worker, expired, answer>>

Fns     == 1..Functions
Pending == -1
Raised  == 0

TypeOK ==
  /\ turn \in 0..Functions /\ answer \in {Pending, Raised} \cup Fns
  /\ worker \in [Fns -> [state : {"none", "running", "value", "raised", "died"},
                         completed : BOOLEAN]]
  /\ expired \subseteq Fns

Init ==
  /\ turn = 0 /\ expired = {} /\ answer = Pending
  /\ worker = [f \in Fns |-> [state |-> "none", completed |-> FALSE]]

\* The loop of execute(): the next function, or the last exception.
NextFn(w) ==
  IF turn < Functions
    THEN /\ turn' = turn + 1 /\ UNCHANGED answer
         /\ worker' = [w EXCEPT ![turn + 1].state = "running"]
    ELSE answer' = Raised /\ worker' = w /\ UNCHANGED turn

Begin == turn = 0 /\ NextFn(worker) /\ UNCHANGED expired

\* _worker(): the function ends, and then the event is set, by whatever exit.
Finish(f) ==
  /\ worker[f].state = "running"
  /\ \E s \in {"value", "raised", "died"} : worker' = [worker EXCEPT ![f].state = s]
  /\ UNCHANGED <<turn, expired, answer>>

SetCompleted(f) ==
  /\ worker[f].state \in {"value", "raised", "died"} /\ ~worker[f].completed
  /\ worker' = [worker EXCEPT ![f].completed = TRUE]
  /\ UNCHANGED <<turn, expired, answer>>

Waiting == answer = Pending /\ turn # 0

\* Faulty: an exception is taken for an answer.
Answered_Always(f) == TRUE

Answered(f) == worker[f].state = "value"

\* The wait is over in time: the result, or the function's exception, or, if it died,
\* the IndexError of a result that is not there.
Take ==
  /\ Waiting /\ worker[turn].completed
  /\ IF Answered(turn) THEN answer' = turn /\ UNCHANGED <<turn, worker>> ELSE NextFn(worker)
  /\ UNCHANGED expired

\* Faulty: the wait has no timeout.
TimedOut_Never == FALSE

TimedOut == ~worker[turn].completed

Expire == Waiting /\ TimedOut /\ expired' = expired \cup {turn} /\ NextFn(worker)

Next == Begin \/ Take \/ Expire \/ \E f \in Fns : Finish(f) \/ SetCompleted(f)

\* The caller goes on; a function need not.
Caller == Begin \/ Take \/ Expire

-----------------------------------------------------------------------------
Failed(f) == f \in expired \/ worker[f].state \in {"raised", "died"}

\* The answer is that of the first function that did not fail in time, and no later
\* one was started; an exception means that all failed (patterns.py:147-201).
ChainInv ==
  /\ TypeOK
  /\ answer \in Fns =>
       /\ worker[answer].state = "value" /\ answer \notin expired
       /\ \A f \in Fns : /\ f < answer => Failed(f)
                         /\ f > answer => worker[f].state = "none"
  /\ answer = Raised => \A f \in Fns : Failed(f)
  /\ \A f \in Fns : worker[f].state = "running" /\ f # turn => f \in expired
=============================================================================
