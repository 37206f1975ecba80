-------------------------- MODULE AsyncRateLimiter --------------------------
(***************************************************************************)
(* The AsyncRateLimiter of patterns.py: coroutines of one event loop.  The *)
(* asyncio lock is never held across an await, so allow() is one step; the *)
(* coroutines interleave only while wait() sleeps between two attempts.    *)
(***************************************************************************)
EXTENDS SlidingWindow

CONSTANTS Tasks,
          PollInterval,   \* poll_interval, in clock ticks
          Timeouts,       \* the timeouts callers of wait() choose
          MaxTime         \* bound on the clock: no call outlasts it

PollAssumption ==
  /\ PollInterval \in Nat \ {0} /\ Timeouts \subseteq Nat /\ MaxTime \in Nat

VARIABLES
  deadline,   \* of each sleeping call of wait(), or Never
  wakeAt,     \* when its sleep ends
  outcome     \* "sleeping" in wait(), "timed_out" by it, or "idle"

vars == <<log, first, now, deadline, wakeAt, outcome>>

Never == MaxTime + 1

TypeOK ==
  /\ log \in Seq(Admission)
  /\ first \in 1..Len(log) + 1
  /\ now \in 0..MaxTime
  /\ deadline \in [Tasks -> 0..Never]
  /\ wakeAt \in [Tasks -> 0..MaxTime + PollInterval]
  /\ outcome \in [Tasks -> {"idle", "timed_out", "sleeping"}]

Init ==
  /\ WindowInit /\ now = 0
  /\ deadline = [c \in Tasks |-> Never]
  /\ wakeAt = [c \in Tasks |-> 0]
  /\ outcome = [c \in Tasks |-> "idle"]

Prune == first' = PruneStop(now)
Grant == HasRoom(first') /\ log' = Stamp(now)
Deny  == ~HasRoom(first') /\ log' = log

Becomes(c, o) == outcome' = [outcome EXCEPT ![c] = o]

Allow(c) ==
  /\ outcome[c] # "sleeping"
  /\ Prune
  /\ Grant \/ Deny
  /\ Becomes(c, "idle")
  /\ UNCHANGED <<now, deadline, wakeAt>>

\* Faulty: the last sleep is not cut to what remains.
SleepTime_Whole(limit) == PollInterval

SleepTime(limit) ==
  IF limit - now < PollInterval THEN limit - now ELSE PollInterval

\* One turn of the loop in wait(), for a call with this deadline.
Granted(c) ==
  /\ Grant
  /\ Becomes(c, "idle")
  /\ deadline' = [deadline EXCEPT ![c] = Never]
  /\ wakeAt' = [wakeAt EXCEPT ![c] = 0]

\* Faulty: the deadline itself is not late enough.
GiveUp_Late(c, limit) ==
  /\ Deny
  /\ now > limit
  /\ Becomes(c, "timed_out")
  /\ deadline' = [deadline EXCEPT ![c] = limit]
  /\ wakeAt' = [wakeAt EXCEPT ![c] = 0]

GiveUp(c, limit) ==
  /\ Deny
  /\ now >= limit
  /\ Becomes(c, "timed_out")
  /\ deadline' = [deadline EXCEPT ![c] = limit]
  /\ wakeAt' = [wakeAt EXCEPT ![c] = 0]

Sleep(c, limit) ==
  /\ Deny
  /\ now < limit
  /\ Becomes(c, "sleeping")
  /\ deadline' = [deadline EXCEPT ![c] = limit]
  /\ wakeAt' = [wakeAt EXCEPT ![c] =
                  now + IF limit = Never THEN PollInterval ELSE SleepTime(limit)]

Attempt(c, limit) ==
  /\ Prune
  /\ Granted(c) \/ GiveUp(c, limit) \/ Sleep(c, limit)
  /\ UNCHANGED now

StartWait(c) ==
  /\ outcome[c] # "sleeping"
  /\ \/ \E d \in Timeouts : now + d <= MaxTime /\ Attempt(c, now + d)
     \/ Attempt(c, Never)

Wake(c) ==
  /\ outcome[c] = "sleeping"
  /\ now >= wakeAt[c]
  /\ Attempt(c, deadline[c])

\* The event loop is not kept busy: no call that has a deadline oversleeps.
Tick ==
  /\ now < MaxTime
  /\ \A c \in Tasks : outcome[c] = "sleeping" /\ deadline[c] # Never => now < wakeAt[c]
  /\ now' = now + 1
  /\ UNCHANGED <<log, first, deadline, wakeAt, outcome>>

Next == (\E c \in Tasks : Allow(c) \/ StartWait(c) \/ Wake(c)) \/ Tick

Spec == Init /\ [][Next]_vars

-----------------------------------------------------------------------------
\* A step in which a call of wait(timeout) gives up is taken at its deadline, not
\* before and not after, and only if a last attempt found no room then.
GivesUpOnTime ==
  \A c \in Tasks : outcome'[c] = "timed_out" /\ outcome[c] # "timed_out" =>
    now = deadline'[c] /\ ~HasRoom(first')

\* A call of wait() with a timeout is answered, though the others take the tokens.
WaitEnds ==
  \A c \in Tasks :
    outcome[c] = "sleeping" /\ deadline[c] # Never ~> outcome[c] # "sleeping"
=============================================================================
