\* Threads that may be a tick late, or tasks that wait for three timeouts or without
\* one, and two tokens in a window of three ticks. The clock is bounded: a task that
\* waits without a timeout is left asleep.
SPECIFICATION LimitersSpec
CONSTANTS
  Threads = {t1, t2, t3}
  Tasks = {c1, c2}
  MaxRequests = 2
  Window = 3
  MaxLag = 1
  MaxTime = 6
  PollInterval = 2
  Timeouts = {0, 1, 3}
INVARIANTS LimiterInv LaggedLimit WindowHolds
PROPERTIES TimesOutOnTime WaitEnds
CHECK_DEADLOCK FALSE
