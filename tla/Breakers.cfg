\* Concurrent calls on one breaker, enough to trip it, to probe it and to report late,
\* over two recovery periods; or four calls that report to a tuner over 30 seconds.
SPECIFICATION BreakersSpec
CONSTANTS
  Calls = {c1, c2, c3}
  MaxRetries = 1
  FailureThreshold = 2
  RecoveryTimeout = 1
  MaxTime = 3
  HistorySize = 3
  MinFailures = 1
  MaxRecoveries = 1
  BurstWindow = 1
  FirstThreshold = 2
  FirstTimeout = 1
  MaxCalls = 4
  MaxTicks = 3
INVARIANTS RequestInv VerdictMatchesResult FetchInv TuningInv
PROPERTIES DocumentedTransitions AdmittedCallsEnd
