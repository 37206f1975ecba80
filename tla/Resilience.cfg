\* Requests of several sizes, one larger than the bucket, and unlike windows; five
\* backends, four of them used, launched at once or one after the other; a chain of three
\* functions; checks that come and go during a report; three runs, with one retry, of a
\* collector that is registered twice. Executions and chains are over when they are over.
SPECIFICATION PartsSpec
CONSTANTS
  MaxTokens = 4
  RefillRate = 2
  DegradeBelow = 2
  DefaultCost = 1
  Costs = {0, 3, 5}
  MaxRequests = 5
  MaxTime = 4
  Backends = 5
  MaxConcurrency = 4
  Functions = 3
  Checks = {a, b, c}
  Critical = {a}
  MaxEntries = 4
  Threads = {t1, t2}
  MaxRetries = 1
  MaxRecords = 2
  MaxRuns = 3
  MaxResets = 1
CHECK_DEADLOCK FALSE
INVARIANTS BucketInv WindowBound RestedBucketAdmits HedgeInv ChainInv ReportInv HealingInv
PROPERTIES FirstWins EveryCallReturns
