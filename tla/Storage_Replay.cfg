SPECIFICATION Spec
CONSTANTS
  Threads = {t1, t2}
  MaxEntries = 2
  BatchSize = 1
  MaxRecords = 2
  MaxTime = 1
  MaxCrashes = 0
INVARIANT ReplaysAll
