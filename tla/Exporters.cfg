\* The exporter is started and stopped twice, and a join may time out: two background
\* threads and the owner may be at work on a buffer of two, with two handlers; or the
\* threads count two label sets, one of which the counter has no room for.
SPECIFICATION UsesSpec
CONSTANTS
  Threads = {0, 1, 2}
  MaxStarts = 2
  Handlers = 2
  MaxSize = 2
  MaxRecords = 4
  Keys = {k1, k2}
  BatchSize = 2
  MaxCardinality = 1
  MaxIncs = 5
INVARIANTS ExporterInv StopLeavesNothing BatchInv
PROPERTIES StopEndsThread BufferDrains
