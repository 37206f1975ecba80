\* Two threads record, expire, clear and flush the buffer at the same time; two threads
\* store, spill and sync, with one crash; two tasks open four spans over a list of one, or
\* nest scopes of two objects; four values of two label sets; windows that slide. What
\* only observes stops at its bound.
SPECIFICATION TelemetrySpec
CONSTANTS
  Threads = {t1, t2}
  MaxSize = 2
  MaxAge = 0
  BatchSize = 2
  MaxRecords = 3
  MaxTime = 1
  MaxEntries = 2
  MaxStored = 2
  MaxMillis = 1
  MaxCrashes = 1
  Tasks = {c1, c2}
  MaxSpans = 1
  MaxOpened = 4
  Contexts = {o1, o2}
  MaxDepth = 2
  MaxIds = 2
  Keys = {k1, k2}
  Values = {0, 1, 2, 4}
  Bounds = {1, 3}
  MaxCardinality = 1
  MaxObservations = 3
  MaxObserves = 4
  Names = {n1, n2}
  Readings = {0, 1, 7}
  MaxAnomalies = 2
  MaxReadings = 5
  Durations = {0, 1, 4}
  Latencies = {1, 4}
  Attempts = {1, 2, 4}
  WindowSize = 3
  HistorySize = 4
  MinSamples = 2
  MaxSamples = 4
CHECK_DEADLOCK FALSE
INVARIANTS BufferInv ExportedOnce StorageInv TraceInv CorrelationInv HistogramInv AnomalyInv TunersInv
PROPERTY RefinesHistogram
