\* More callers than slots, waiting or not; as many threads on a pool of one span, where
\* spans are reused, created beyond the pool's size and given up; on a registry that may
\* be cleared; and on one lazy counter.
SPECIFICATION SharedSpec
CONSTANTS
  Threads = {t1, t2, t3}
  MaxConcurrent = 2
  MaxRejected = 2
  PoolSize = 1
  MaxCompleted = 2
  MaxOps = 3
  MaxObjects = 4
  MaxClears = 1
  MaxIncs = 2
INVARIANTS PermitsConserved ActiveIsExact PoolInv KeepsOwnData InstancesInv
PROPERTY AcquireReturns
