SPECIFICATION Spec
CONSTANTS
  Threads = {t1, t2}
  MaxObjects = 2
  MaxClears = 0
INVARIANT Singleton
