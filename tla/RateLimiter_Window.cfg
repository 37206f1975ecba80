\* The full window, with threads that may be late.
SPECIFICATION Spec
CONSTANTS
  Threads = {t1, t2}
  MaxRequests = 2
  Window = 3
  MaxLag = 1
  MaxTime = 7
INVARIANT StampLimit
