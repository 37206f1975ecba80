SPECIFICATION Spec
CONSTANTS
  Calls = {c1, c2, c3}
  MaxRetries = 1
  FailureThreshold = 2
  RecoveryTimeout = 2
  MaxTime = 6
SYMMETRY Symmetry
INVARIANT TripsOnFailRun
