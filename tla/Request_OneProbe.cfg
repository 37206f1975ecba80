SPECIFICATION Spec
CONSTANTS
  Calls = {c1, c2, c3}
  MaxRetries = 1
  FailureThreshold = 1
  RecoveryTimeout = 1
  MaxTime = 3
SYMMETRY Symmetry
INVARIANT OneProbe
