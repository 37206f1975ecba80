SPECIFICATION Spec
CONSTANTS
  Keys = {k1, k2}
  Values = {0, 1, 2, 4}
  Bounds = {1, 3}
  MaxCardinality = 1
  MaxObservations = 3
  MaxObserves = 4
INVARIANT BucketsCumulative
