SPECIFICATION Spec
CONSTANTS
  Key = {k1, k2, k3}
  Cap = 1
  Handler = {h1, h2}
CONSTRAINT Small
SYMMETRY Interchangeable
INVARIANT RowHasObject
INVARIANT ReportsNearCap
INVARIANT PublishedIsComplete
CHECK_DEADLOCK FALSE
