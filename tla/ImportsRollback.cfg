\* An import that updates what it finds, and its rollback.
SPECIFICATION Spec
CONSTANTS
  Rows = {k1, k2}
  Sessions = {s1, s2}
  MaxRuns = 2
INVARIANTS
  NoCollateral
CHECK_DEADLOCK FALSE
