SPECIFICATION LimiterSpec
CONSTANTS
  Calls = {r1, r2, r3, r4, r5, r6}
  Keys = {k1, k2}
  Limit = 2
  MaxBuckets = 1
  MaxWindow = 2
SYMMETRY Symmetry
INVARIANTS RefusedOnlyWhenSpent CapUnlessLate
CHECK_DEADLOCK FALSE
