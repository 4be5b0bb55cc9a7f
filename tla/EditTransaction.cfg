SPECIFICATION MCSpec
CONSTANTS
  t1 = t1  t2 = t2
  p1 = p1  p2 = p2  c1 = c1  c2 = c2
  Absent = Absent  Torn = Torn  NoSnap = NoSnap
  MaxFaults = 2
  Txns <- MCTxns
  Paths <- MCPaths
  Contents <- MCContents
  Plans <- MCPlans
INVARIANTS AllOrNothing RollbackReady
PROPERTY ImplementsAtomicEdit
CHECK_DEADLOCK FALSE
