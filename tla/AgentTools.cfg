SPECIFICATION Spec
CONSTANTS
  Capabilities <- MCCapabilities
  Calls <- MCCalls
  MaxMoves = 1
INVARIANTS ChangesApproved OnlyVisibleShown
  CreatesNeverOverwrite StagedStays
CHECK_DEADLOCK FALSE
