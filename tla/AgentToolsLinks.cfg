SPECIFICATION Spec
CONSTANTS
  Capabilities <- MCCapabilities
  Calls <- MCSearch
  MaxMoves = 0
INVARIANTS SymlinkEscapesRejected
CHECK_DEADLOCK FALSE
