SPECIFICATION FairSpec
CONSTANTS
  a = a  b = b  c = c  p = p  q = q
  CallIds = {a, b, c}
  Paths <- MCPaths
  Reading <- MCReading
  Mutating <- MCMutating
  Editor <- MCEditor
  Envelopes <- MCEnvelopes
  Modes = {"api", "terminal", "none"}
  MaxSteps = 2
  MaxToolCalls = 2
  MaxToolsPerResponse = 2
INVARIANTS ConsentHonoured WithinLimits ModelInformed AnswerHonest
PROPERTY EveryRunEnds
CHECK_DEADLOCK FALSE
