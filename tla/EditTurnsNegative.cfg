SPECIFICATION Spec
CONSTANTS
  Paths <- MCPaths
  Ext <- MCExt
  Projects <- MCProjects
  Manifests <- MCManifests
  Edits <- MCEdits
  Prompts = {"shop", "blog"}
  Simple = {"fix"}
  Budget <- MCNegative
  MaxRuns = 2
  MaxFaults = 1
  TermPlans <- MCTermPlans
  MaxTermFaults = 3
  MaxTurns = 2
INVARIANT AppliedIsWritten
CHECK_DEADLOCK FALSE
