SPECIFICATION FairSpec
CONSTANTS
  Paths <- MCPaths
  Ext <- MCExt
  Projects <- MCProjects
  Manifests <- MCManifests
  Edits <- MCEdits
  Prompts = {"shop", "blog"}
  Simple = {"fix"}
  Budget = 1
  MaxRuns = 2
  MaxFaults = 1
  TermPlans <- MCTermPlans
  MaxTermFaults = 3
  MaxTurns = 2
INVARIANTS ErrorLeavesWorkspace RecoveryPointFirst AppliedIsVerified
  CompletedWereWritten DamageStops
PROPERTIES SavedWorkSurvives DependenciesFirst TurnsEnd
CHECK_DEADLOCK FALSE
