SPECIFICATION Spec
CONSTANTS
  Callers = {c1, c2}
  p1 = p1  p2 = p2
  Automatic = Automatic
  NoCaller = NoCaller
  Asks = {"strict"}
  Providers <- MCProviders
  Fallback <- MCFallback
  MaxAttempts = 2
  MaxContinuations = 1
SYMMETRY Symmetry
INVARIANTS OneAtATime FallbackFits LocksReleased
CHECK_DEADLOCK FALSE
