SPECIFICATION CallSpec
CONSTANTS
  Callers = {c1, c2}
  p1 = p1
  Automatic = Automatic
  NoCaller = NoCaller
  Asks = {"strict"}
  Providers <- MCOneProvider
  Fallback <- MCOneFallback
  MaxAttempts = 2
  MaxContinuations = 1
  MaxPieces = 2
  MaxRounds = 3
INVARIANT NothingLost
PROPERTY CallsReturn
CHECK_DEADLOCK FALSE
