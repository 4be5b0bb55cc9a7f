SPECIFICATION FairSpec
CONSTANTS
  MaxRequests = 2
  Kinds <- AllKinds
  Projects <- MCProjects
  Languages <- AllLanguages
INVARIANTS NothingLeft OneSignIn
PROPERTY RequestsEnd
CHECK_DEADLOCK FALSE
