SPECIFICATION FairSpec
CONSTANTS
  Count = 2
  Gets = {2}
  Size = 2
  Document = 1
  Configured = "configured"
  Home = "home"
  MaxAttempts = 3
  Quota = 15
  RetryCost = 5
  TimeoutCost = 10
INVARIANTS
  TypeOK
  ProgressExact
  SendsBounded
  RedirectsPaidOnce
PROPERTIES
  EveryRequestEnds
CHECK_DEADLOCK FALSE
