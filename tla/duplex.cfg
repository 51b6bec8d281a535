SPECIFICATION FairSpec
CONSTANTS
  MaxLines = 2
  MaxEvents = 2
  BodyQueue = 1
INVARIANTS
  TypeOK
  ChainIntact
  NothingLost
  EndIsAnnounced
PROPERTIES
  CallReturns
CHECK_DEADLOCK FALSE
