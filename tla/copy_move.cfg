SPECIFICATION FairSpec
CONSTANTS
  PartsOf <- MCPartsOf
  Smalls = 1
  Move = TRUE
  MaxKeys = 2
  NewSizes <- MCNewSizes
  MaxVersions = 2
INVARIANTS
  TypeOK
  NeverStitched
  RemovedWasCopied
  ExitTellsTruth
PROPERTIES
  EveryItemReported
CHECK_DEADLOCK FALSE
