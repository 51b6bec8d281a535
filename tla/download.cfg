SPECIFICATION FairSpec
CONSTANTS
  Sizes <- MCSizes
  Threshold = 3
  Chunk = 2
  NewSizes <- MCNewSizes
  MaxVersions = 2
INVARIANTS
  TypeOK
  NoHoleUnlessShrunk
  FailedLeavesNothing
  NoWriteAfterReport
PROPERTIES
  EveryItemReported
CHECK_DEADLOCK FALSE
