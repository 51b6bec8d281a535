SPECIFICATION FairSpec
CONSTANTS
  MaxWorkers = 3
  Start = 2
  BaseFloor = 2
  Growth = 150
  Patience = 1
  Adaptive = TRUE
  Rates <- MCRates
  Batches <- MCBatches
  MaxJobs = 3
INVARIANTS
  TypeOK
  EachJobOnce
PROPERTIES
  SteeringStaysInBand
  ImplementsBatch
  PoolReturns
CHECK_DEADLOCK FALSE
