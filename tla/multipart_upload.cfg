SPECIFICATION FairSpec
CONSTANTS
  PartsOf <- MCPartsOf
INVARIANTS
  TypeOK
  ObjectsAreWhole
  NoPartOutlivesUpload
PROPERTIES
  ImplementsAtomic
  EveryItemReported
CHECK_DEADLOCK FALSE
