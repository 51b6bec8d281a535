SPECIFICATION Spec
CONSTANTS
  PartsOf <- MCPartsOf
  Smalls = 1
  Move = FALSE
  MaxKeys = 2
  NewSizes <- MCAnySizes
  MaxVersions = 2
INVARIANTS
  CopiesAreWhole
CHECK_DEADLOCK FALSE
