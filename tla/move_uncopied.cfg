SPECIFICATION Spec
CONSTANTS
  PartsOf <- MCPartsOf
  Smalls = 1
  Move = TRUE
  MaxKeys = 2
  NewSizes <- MCAnySizes
  MaxVersions = 2
INVARIANTS
  MovedIsCopied
CHECK_DEADLOCK FALSE
