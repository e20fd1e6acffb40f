CONSTANTS
  MaxTry = 2
  MaxBlocks = 1
  Capacity = 2
  MaxTimeout = 1
SPECIFICATION Spec
INVARIANTS
  FlashRoom
CHECK_DEADLOCK FALSE
