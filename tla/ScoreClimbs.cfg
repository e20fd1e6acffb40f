CONSTANTS
  MaxTry = 4
  MaxBlocks = 1
  Capacity = 2
  MaxTimeout = 1
SPECIFICATION Spec
PROPERTIES
  SizeReduced
CHECK_DEADLOCK FALSE
