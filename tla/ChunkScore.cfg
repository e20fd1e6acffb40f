CONSTANTS
  MaxTry = 4
  MaxBlocks = 1
  Capacity = 1
  MaxTimeout = 1
SPECIFICATION Spec
INVARIANTS
  TypeOK
  BestOnTop
  FailuresReduce
PROPERTIES
  ScoresSettled
CHECK_DEADLOCK FALSE
