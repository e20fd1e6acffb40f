CONSTANTS
  N = 5
  Blocks <- MCBlocks
  IoFaults = TRUE
SPECIFICATION Spec
INVARIANTS
  TypeOK
  MergedIsWhole
  SizeStillTells
PROPERTIES
  ImplementsMerge
  Terminates
CHECK_DEADLOCK FALSE
