CONSTANTS
  N = 3
  Blocks <- MCBlocks
  IoFaults = FALSE
SPECIFICATION Spec
INVARIANTS
  RestoredMerges
CHECK_DEADLOCK FALSE
