CONSTANTS
  N = 1
  Size = 2
  ContentLength = 2
  Resumable = TRUE
  Statuses = {206}
  MaxTry = 1
  Damage = {0}
  WriteFaults = FALSE
  Hole = Hole
SPECIFICATION FreshSpec
INVARIANTS
  DoneMeansEOF
CHECK_DEADLOCK FALSE
