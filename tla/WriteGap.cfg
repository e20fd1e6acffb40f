CONSTANTS
  N = 1
  Size = 3
  ContentLength = 3
  Resumable = TRUE
  Statuses = {206}
  MaxTry = 1
  Damage = {0}
  WriteFaults = TRUE
  Hole = Hole
SPECIFICATION FreshSpec
INVARIANTS
  WholeWhenDone
CHECK_DEADLOCK FALSE
