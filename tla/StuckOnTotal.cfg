CONSTANTS
  N = 2
  Size = 6
  ContentLength = 6
  Resumable = TRUE
  Statuses = {206}
  MaxTry = 1
  Damage = {0}
  WriteFaults = FALSE
  Hole = Hole
SPECIFICATION FreshSpec
INVARIANTS
  NoStuckOnTotal
CHECK_DEADLOCK FALSE
