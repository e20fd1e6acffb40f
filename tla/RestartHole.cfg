CONSTANTS
  N = 1
  Size = 2
  ContentLength = 2
  Resumable = TRUE
  Statuses = {200}
  MaxTry = 1
  Damage = {0}
  WriteFaults = FALSE
  Hole = Hole
SPECIFICATION FreshSpec
INVARIANTS
  RestartsFromScratch
CHECK_DEADLOCK FALSE
