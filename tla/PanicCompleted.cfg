CONSTANTS
  N = 2
  Size = 4
  ContentLength = 4
  Resumable = FALSE
  Statuses = {200}
  MaxTry = 1
  Damage = {0}
  WriteFaults = FALSE
  Hole = Hole
SPECIFICATION RestoredSpec
INVARIANTS
  CompletedIsWhole
CHECK_DEADLOCK FALSE
