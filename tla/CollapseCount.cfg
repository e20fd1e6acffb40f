CONSTANTS
  N = 2
  Size = 4
  ContentLength = 4
  Resumable = TRUE
  Statuses = {200}
  MaxTry = 1
  Damage = {0}
  WriteFaults = FALSE
  Hole = Hole
SPECIFICATION HiddenSpec
INVARIANTS
  DoneCountAgrees
CHECK_DEADLOCK FALSE
