CONSTANTS
  N = 2
  Size = 4
  ContentLength = 4
  Resumable = TRUE
  Statuses = {200, 206}
  MaxTry = 1
  Damage <- MCDamage
  WriteFaults = FALSE
  Hole = Hole
SPECIFICATION HiddenSpec
INVARIANTS
  SizeTellsTruth
  WholeWhenDone
  IdNotDepleted
  MergeFindsAllDone
CHECK_DEADLOCK FALSE
