CONSTANTS
  N = 2
  Size = 4
  ContentLength = 4
  Resumable = TRUE
  Statuses = {200, 404}
  MaxTry = 1
  Damage = {0}
  WriteFaults = FALSE
  Hole = Hole
SPECIFICATION FairFreshSpec
INVARIANTS
  SizeTellsTruth
  WholeWhenDone
  DoneCountAgrees
PROPERTIES
  Terminates
