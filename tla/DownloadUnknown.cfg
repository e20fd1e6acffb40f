CONSTANTS
  N = 1
  Size = 3
  ContentLength <- MCUnknown
  Resumable = FALSE
  Statuses = {200, 404}
  MaxTry = 1
  Damage = {0}
  WriteFaults = FALSE
  Hole = Hole
SPECIFICATION FairFreshSpec
INVARIANTS
  WholeWhenDone
PROPERTIES
  Terminates
