CONSTANTS
  N = 2
  Size = 4
  ContentLength = 4
  Resumable = TRUE
  Statuses = {206}
  MaxTry = 1
  Damage <- MCDamage
  WriteFaults = FALSE
  Hole = Hole
SPECIFICATION ResumedSpec
INVARIANTS
  TypeOK
  SizeTellsTruth
  WholeWhenDone
  DoneCountAgrees
  DumpResumable
PROPERTIES
  ElectedTerminates
CHECK_DEADLOCK FALSE
