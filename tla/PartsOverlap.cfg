CONSTANTS
  Length = 4
  Counts = {1, 2}
  MaxRuns = 3
  Absent = Absent
  None = None
  Broken = Broken
SPECIFICATION Spec
INVARIANTS
  SavedCutsBody
CHECK_DEADLOCK FALSE
