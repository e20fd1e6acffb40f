CONSTANTS
  Lengths <- MCLengths
  Counts <- MCCounts
  MinFragment = 3
  HalfWord = 16
SPECIFICATION Spec
INVARIANTS
  TypeOK
  ClosedForm
  EveryByteOnce
  NoTinyPart
