CONSTANTS
  Lines <- MCLines
  Junk = Junk
  Malformed <- MCMalformed
  Workers = {w1, w2}
  Capacity = 1
  Pass = 2
  Durations = {1, 2}
  MaxUint = 7
  MaxFollow = 2
  MaxRetry = 2
  Locations <- MCLocations
  Resources <- MCResources
  Url = Url
  SavedUrl = SavedUrl
  m1 = m1
  m2 = m2
  bad = bad
  elsewhere = elsewhere
SPECIFICATION Spec
INVARIANTS
  TypeOK
  MirrorsComplete
  RedirectBudget
  SessionConfirmed
PROPERTIES
  Terminates
CHECK_DEADLOCK FALSE
