\* Two requests that change the inventory and a lookup, or three PUTs of a file.
SPECIFICATION Spec
CONSTANTS
  r1 = r1
  r2 = r2
  r3 = r3
  Requests = {r1, r2, r3}
  Names <- MCNames
  Sorted <- MCSorted
  Contents <- MCContents
  Scenarios <- MCScenarios
  Lower <- MCLower
  MaxErrors = 1
INVARIANTS
  FreshAfterAnswer
  MixedNeedsError

  
CHECK_DEADLOCK FALSE
