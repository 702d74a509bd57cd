\* Two lookups, one edit and one reload; units of 60 s, leases of 60 s and 180 s.
SPECIFICATION Spec
CONSTANTS
  w1 = w1
  w2 = w2
  Workers = {w1, w2}
  Configs <- MCConfigs
  Leases = {1, 3}
  Margin = 1
  MaxReloads = 1
  MaxTime = 4
INVARIANTS
  FreshProvider
  OldTokenNeedsDelay
PROPERTIES
  NoDuplicateLogin
CHECK_DEADLOCK FALSE
