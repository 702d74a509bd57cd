CONSTANTS
  Devices = {d1}
  Readers = {r1}
  MaxUpdates = 1
  MaxPolls = 1
  MaxFailures = 0
SPECIFICATION Spec
INVARIANTS
  RawLogIsValidJson
CHECK_DEADLOCK FALSE
