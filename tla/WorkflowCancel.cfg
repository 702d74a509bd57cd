CONSTANTS
  d1 = d1
  d2 = d2
  Devices = {d1, d2}
  Requests <- LongWorkflow
  MaxWorkers = 2
  MaxFailures = 0
SPECIFICATION Spec
INVARIANTS
  CancelStopsWorkflow
CHECK_DEADLOCK FALSE
