CONSTANTS
  d1 = d1
  d2 = d2
  Devices = {d1, d2}
  Requests <- Workflows
  MaxWorkers = 2
  MaxFailures = 1
SPECIFICATION FairSpec
INVARIANTS
  TypeOK
  FailedDevicesAreLeftAlone
  RollbackFitsFailures
  RowIsLastResult
  OwnResultDecides
PROPERTIES
  ImplementsLifecycle
  WorkflowEnds
CHECK_DEADLOCK FALSE
