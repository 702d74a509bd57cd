CONSTANTS
  j1 = j1
  j2 = j2
  c1 = c1
  c2 = c2
  d1 = d1
  d2 = d2
  d3 = d3
  Jobs = {j1, j2}
  Clients = {c1}
  Devices = {d1, d2, d3}
  DeviceList <- ContendedJobs
  MaxWorkers = 1
  MaxQueueDepth = 1
  Results = {"success", "failed"}
  MaxFaults = 0
  MaxCrashes = 0
SPECIFICATION FairSpec
INVARIANTS
  TypeOK
  SlotConservation
  CancelNotLost
  QuiescentWhenTerminal
  WithdrawalIsTotal
  FinalStatusIsTrue
PROPERTIES
  ImplementsLifecycle
  JobEnds
