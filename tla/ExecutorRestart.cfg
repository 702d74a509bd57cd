CONSTANTS
  j1 = j1
  j2 = j2
  c1 = c1
  c2 = c2
  d1 = d1
  d2 = d2
  d3 = d3
  Jobs = {j1}
  Clients = {c1}
  Devices = {d1, d2, d3}
  DeviceList <- TwoDevices
  MaxWorkers = 1
  MaxQueueDepth = 1
  Results = {"success"}
  MaxFaults = 0
  MaxCrashes = 1
SPECIFICATION FairSpec
PROPERTIES
  AcceptedCancelStops
