SPECIFICATION FairRuntimeSpec
CONSTANTS
  d1 = d1
  d2 = d2
  i1 = i1
  i2 = i2
  NoDevice = NoDevice
  Devices = {d1, d2}
  Calls = {i1, i2}
  Reasons = {"a", "b"}
  FaultsRaised = TRUE
  MaxJobs = 2
INVARIANTS StoppedMeansSafe
PROPERTIES StopReachesDevices
CHECK_DEADLOCK FALSE
