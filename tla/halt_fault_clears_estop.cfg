SPECIFICATION RuntimeSpec
CONSTANTS
  d1 = d1
  d2 = d2
  i1 = i1
  i2 = i2
  NoDevice = NoDevice
  Devices = {d1}
  Calls = {i1}
  Reasons = {"a"}
  FaultsRaised = TRUE
  MaxJobs = 2
INVARIANT EstopBlocks
CHECK_DEADLOCK FALSE
