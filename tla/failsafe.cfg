SPECIFICATION FairFailSafeSpec
CONSTANTS
  o1 = o1
  d1 = d1
  d2 = d2
  i1 = i1
  i2 = i2
  NoDevice = NoDevice
  Owners = {o1}
  Devices = {d1, d2}
  Capabilities = {}
  Ttls = {1}
  MaxTtl = 1
  MaxLeases = 1
  MaxClock = 2
  Calls = {i1}
  RequireLeases = TRUE
  DeadmanMaxAge = 1
  RuleMaxAge = 1
  MaySafeFail = TRUE
PROPERTIES HeartbeatProtects SilenceIsAnswered
CHECK_DEADLOCK FALSE
