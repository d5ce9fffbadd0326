SPECIFICATION FailSafeSpec
CONSTANTS
  o1 = o1
  d1 = d1
  d2 = d2
  i1 = i1
  i2 = i2
  NoDevice = NoDevice
  Owners = {o1}
  Devices = {d1}
  Capabilities = {"sys.arm"}
  Ttls = {1}
  MaxTtl = 1
  MaxLeases = 1
  MaxClock = 2
  Calls = {i1}
  RequireLeases = TRUE
  DeadmanMaxAge = 1
  RuleMaxAge = 0
  MaySafeFail = FALSE
PROPERTY ExpiryFailsSafe
CHECK_DEADLOCK FALSE
