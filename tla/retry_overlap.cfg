SPECIFICATION RouteSpec
CONSTANTS
  k1 = k1
  k2 = k2
  c1 = c1
  c2 = c2
  NoKey = NoKey
  Keys = {k1}
  Clients = {c1}
  MaxOps = 2
  MaxTime = 0
  MaxOperations = 2
  MaxEntries = 2
  Retention = 1
  MicrotaskCallers = FALSE
  TestHooks = FALSE
  Generated = {k1}
INVARIANT NoDoubleActuation
CHECK_DEADLOCK FALSE
