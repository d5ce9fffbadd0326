SPECIFICATION FairRouteSpec
CONSTANTS
  k1 = k1
  k2 = k2
  c1 = c1
  c2 = c2
  NoKey = NoKey
  Keys = {k1}
  Clients = {c1}
  MaxOps = 2
  MaxTime = 1
  MaxOperations = 2
  MaxEntries = 2
  Retention = 0
  MicrotaskCallers = FALSE
  TestHooks = TRUE
  Generated = {k1}
INVARIANTS  RetriesAreExplained TombstoneTellsTheEnd
PROPERTIES LifecycleSpec WaitersServed DeadlineSettles
CHECK_DEADLOCK FALSE
