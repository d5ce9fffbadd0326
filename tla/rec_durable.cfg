SPECIFICATION RecoverySpec
CONSTANTS
  k1 = k1
  k2 = k2
  c1 = c1
  c2 = c2
  NoKey = NoKey
  Keys = {k1, k2}
  Clients = {}
  MaxOps = 2
  MaxTime = 1
  MaxOperations = 1
  MaxEntries = 1
  Retention = 0
  MicrotaskCallers = FALSE
  TestHooks = TRUE
  MaxCrashes = 2
  Storages = {"memory","file"}
  MaxFileOps = 1
  ResumeNumbering = TRUE
INVARIANTS  AbortedNeverRan 
 
SYMMETRY KeySymmetry
CHECK_DEADLOCK FALSE
