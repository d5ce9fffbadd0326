SPECIFICATION FairHostSpec
CONSTANTS
  i1 = i1
  i2 = i2
  Calls = {i1, i2}
  MaxRestarts = 1
  MaxWorkers = 3
INVARIANTS OneWorker NoCallIsOrphaned RestartsAreBounded
PROPERTIES NothingAfterShutdown SilentWorkerEnds
CHECK_DEADLOCK FALSE
