SPECIFICATION FairBackendSpec
CONSTANTS
  c1 = c1
  c2 = c2
  h1 = h1
  Prober = Prober
  Nobody = Nobody
  Broadcast = Broadcast
  Callers = {c1, c2}
  Kicks = {h1}
  Senders = {c1, c2, h1, Prober}
  MaxAttempts = 2
  MaxFaults = 1
  MaxCalls = 2
  Timeout = 2
INVARIANTS  EveryWaitIsAnswered SafeStateStopsOutputs
PROPERTIES BeliefIsDroppedForCause  HostLossTrips BeliefCatchesUp CallsReturn
CHECK_DEADLOCK FALSE
