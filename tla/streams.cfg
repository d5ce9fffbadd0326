SPECIFICATION FairSocketSpec
CONSTANTS
  s1 = s1
  s2 = s2
  r1 = r1
  r2 = r2
  r3 = r3
  Subscribers = {s1, s2}
  Readers = {r1, r2, r3}
  HandleOf <- MCHandleOf
  Policies = {"drop-oldest", "drop-latest"}
  BufferSizes = {1}
  MaxFrames = 3
  NoReader = NoReader
  Sockets = {s1}
  PumpOf <- MCPumpOf
INVARIANTS  DropsAreCounted NothingLeaks
PROPERTIES  LoopsEnd
CHECK_DEADLOCK FALSE
