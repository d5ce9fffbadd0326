SPECIFICATION FairRapSpec
CONSTANTS
    i1 = i1
    l1 = l1
    Calls = {i1, l1}
    LeaseCalls = {l1}
    MaxAttempts = 2
    RecoverBelow = 3
    MaxLeases = 1
    MaxEvents = 4
INVARIANTS CloseIsThorough
PROPERTIES LedgerSpec  CancelTakes
CHECK_DEADLOCK FALSE
