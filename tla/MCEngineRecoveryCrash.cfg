CONSTANTS
    c1 = c1
    c2 = c2
    k1 = k1
    k2 = k2
    NoItem = NoItem
    NoKey = NoKey
    Clients <- MCClientsOne
    Keys <- MCKeysOne
    Values = {1}
    Amounts = {1}
    Ops = {"Create", "Delete"}
    SegmentSize = 2
    MaxSegments = 0
    CrashInRecovery = TRUE
    MaxLog = 2
    MaxCrashes = 2
SPECIFICATION Spec
INVARIANT DurableState
