CONSTANTS
    c1 = c1
    c2 = c2
    k1 = k1
    k2 = k2
    NoItem = NoItem
    NoKey = NoKey
    Clients <- MCClientsTwo
    Keys <- MCKeysOne
    Values = {1, 2}
    Amounts = {1}
    Ops = {"Create"}
    SegmentSize = 2
    MaxSegments = 0
    CrashInRecovery = FALSE
    MaxLog = 4
    MaxCrashes = 0
SPECIFICATION Spec
INVARIANT DurableState
