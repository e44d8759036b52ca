CONSTANTS
    c1 = c1
    c2 = c2
    k1 = k1
    k2 = k2
    NoItem = NoItem
    NoKey = NoKey
    Clients <- MCClientsOne
    Keys <- MCKeysOne
    Values = {1, 2}
    Amounts = {1}
    Ops = {"Create", "Decrement"}
    SegmentSize = 2
    MaxSegments = 0
    CrashInRecovery = FALSE
    MaxLog = 4
    MaxCrashes = 1
SPECIFICATION Spec
INVARIANT DurableState
