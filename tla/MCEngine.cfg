CONSTANTS
    c1 = c1
    c2 = c2
    k1 = k1
    k2 = k2
    NoItem = NoItem
    NoKey = NoKey
    Clients <- MCClientsOne
    Keys <- MCKeysTwo
    Values = {1, 2}
    Amounts = {1}
    Ops = {"Create", "Update", "Delete", "DropDb"}
    SegmentSize = 2
    MaxSegments = 0
    CrashInRecovery = FALSE
    MaxLog = 4
    MaxCrashes = 2
SPECIFICATION Spec
INVARIANT DurableState
