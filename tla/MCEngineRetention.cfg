CONSTANTS
    c1 = c1
    c2 = c2
    k1 = k1
    k2 = k2
    NoItem = NoItem
    NoKey = NoKey
    Clients <- MCClientsTwo
    Keys <- MCKeysOne
    Values = {1, 2}
    Amounts = {1}
    Ops = {"Create", "Update", "Delete", "Increment", "Decrement", "DropDb"}
    SegmentSize = 2
    MaxSegments = 2
    CrashInRecovery = TRUE
    MaxLog = 4
    MaxCrashes = 2
SPECIFICATION Spec
INVARIANT TypeOK
INVARIANT CurrentSegmentLive
PROPERTY WalLogRefined
