CONSTANTS
    k1 = k1
    k2 = k2
    k3 = k3
    Txt = Txt
    NoTTL = NoTTL
    NoExpiry = NoExpiry
    NoItem = NoItem
    None = None
    Keys <- MCKeys
    Values <- MCValues
    Texts <- MCTexts
    TTLs = {1}
    Cap = 3
    Policies = {"LRU"}
    FrequencyThreshold <- MCFrequencyThreshold
    TimeThreshold <- MCTimeThreshold
    Amounts = {1}
    MaxTime = 2
    MaxFreq = 2
    MaxQueue = 5
SPECIFICATION Spec
PROPERTY LruEvictsLeastRecent
