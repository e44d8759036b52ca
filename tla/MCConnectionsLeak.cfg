CONSTANTS
    c1 = c1
    c2 = c2
    c3 = c3
    None = None
    Conns <- MCConns
    MaxConnections = 2
    ConfigValid = TRUE
    SessionTTL = 1
    Faults = {"auth"}
    MaxTime = 2
SPECIFICATION Spec
INVARIANT CountMatchesLive
CHECK_DEADLOCK FALSE
