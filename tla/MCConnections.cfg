CONSTANTS
    c1 = c1
    c2 = c2
    c3 = c3
    None = None
    Conns <- MCConns
    MaxConnections = 2
    ConfigValid = TRUE
    SessionTTL = 1
    Faults = {"read", "auth", "write"}
    MaxTime = 2
SPECIFICATION Spec
INVARIANT TypeOK
INVARIANT CountCoversLive
PROPERTY ClosingReleases
PROPERTY AdmissionRefined
CHECK_DEADLOCK FALSE
