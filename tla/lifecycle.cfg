SPECIFICATION FairSpec
CONSTANTS
    Client = {c1, c2, c3}
    WireEnabled = {TRUE, FALSE}
    TlsEnabled = {TRUE, FALSE}
    MaxConnections = 2
INVARIANTS TypeOK PermitsConserved PlainRequestsDrained
PROPERTIES ShutdownEnds WireStopsAccepting
CHECK_DEADLOCK FALSE
