SPECIFICATION FairSpec
CONSTANTS
    Client = {c1, c2, c3}
    WireEnabled = {TRUE, FALSE}
    TlsEnabled = {TRUE, FALSE}
    MaxConnections = 2
PROPERTIES EverySignalEnds
CHECK_DEADLOCK FALSE
