SPECIFICATION Spec
CONSTANTS
    Client = {c1, c2, c3}
    WireEnabled = {TRUE, FALSE}
    TlsEnabled = {TRUE, FALSE}
    MaxConnections = 2
INVARIANTS RequestsDrained
CHECK_DEADLOCK FALSE
