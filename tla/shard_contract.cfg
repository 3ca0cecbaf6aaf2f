SPECIFICATION Spec
CONSTANTS
    k1 = k1  k2 = k2  k3 = k3  c1 = c1  c2 = c2
    Key = {k1, k2}
    KeyLen <- MCKeyLen
    Size = {1}
    Overhead = 1
    MaxRam = 5
    Capacity = 4
    EvictSample = 1
    Expiry = {0, 1}
    Client = {c1, c2}
    Sweeper = Sweeper
    WallTime = {0, 1}
    MaxCalls = 3
    NoEntry = NoEntry
    Nobody = Nobody
SYMMETRY Symmetry
INVARIANTS TypeOK Accounting BoundedOverrun EachDropReportedOnce CountersCoverDrops
PROPERTIES ImplementsContract
CHECK_DEADLOCK FALSE
