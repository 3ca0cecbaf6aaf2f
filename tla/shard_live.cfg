SPECIFICATION FairSpec
CONSTANTS
    k1 = k1  k2 = k2  k3 = k3  c1 = c1  c2 = c2
    Key = {k1, k2}
    KeyLen <- MCSameLen
    Size = {1}
    Overhead = 1
    MaxRam = 5
    Capacity = 3
    EvictSample = 2
    Expiry = {1}
    Client = {c1, c2}
    Sweeper = Sweeper
    WallTime = {0, 1}
    MaxCalls = 3
    NoEntry = NoEntry
    Nobody = Nobody
INVARIANTS DistinctStamps
PROPERTIES CallsReturn ExpiredReclaimed NewestSurvives
CHECK_DEADLOCK FALSE
