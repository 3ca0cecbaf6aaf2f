SPECIFICATION Spec
CONSTANTS
    c1 = c1  c2 = c2
    Client = {c1, c2}
    Request <- MCRequest
    MaxCalls = 3
    Key = {"k", ""}
    KeyLen <- MCKeyLen
    Size = {1}
    Overhead = 1
    Capacity = 2
    Expiry <- MCExpiry
    WallTime <- MCWallTime
    Nothing = Nothing
    MaxMillis = 5000
    EmptyKey = ""
    Absent = Absent
    ApiKey = "key"
    AuthOn = {TRUE, FALSE}
    DefaultTtl = {0, 1}
    MaxBody = {0, 4}
    FrameworkLimit = 2
    HasCache = {TRUE, FALSE}
SYMMETRY Symmetry
INVARIANTS TypeOK DeadlineKept ServedAlive NothingWithoutKey
CHECK_DEADLOCK FALSE
