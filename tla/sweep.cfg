SPECIFICATION Spec
CONSTANTS
    NShards = 16
    CursorWord = 32
    FirstCursor = {0}
    Offset = {0, 999}
    Watched = 6
    Mortal = {2, 6, 14}
INVARIANTS TypeOK EveryShardVisited ReclaimedInTime
CHECK_DEADLOCK FALSE
