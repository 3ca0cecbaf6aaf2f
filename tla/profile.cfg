SPECIFICATION Spec
CONSTANTS
    p1 = p1  p2 = p2  p3 = p3
    Proc = {p1, p2, p3}
    Asked <- MCAsked
    Flags <- MCFlags
    ClientArgs <- MCClientArgs
    Unset = "unset"
    Value <- MCValue
    Numeral = {"0", "1"}
    Port = {"8080", "9090"}
    MaxSets = 2
    MaxRuns = 2
    MaxFaults = 1
SYMMETRY Symmetry
INVARIANTS TypeOK NothingUnasked QuietSavesHold PublicOnlyWhileSaving ClientFindsNode
CHECK_DEADLOCK FALSE
