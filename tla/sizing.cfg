SPECIFICATION Spec
CONSTANTS
    Mb <- MCMb
    WordSize <- MCWordSize
    Cores <- MCCores
    Memory <- MCMemory
    ExplicitMb <- MCExplicit
    KeyspaceName = {"default", "sessions"}
    MaxKeyspaces = 2
    PowersOfTwo <- MCPowersOfTwo
    Unset = Unset
INVARIANTS TypeOK AutoBudgetFits ShardsPartitionBudget ShardsWorthSampling
CHECK_DEADLOCK FALSE
