SPECIFICATION Spec
CONSTANTS
    Parts <- MCParts
    Names = {"a", "b", "c"}
    Mems <- MCMems
    TableHdr = 1
    PartSz = 1
    MaxOpts = 3
    MaxRuns = 2
    MaxFaults = 1
INVARIANTS
    UpdateExact
    FailureHarmless
CHECK_DEADLOCK FALSE
