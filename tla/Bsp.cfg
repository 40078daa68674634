SPECIFICATION FairSpec
CONSTANTS
    MsgSz = 2
    MaxRep = 3
    NumMod = 16
    Files <- MCFiles
    Kernel = "kernel"
    Missing = "missing"
    MaxFaults = 3
    MaxReqs = 3
INVARIANTS
    ImageExact
PROPERTIES
    ProgramDone
    TransferEnds
    LoadSpec
CHECK_DEADLOCK FALSE
