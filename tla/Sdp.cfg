SPECIFICATION Spec
CONSTANTS
    Jobs <- MCJobs
    RdChunk = 3
    HidChunk = 4
    MinKernel = 6
    IvtSz = 2
    IntSz = 1
    OffsetSz = 2
    PluginEnd = 3
    SysAt = 1
    MaxProgs = 4
    Garbage <- MCGarbage
    MaxArgs = 2
    MaxErr = 1
    MaxFaults = 3
INVARIANTS
    ImageFaithful
    StartsWhole
    ModulesExact
PROPERTIES
    SessionEnds
CHECK_DEADLOCK FALSE
