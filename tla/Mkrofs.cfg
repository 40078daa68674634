SPECIFICATION Spec
CONSTANTS
    Trees <- MCTrees
    DepthMax = 3
    Grow = 2
    HdrSz = 1
    NodeSz = 2
    Chunk = 2
    OffMod = 20
    MaxSize = 5
    MaxFaults = 2
INVARIANTS
    FilesIntact
    IndexSound
    TreeFaithful
    HeaderLast
PROPERTIES
    Terminates
CHECK_DEADLOCK FALSE
