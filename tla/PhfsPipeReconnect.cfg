SPECIFICATION Spec
CONSTANTS
    p = p
    q = q
    a = a
    b = b
    Paths = {p, q}
    NoPath = NoPath
    Vals = {a, b}
    Zero = a
    MaxFd = 6
    MsgMaxLen = 4
    IoHdr = 2
    IntSz = 1
    StatSz = 1
    SeqMod = 2
    Cap = 2
    Retries = 2
    InitDisk <- MCDisk
    Modes = {"PIPE"}
    MaxFaults = 1
    Calls <- MCCalls
INVARIANTS
    PipeReconnects
CHECK_DEADLOCK FALSE
