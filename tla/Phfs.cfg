SPECIFICATION FairSpec
CONSTANTS
    p = p
    q = q
    a = a
    b = b
    Paths = {p, q}
    NoPath = NoPath
    Vals = {a, b}
    Zero = a
    MaxFd = 7
    MsgMaxLen = 4
    IoHdr = 2
    IntSz = 1
    StatSz = 1
    SeqMod = 2
    Cap = 2
    Retries = 2
    InitDisk <- MCDisk
    Modes = {"PIPE", "UDP", "TCP"}
    MaxFaults = 1
    Calls <- MCCalls
INVARIANTS
    LineStaysOpen
    HeldHandlesOpen
    AckedWritesOnDisk
PROPERTIES
    ReadsAreCurrent
    AnswerFitsRequest
    ResetReclaims
    RequestAnswered
CHECK_DEADLOCK FALSE
