SPECIFICATION FramingSpec
CONSTANTS
    ByteMod = 7
    MARK = 3
    ESC = 2
    ESCMARK = 4
    ESCESC = 5
    MaxLen = 3
    Datas <- MCDatas
    MaxFrames = 3
    MaxLineFaults = 1
INVARIANTS
    BufferBound
    Resynchronises
    BspRestarts
    Faithful
    ChecksumCatches
CHECK_DEADLOCK FALSE
