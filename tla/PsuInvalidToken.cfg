SPECIFICATION Spec
CONSTANTS
    Scripts <- MCScripts
    MaxLines = 2
    Files <- MCFiles
    ChunkSz = 2
    Align = 2
    WaitTime = 1
    MaxFaults = 1
PROPERTIES
    EveryScriptEnds
