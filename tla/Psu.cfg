SPECIFICATION Spec
CONSTANTS
    Scripts <- MCScripts
    MaxLines = 3
    Files <- MCFiles
    ChunkSz = 2
    Align = 2
    WaitTime = 1
    MaxFaults = 1
INVARIANTS
    HandlesSound
    SyntaxChecked
    ScriptCarriedOut
    FileDelivered
PROPERTIES
    ProperScriptsEnd
