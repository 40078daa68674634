SPECIFICATION Spec
CONSTANTS
    PageSz = 2
    MaxFile = 5
    PingTries = 3
    EraseTries = 4
    MaxFaults = 2
INVARIANTS
    FlashComplete
    InStep
    FailureJustified
PROPERTIES
    Terminates
