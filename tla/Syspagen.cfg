SPECIFICATION Spec
CONSTANTS
    AddrMod32 = 8
    IdMod = 3
    Align = 2
    SyspageSz = 4
    MapSz = 3
    ProgSz = 5
    MaxSz = 44
    Pkernel = 3
    Offs = 4
    Names = {"a", "b", "c"}
    NameSz <- MCNameSz
    Commands <- WideCommands
    MaxAliases = 2
INVARIANTS
    MapRing
    MapsDisjoint
    ObjectsDisjoint
    ProgramsSound
CHECK_DEADLOCK FALSE
