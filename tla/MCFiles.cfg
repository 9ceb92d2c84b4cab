SPECIFICATION Spec
CONSTANTS
    Procs = {p1, p2}
    Booter = p1
    Started = {p1, p2}
    Elements = {"a"}
    Modes = {"r", "w"}
    CreateModes = {"w"}
    Paths <- MCPaths
    NINODES = 3
    NINODE = 3
    NFILE = 2
    NOFILE = 2
    MaxOps = 2
    MaxChunks = 2
    MaxCalls = 3
    NONE = NONE
INVARIANTS
    FilesInv
    TreeInv
    PanicOnlyWhenFull
    SomeoneGoesOn
CHECK_DEADLOCK FALSE
