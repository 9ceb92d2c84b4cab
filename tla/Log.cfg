SPECIFICATION FairSpec
CONSTANTS
    Procs = {p1, p2}
    Booter = p1
    Blocks = {b1, b2}
    Vals = {v0, v1}
    MAXOPBLOCKS = 4
    LOGSIZE = 8
    NLOG = 8
    OpBlocks = 2
INVARIANTS
    LogInv
    NoPanic
PROPERTIES
    ImplementsTxDisk
    SleeperIsWoken
