SPECIFICATION FairSpec
CONSTANTS
    Procs = {p1, p2, p3}
    NCPU = 3
    NULL = NULL
INVARIANTS
    SleepInv
    NoLostWakeup
PROPERTIES
    ImplementsMutex
    SleeperIsWoken
