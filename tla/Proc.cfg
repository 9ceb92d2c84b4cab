SPECIFICATION FairSpec
CONSTANTS
    NPROC = 4
    NCPU = 2
    NIDLE = 1
    MaxPid = 4
    NULL = NULL
    IoChan = IoChan
INVARIANTS
    ProcInv
    StackInUse
    RunningIsOnCpu
    NoMissedExit
    ParentIsAlive
PROPERTIES
    IdleCoreTakesWork
