SPECIFICATION Spec
CONSTANTS
    NPAGES = 16
    ENTRYSZ = 2
    PGSIZE = 2
    UADDR_SZ = 12
    Procs = {1, 2}
    First = 1
    Cpus = {c1, c2}
    Images <- MCImages
    ArgSizes = {1, 3}
    Deltas <- MCDeltas
    INT_BITS = 5
    LONG_BITS = 7
    Lengths <- MCLengths
    MaxCalls = 5
CHECK_DEADLOCK FALSE
INVARIANTS
    NoPageLost
