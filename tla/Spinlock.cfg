SPECIFICATION FairSpec
CONSTANTS
    Cpus = {c1, c2, c3}
    NULL = NULL
INVARIANTS
    LockInv
    NoPanic
PROPERTIES
    ImplementsMutex
    SomeoneEnters
