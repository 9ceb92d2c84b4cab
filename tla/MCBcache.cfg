SPECIFICATION Spec
CONSTANTS
    Callers = {p1, p2}
    Blocks = {s1, s2, s3, s4}
    Vals = {v0, v1}
    NBUF = 3
    MaxPinned = 2
    NULL = NULL
INVARIANTS
    BcacheInv
    KeepsItsBlock
    PanicOnlyWhenFull
PROPERTIES
    ImplementsBlockStore
SYMMETRY Symmetry
CHECK_DEADLOCK FALSE
