SPECIFICATION FairSpec
CONSTANTS
    Bufs = {b1, b2, b3}
    Sectors = {s1, s2, s3}
    Vals = {v0}
    Garbage = Garbage
    Faults = {"read", "command", "ready", "alone"}
INVARIANTS
    QueueInv
    CleanIsWritten
    PanicOnlyOnFault
PROPERTIES
    EveryRequestCompletes
CHECK_DEADLOCK FALSE
