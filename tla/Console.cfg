SPECIFICATION FairSpec
CONSTANTS
    Procs = {p1, p2}
    Cpus = {c0, c1}
    Core0 = c0
    INPUT_BUF = 2
    WRAP = 4
    Letters = {x}
    NL = NL
    EOF = EOF
    NONE = NONE
INVARIANTS
    ConsoleInv
PROPERTIES
    ImplementsTty
    WriteReturns

CHECK_DEADLOCK FALSE
