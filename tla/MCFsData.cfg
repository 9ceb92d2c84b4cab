SPECIFICATION Spec
CONSTANTS
    BSIZE = 2
    NDIRECT = 1
    FSSIZE = 17
    LOGSIZE = 1
    NINODES = 4
    IPB = 3
    BPB = 16
    MAXOPBLOCKS = 6
    Images <- MCImages
    Vals = {8, 9}
    Sizes = {1, 2, 5}
    MaxWrites = 2
INVARIANTS
    FsDataInv
    ReadsBack
    OpFitsLog
CHECK_DEADLOCK FALSE
