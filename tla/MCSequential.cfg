SPECIFICATION MCSpec
CONSTANTS
    PGSIZE = 8
    FAN = 4
    MAXVA = 32
    ADDR = 512
    NPAGE = 18
    MAXARG = 3
    ALIGN = 2
    Program <- MCProgram
    Args <- MCArgs
    Grow <- MCGrow
    MaxSz = 48
    UINT = 64
    FSSIZE = 17
    BSIZE = 3
    BPB = 16
    IPB = 4
    NINODES = 4
    nlog = 0
    NDIRECT = 2
    MAXOPBLOCKS = 6
    Files <- MCFiles
    Writer = {w1}
    Writes <- MCWrites
    MORE = 3
    TOP = 7
    Sizes = {2, 3, 4}
    Patterns <- MCPatterns
    Texts <- MCTexts
    SIZE = 4
    MAXARGS = 3
CHECK_DEADLOCK FALSE
INVARIANTS
    ExecImage
    InodeSound
    UmallocTiled
    GrepSelects
    ParsesAsTyped
PROPERTIES
    ExecSound
