SPECIFICATION FairSpec
CONSTANTS
    Proc = {p1, p2}
    Block = {b1, b2, b3, b4}
    Val = {v1, v2}
    Torn = Torn
    NoBuf = NoBuf
    MAXOPBLOCKS = 2
    LOGSIZE = 4
    NLOG = 5
    OpBlocks = 1
INVARIANTS
    QuiescentIsDurable
    NoPanic
    LogInv
PROPERTIES
    AtomicSpec
    WriteAhead
    SleeperWakes
