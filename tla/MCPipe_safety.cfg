SPECIFICATION Spec
CONSTANTS
    Proc = {p1, p2, p3}
    Val = {v1, v2}
    PIPESIZE = 2
    WRAP = 4
    MaxN = 2
    Fds <- AnyFds
    MayKill = TRUE
SYMMETRY Interchangeable
CHECK_DEADLOCK FALSE
INVARIANTS
    PipeSound
PROPERTIES
    PipeIsFifo
