SPECIFICATION MCSpec
CONSTANTS
    NPROC = 3
    CPU = {c0, c1}
    cpu0 = c0
    NQUEUE = 2
    MAX_WAIT_TIME = 2
    MayFork = TRUE
    Builds = {"FCFS", "PBS"}
    Priority = {59}
INVARIANTS
    OneCpu
    PicksBest
    WaitTimeCounts
