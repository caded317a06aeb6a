SPECIFICATION MCSpec
CONSTANTS
    NPROC = 3
    CPU = {c0}
    cpu0 = c0
    NQUEUE = 3
    MAX_WAIT_TIME = 2
    MayFork = FALSE
    MaxTickets = 2
    Val = {v1, v2}
    Zero = v1
    MaxN = 3
    MaxDepth = 2
    HandlerRearms = FALSE
PROPERTIES
    ResumesExactly
    AlarmGoesOn
    MlfqNoStarvation
    LotteryGoesOn
