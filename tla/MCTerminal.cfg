SPECIFICATION MCSpec
CONSTANTS
    Reader = {p1}
    Writer = {q1, q2}
    Char = {"a"}
    Sessions <- MCSessions
    Byte = {"x", "y"}
    MaxN = 2
    INPUT_BUF_SIZE = 2
    UART_TX_BUF_SIZE = 2
    FifoSize = 2
    UINT = 4
    MAXARGS = 4
    PIPESIZE = 1
    ShellSessions <- MCShellSessions
    Dirs <- MCDirs
CHECK_DEADLOCK FALSE
INVARIANTS
    RunsAsTyped
PROPERTIES
    ConsoleIsEditor
    OutputIsFifo
    NobodyForgotten
    DescriptorsRight
    SessionEnds
