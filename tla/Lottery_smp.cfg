SPECIFICATION Spec
CONSTANTS
    NPROC = 3
    CPU = {c1, c2}
    MaxTickets = 2
INVARIANTS
    TotalIsSum
