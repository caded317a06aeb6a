SPECIFICATION MCSpec
CONSTANTS
    Proc = {p1, p2, p3}
    Val = {v1, v2}
    NUM = 7
    WRAP = 7
    CPU = {c0, c1}
    cpu0 = c0
    other = c1
    Thread = {t1, t2}
    none = none
    Naps = {2}
    TICKS = 3
SYMMETRY Interchangeable
INVARIANTS
    RequestsServed
    LocksAndInterrupts
    SleepsEnough
