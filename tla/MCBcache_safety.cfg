SPECIFICATION Spec
CONSTANTS
    Proc = {p1, p2}
    Block = {b1, b2, b3, b4}
    Val = {v1, v2}
    NBUF = 3
    MaxPinned = 1
    NoBlock = NoBlock
    Nobody = Nobody
SYMMETRY Interchangeable
INVARIANTS
    BuffersSound
PROPERTIES
    CacheIsStore
