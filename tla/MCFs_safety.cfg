SPECIFICATION Spec
CONSTANTS
    Proc = {p1, p2}
    a = a
    b = b
    Name <- MCName
    Call <- MCCall
    Inum = {i1, i2, i3}
    root = i1
    Block = {b1, b2, b3, b4}
    MaxLink = 2
    nil = nil
SYMMETRY Interchangeable
INVARIANTS
    RefsExact
    NobodyStuck
PROPERTIES
    AllocationExact
