SPECIFICATION Spec
CONSTANTS
    Proc = {p1, p2, p3}
    Page = {g1, g2, g3, g4}
    NPage = 2
    Text = {0}
    StackPage = 1
    Val = {v0, v1}
    Zero = v0
    Junk = Junk
    None = None
    CopyoutToText = FALSE
SYMMETRY Interchangeable
CHECK_DEADLOCK FALSE
INVARIANTS
    RefCountExact
PROPERTIES
    CowIsEager
