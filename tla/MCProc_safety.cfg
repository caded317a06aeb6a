SPECIFICATION FairSpec
CONSTANTS
    NPROC = 3
    CPU = {c1, c2}
INVARIANTS
    StackOwned
    NobodyAbandoned
PROPERTIES
    CallsEnd
