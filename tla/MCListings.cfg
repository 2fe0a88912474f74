SPECIFICATION Spec
CONSTANTS
    r1 = r1
    r2 = r2
    r3 = r3
    r4 = r4
    r5 = r5
    Row <- MCRow
    PerPage = 2
    MaxTake = 3
    MaxSkip = 2
    NotRead = NotRead
SYMMETRY Symmetry
INVARIANTS
    WalksAreComplete
CHECK_DEADLOCK FALSE
