SPECIFICATION PartSpec
CONSTANTS
    f1 = f1
    f2 = f2
    Filter <- MCFilter
    Pages = 2
    MaxRequests = 5
    None = None
    a1 = a1
    a2 = a2
    Account <- MCAccount
    MaxCalls = 3
    Nobody = Nobody
INVARIANTS
    ShownIsAsked
PROPERTIES
    ListSettles
    GateSettles
CHECK_DEADLOCK FALSE
