SPECIFICATION PartSpec
CONSTANTS
    Organization = {o1}
    User = {u1, u2}
    Operation = {op}
    LimitByOrganization <- MCLimitByOrganization
    LimitByUser <- MCLimitByUser
    WindowMs = 3
    SweepThreshold = 1
    MaxTime = 8
    NoRequest = NoRequest
    t1 = t1
    t2 = t2
    Ticket <- MCTicket
    InUse = {"low"}
    NoRow = NoRow
    NotCounted = NotCounted
    Internal = Internal
    root = root
    a = a
    b = b
    c = c
    Node <- MCNode
    Root = root
    MaxJsonDepth = 2
    MaxRuns = 6
    None = None
    a1 = a1
    a2 = a2
    Account <- MCAccount
    MaxCalls = 4
    Nobody = Nobody
INVARIANTS
    LessThanTwiceTheLimit
    RefusalsAreDeserved
    SummariesAgree
    AcceptsBoundedTrees
    OneSubmissionAtATime
    OwnOrganizationsOnly
PROPERTIES
    ImplementsFixedWindow
CHECK_DEADLOCK FALSE
