SPECIFICATION Spec
CONSTANTS
    User = {u1}
    Token = {t1, t2}
    Request = {r1, r2, r3}
    Call = {c1, c2}
    NoToken = NoToken
    NoRefresh = NoRefresh
INVARIANTS
    OneRefreshAtATime
    HeldTokenWorks
    RefreshesBounded
PROPERTIES
    EveryCallSettles
CHECK_DEADLOCK FALSE
