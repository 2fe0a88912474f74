SPECIFICATION ServerSpec
CONSTANTS
    User = {u1, u2}
    Token = {t1, t2, t3, t4}
    Request = {r1, r2, r3}
SYMMETRY Symmetry
INVARIANTS
    ServerTypeOK
    OneTokenPerSession
    RotatedOnce
PROPERTIES
    ImplementsSessions
CHECK_DEADLOCK FALSE
