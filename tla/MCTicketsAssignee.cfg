SPECIFICATION Spec
CONSTANTS
    User = {u1, u2}
    Ticket = {t1}
    Text = {x1, x2}
    Priority = {p1, p2}
    MemberRole = {"member", "admin"}
    Request = {r1, r2, r3}
    NoOne = NoOne
SYMMETRY Symmetry
PROPERTIES
    DepartedAssigneesAreResolved
CHECK_DEADLOCK FALSE
