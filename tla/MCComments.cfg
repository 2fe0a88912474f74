SPECIFICATION Spec
CONSTANTS
    User = {u1, u2}
    Ticket = {t1, t2}
    Comment = {c1}
    Content = {x1, x2}
    MemberRole = {"member", "admin"}
    Request = {r1, r2, r3}
SYMMETRY Symmetry
INVARIANTS
    CommentHistoryComplete
    OnlyAuthorsSpeak
PROPERTIES
    EntitledAtCommit
CHECK_DEADLOCK FALSE
