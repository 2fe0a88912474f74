SPECIFICATION InvitationSpec
CONSTANTS
    User = {u1, u2, u3}
    Org = {o1}
    Request = {r1}
    InviteRequest = {i1, i2}
    MaxMemberId = 3
SYMMETRY Symmetry
INVARIANTS
    InvitationTypeOK
    NoInvitationForMember
    TokenAcceptedOnce
    AuditNamesTheParties
PROPERTIES
    JoinsByNewestGrant
    ImplementsMembership
CHECK_DEADLOCK FALSE
