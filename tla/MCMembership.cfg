SPECIFICATION Spec
CONSTANTS
    User = {u1, u2, u3}
    Org = {o1}
    Request = {r1, r2, r3}
    MaxMemberId = 4
SYMMETRY Symmetry
INVARIANTS
    TypeOK
    EveryOrganizationHasOwner
    AuditTrailReplays
PROPERTIES
    RemovalsEntitledAtCommit
CHECK_DEADLOCK FALSE
