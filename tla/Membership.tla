----------------------------- MODULE Membership -----------------------------
(***************************************************************************)
(* Organizations and their members.                                        *)
(*                                                                         *)
(* The tables users, organizations, organization_members and the part of   *)
(* audit_logs about members are the shared state.  A request to change or  *)
(* to remove a member is served in two steps, as in routes/organizations:  *)
(* the scope and role middleware read the membership of the actor          *)
(* (EnterOrganizationScope), and later the service runs one transaction.   *)
(* Any number of other transactions may commit in between.  A transaction  *)
(* is one step: SQLite serializes writers, so it commits as a whole or     *)
(* rolls back as a whole (TransactionFails).                               *)
(*                                                                         *)
(* The triggers on organization_members repeat the last-owner rule inside  *)
(* the database.  They are not part of the steps below: the properties     *)
(* show that the services alone keep the rule.                             *)
(***************************************************************************)
EXTENDS Roles, Naturals, Sequences, FiniteSets

CONSTANTS
    User,         \* people, each with one e-mail address
    Org,          \* organizations, named by their unique slug
    Request,      \* HTTP requests that change or remove a member
    MaxMemberId   \* bound on the number of membership rows ever created

ASSUME MaxMemberIdAssumption == MaxMemberId \in Nat

VARIABLES
    users,        \* people with an account
    orgs,         \* organizations created so far
    members,      \* members[o][u] is the row of u in o, or NoMember
    nextMemberId, \* source of fresh membership ids (randomUUID)
    requests,     \* progress of every request
    memberAudit   \* audit_logs rows with entity type organization_member

db == <<users, orgs, members, nextMemberId, memberAudit>>
vars == <<users, orgs, members, nextMemberId, requests, memberAudit>>

NoMember == [id |-> 0, role |-> "none"]

IsMember(o, u) == members[o][u] # NoMember
RoleOf(o, u) == members[o][u].role
Owners(o) == {u \in User : RoleOf(o, u) = "owner"}

-----------------------------------------------------------------------------
(***************************************************************************)
(* Requests.  A request serves one call and is not reused.                 *)
(***************************************************************************)
Idle == [stage |-> "idle"]

UpdateRole(o, actor, target, role) ==
    [stage |-> "scoped", op |-> "updateRole", org |-> o, actor |-> actor,
     target |-> target, role |-> role]

DeleteMember(o, actor, target) ==
    [stage |-> "scoped", op |-> "deleteMember", org |-> o, actor |-> actor,
     target |-> target]

ScopedRequest ==
    {UpdateRole(o, a, t, role) : o \in Org, a \in User, t \in User, role \in Role}
      \cup {DeleteMember(o, a, t) : o \in Org, a \in User, t \in User}

Outcome == {"ok", "target-not-found", "same-role", "last-owner",
            "insufficient-role", "unknown-error"}

Answered(outcome) == [stage |-> "answered", outcome |-> outcome]

Answer(r, outcome) == requests' = [requests EXCEPT ![r] = Answered(outcome)]

IsPending(r, op) == requests[r].stage = "scoped" /\ requests[r].op = op

\* requireOwnerMiddleware on PATCH, requireAdminMiddleware on DELETE.
RequiredRole(op) == IF op = "updateRole" THEN "owner" ELSE "admin"

\* authMiddleware, organizationScopeMiddleware and requireRoleMiddleware let
\* the request through: the actor is a member with a sufficient role now.
EnterOrganizationScope(r) ==
    /\ requests[r] = Idle
    /\ \E q \in ScopedRequest :
          /\ q.actor \in users
          /\ IsMember(q.org, q.actor)
          /\ HasRole(RoleOf(q.org, q.actor), RequiredRole(q.op))
          /\ requests' = [requests EXCEPT ![r] = q]
    /\ UNCHANGED db

-----------------------------------------------------------------------------
(***************************************************************************)
(* Accounts, organizations and joins.                                      *)
(***************************************************************************)
AddMember(o, u, role) ==
    /\ nextMemberId <= MaxMemberId
    /\ members' = [members EXCEPT ![o][u] = [id |-> nextMemberId, role |-> role]]
    /\ nextMemberId' = nextMemberId + 1

RegisterUser(u) ==
    /\ u \notin users
    /\ users' = users \cup {u}
    /\ UNCHANGED <<orgs, members, nextMemberId, requests, memberAudit>>

CreateOrganization(u, o) ==
    /\ u \in users
    /\ o \notin orgs
    /\ orgs' = orgs \cup {o}
    /\ AddMember(o, u, "owner")
    /\ UNCHANGED <<users, requests, memberAudit>>

\* What the acceptance of an invitation does to these tables; the acceptor
\* either has an account or registers in the same transaction.
JoinOrganization(u, o, role) ==
    /\ o \in orgs
    /\ ~IsMember(o, u)
    /\ users' = users \cup {u}
    /\ AddMember(o, u, role)
    /\ UNCHANGED <<orgs, requests, memberAudit>>

-----------------------------------------------------------------------------
(***************************************************************************)
(* PATCH /organizations/:organizationId/members/:userId/role               *)
(***************************************************************************)
MemberAudit(o, actor, id, action, old, new) ==
    [org |-> o, actor |-> actor, entity |-> id, action |-> action,
     old |-> old, new |-> new]

\* Plausible slip: an off-by-one in the owner count.
IsLastOwner_OffByOne(o, u) == RoleOf(o, u) = "owner" /\ Cardinality(Owners(o)) < 1

IsLastOwner(o, u) == RoleOf(o, u) = "owner" /\ Cardinality(Owners(o)) <= 1

UpdateRoleOutcome(q) ==
    IF ~IsMember(q.org, q.target) THEN "target-not-found"
    ELSE IF RoleOf(q.org, q.target) = q.role THEN "same-role"
    ELSE IF IsLastOwner(q.org, q.target) THEN "last-owner"
    ELSE "ok"

SaveMemberAudit(entry) == memberAudit' = Append(memberAudit, entry)

\* Plausible slip: the row written to the log is the one read back after the
\* update, so the log shows the new role twice.
RoleChangedAudit_ReadBack(q) ==
    MemberAudit(q.org, q.actor, members[q.org][q.target].id, "role_changed",
                q.role, q.role)

RoleChangedAudit(q) ==
    MemberAudit(q.org, q.actor, members[q.org][q.target].id, "role_changed",
                RoleOf(q.org, q.target), q.role)

updateOrganizationMemberRole(r) ==
    LET q == requests[r] IN
    /\ IsPending(r, "updateRole")
    /\ Answer(r, UpdateRoleOutcome(q))
    /\ \/ /\ UpdateRoleOutcome(q) = "ok"
          /\ members' = [members EXCEPT ![q.org][q.target].role = q.role]
          /\ SaveMemberAudit(RoleChangedAudit(q))
          /\ UNCHANGED <<users, orgs, nextMemberId>>
       \/ /\ UpdateRoleOutcome(q) # "ok"
          /\ UNCHANGED db

-----------------------------------------------------------------------------
(***************************************************************************)
(* DELETE /organizations/:organizationId/members/:userId                   *)
(***************************************************************************)
\* Plausible slip: the service trusts the role check of the middleware and
\* does not read the actor's membership again.
DeleteMemberOutcome_TrustsMiddleware(q) ==
    IF ~IsMember(q.org, q.target) THEN "target-not-found"
    ELSE IF IsLastOwner(q.org, q.target) THEN "last-owner"
    ELSE IF q.actor = q.target THEN "insufficient-role"
    ELSE "ok"

DeleteMemberOutcome(q) ==
    IF ~IsMember(q.org, q.actor) THEN "insufficient-role"
    ELSE IF ~IsMember(q.org, q.target) THEN "target-not-found"
    ELSE IF ~canDeleteMember(RoleOf(q.org, q.actor), RoleOf(q.org, q.target))
         THEN "insufficient-role"
    ELSE IF IsLastOwner(q.org, q.target) THEN "last-owner"
    ELSE IF q.actor = q.target THEN "insufficient-role"
    ELSE "ok"

\* Plausible slip: the row is blanked but keeps its id.
Removed_Blanked(row) == [row EXCEPT !.role = "none"]

Removed(row) == NoMember

MemberDeletedAudit(q) ==
    MemberAudit(q.org, q.actor, members[q.org][q.target].id, "member_deleted",
                RoleOf(q.org, q.target), "none")

deleteOrganizationMember(r) ==
    LET q == requests[r] IN
    /\ IsPending(r, "deleteMember")
    /\ Answer(r, DeleteMemberOutcome(q))
    /\ \/ /\ DeleteMemberOutcome(q) = "ok"
          /\ members' = [members EXCEPT ![q.org][q.target] = Removed(@)]
          /\ SaveMemberAudit(MemberDeletedAudit(q))
          /\ UNCHANGED <<users, orgs, nextMemberId>>
       \/ /\ DeleteMemberOutcome(q) # "ok"
          /\ UNCHANGED db

\* The transaction is rolled back (busy database, transaction timeout).
TransactionFails(r) ==
    /\ requests[r].stage = "scoped"
    /\ Answer(r, "unknown-error")
    /\ UNCHANGED db

\* The server process dies: every request in flight is lost, the database stays.
LoseRequests ==
    requests' = [r \in Request |-> IF requests[r].stage = "scoped"
                                   THEN Answered("unknown-error")
                                   ELSE requests[r]]

Crash ==
    /\ \E r \in Request : requests[r].stage = "scoped"
    /\ LoseRequests
    /\ UNCHANGED db

-----------------------------------------------------------------------------
Init ==
    /\ users = {}
    /\ orgs = {}
    /\ members = [o \in Org |-> [u \in User |-> NoMember]]
    /\ nextMemberId = 1
    /\ requests = [r \in Request |-> Idle]
    /\ memberAudit = <<>>

Next ==
    \/ \E u \in User : RegisterUser(u)
    \/ \E u \in User, o \in Org : CreateOrganization(u, o)
    \/ \E u \in User, o \in Org, role \in InvitableRole : JoinOrganization(u, o, role)
    \/ \E r \in Request : EnterOrganizationScope(r)
    \/ \E r \in Request : updateOrganizationMemberRole(r)
    \/ \E r \in Request : deleteOrganizationMember(r)
    \/ \E r \in Request : TransactionFails(r)
    \/ Crash

Spec == Init /\ [][Next]_vars

-----------------------------------------------------------------------------
(***************************************************************************)
(* Properties.                                                             *)
(***************************************************************************)
MemberRow == {NoMember} \cup [id : Nat \ {0}, role : Role]

MemberAuditRow ==
    [org : Org, actor : User, entity : Nat \ {0},
     action : {"role_changed", "member_deleted"},
     old : Role, new : Role \cup {"none"}]

\* Every table holds rows of its schema; in particular a removed member leaves
\* no partial row behind (the delete is a hard delete).
TypeOK ==
    /\ users \in SUBSET User
    /\ orgs \in SUBSET Org
    /\ members \in [Org -> [User -> MemberRow]]
    /\ nextMemberId \in Nat \ {0}
    /\ requests \in [Request -> {Idle} \cup ScopedRequest
                                 \cup {Answered(x) : x \in Outcome}]
    /\ memberAudit \in Seq(MemberAuditRow)

\* An organization never loses its last owner, whatever demotions and removals
\* are in flight at the same time (organization-members-service.ts:77, :241).
\* The service keeps this without the database triggers.
EveryOrganizationHasOwner == \A o \in orgs : Owners(o) # {}

\* The audit log tells the history of every membership: consecutive entries
\* about one membership fit together, and the newest one shows the role the
\* member has now, or that the membership is gone.
SameEntity(i, j) == memberAudit[i].entity = memberAudit[j].entity

IsNewest(i) == \A j \in DOMAIN memberAudit : SameEntity(i, j) => j <= i

Follows(i, j) ==
    /\ i < j
    /\ SameEntity(i, j)
    /\ \A k \in DOMAIN memberAudit : SameEntity(i, k) => k <= i \/ j <= k

AuditChains ==
    \A i, j \in DOMAIN memberAudit :
        Follows(i, j) => memberAudit[i].new = memberAudit[j].old

AuditShowsRole ==
    \A i \in DOMAIN memberAudit : IsNewest(i) =>
        IF \E u \in User : members[memberAudit[i].org][u].id = memberAudit[i].entity
        THEN \A u \in User :
                members[memberAudit[i].org][u].id = memberAudit[i].entity
                  => RoleOf(memberAudit[i].org, u) = memberAudit[i].new
        ELSE memberAudit[i].new = "none"

AuditTrailReplays == AuditChains /\ AuditShowsRole

\* When a removal commits, the actor named in the log is somebody else and is
\* at that very moment entitled to it: an owner, or an admin removing a member
\* or a viewer (the comment on the route, organizations.ts:362).
RemovalEntitled(o, u) ==
    /\ memberAudit' # <<>>
    /\ LET entry == memberAudit'[Len(memberAudit')] IN
       /\ entry.org = o
       /\ entry.entity = members[o][u].id
       /\ entry.actor # u
       /\ \/ RoleOf(o, entry.actor) = "owner"
          \/ /\ RoleOf(o, entry.actor) = "admin"
             /\ RoleOf(o, u) \in {"member", "viewer"}

RemovalsEntitledAtCommit ==
    [][\A o \in Org, u \in User :
          IsMember(o, u) /\ members'[o][u] = NoMember => RemovalEntitled(o, u)]_vars

=============================================================================
