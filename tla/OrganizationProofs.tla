------------------------- MODULE OrganizationProofs -------------------------
(***************************************************************************)
(* Proofs about the members of organizations and their invitations, for    *)
(* any sets of people, organizations and requests: Membership first, then  *)
(* Invitations, which implements it, so that what is shown of the one      *)
(* carries over to the other.                                              *)
(***************************************************************************)
EXTENDS Invitations, SequenceTheorems, FiniteSetTheorems, TLAPS

-----------------------------------------------------------------------------
(***************************************************************************)
(* PART 1: Membership.                                                     *)
(***************************************************************************)

-----------------------------------------------------------------------------
(***************************************************************************)
(* Type correctness.                                                       *)
(***************************************************************************)
\* The set of reachable forms of a request.
LEMMA RequestForms ==
    ASSUME NEW q \in ScopedRequest
    PROVE  /\ q.stage = "scoped"
           /\ q.op \in {"updateRole", "deleteMember"}
           /\ q.org \in Org /\ q.actor \in User /\ q.target \in User
           /\ q.op = "updateRole" => q.role \in Role
  BY DEF ScopedRequest, UpdateRole, DeleteMember

LEMMA PendingIsScoped ==
    ASSUME TypeOK, NEW r \in Request, requests[r].stage = "scoped"
    PROVE  requests[r] \in ScopedRequest
  BY DEF TypeOK, Idle, Answered

LEMMA RemovedIsNoMember == ASSUME NEW row PROVE Removed(row) = NoMember
  BY DEF Removed

LEMMA InitTypeOK == Init => TypeOK
  BY DEF Init, TypeOK, MemberRow

LEMMA AddMemberType ==
    ASSUME TypeOK, NEW o \in Org, NEW u \in User, NEW role \in Role,
           AddMember(o, u, role)
    PROVE  /\ members' \in [Org -> [User -> MemberRow]]
           /\ nextMemberId' \in Nat \ {0}
  BY DEF TypeOK, AddMember, MemberRow

LEMMA AnswerType ==
    ASSUME TypeOK, NEW r \in Request, NEW x \in Outcome, Answer(r, x)
    PROVE  requests' \in [Request -> {Idle} \cup ScopedRequest
                                     \cup {Answered(y) : y \in Outcome}]
  BY DEF TypeOK, Answer

LEMMA OutcomesAreOutcomes ==
    ASSUME NEW q PROVE UpdateRoleOutcome(q) \in Outcome /\ DeleteMemberOutcome(q) \in Outcome
  BY DEF UpdateRoleOutcome, DeleteMemberOutcome, Outcome

THEOREM NextTypeOK == TypeOK /\ [Next]_vars => TypeOK'
<1> SUFFICES ASSUME TypeOK, [Next]_vars PROVE TypeOK'
  OBVIOUS
<1>1. ASSUME NEW u \in User, RegisterUser(u) PROVE TypeOK'
  BY <1>1 DEF RegisterUser, TypeOK
<1>2. ASSUME NEW u \in User, NEW o \in Org, CreateOrganization(u, o) PROVE TypeOK'
  <2>1. /\ members' \in [Org -> [User -> MemberRow]]
        /\ nextMemberId' \in Nat \ {0}
    BY <1>2, AddMemberType DEF CreateOrganization, Role
  <2> QED
    BY <1>2, <2>1 DEF CreateOrganization, TypeOK
<1>3. ASSUME NEW u \in User, NEW o \in Org, NEW role \in InvitableRole,
             JoinOrganization(u, o, role)
      PROVE TypeOK'
  <2>1. /\ members' \in [Org -> [User -> MemberRow]]
        /\ nextMemberId' \in Nat \ {0}
    BY <1>3, AddMemberType DEF JoinOrganization, InvitableRole, Role
  <2> QED
    BY <1>3, <2>1 DEF JoinOrganization, TypeOK
<1>4. ASSUME NEW r \in Request, EnterOrganizationScope(r) PROVE TypeOK'
  BY <1>4 DEF EnterOrganizationScope, db, TypeOK
<1>5. ASSUME NEW r \in Request, updateOrganizationMemberRole(r) PROVE TypeOK'
  <2> DEFINE q == requests[r]
  <2>1. q \in ScopedRequest /\ q.op = "updateRole"
    BY <1>5, PendingIsScoped DEF updateOrganizationMemberRole, IsPending
  <2>2. q.org \in Org /\ q.actor \in User /\ q.target \in User /\ q.role \in Role
    BY <2>1, RequestForms
  <2>3. requests' \in [Request -> {Idle} \cup ScopedRequest
                                  \cup {Answered(y) : y \in Outcome}]
    BY <1>5, AnswerType, OutcomesAreOutcomes DEF updateOrganizationMemberRole
  <2>4. CASE UpdateRoleOutcome(q) = "ok"
    <3>1. /\ members' = [members EXCEPT ![q.org][q.target].role = q.role]
          /\ memberAudit' = Append(memberAudit, RoleChangedAudit(q))
          /\ UNCHANGED <<users, orgs, nextMemberId>>
      BY <1>5, <2>4 DEF updateOrganizationMemberRole, SaveMemberAudit
    <3>2. members[q.org][q.target] \in [id : Nat \ {0}, role : Role]
      BY <2>2, <2>4 DEF TypeOK, MemberRow, UpdateRoleOutcome, IsMember
    <3>3. members' \in [Org -> [User -> MemberRow]]
      BY <2>2, <3>1, <3>2 DEF TypeOK, MemberRow
    <3>4. RoleChangedAudit(q) \in MemberAuditRow
      BY <2>2, <3>2 DEF RoleChangedAudit, MemberAudit, MemberAuditRow, RoleOf
    <3>5. memberAudit' \in Seq(MemberAuditRow)
      BY <3>1, <3>4 DEF TypeOK
    <3> QED
      BY <2>3, <3>1, <3>3, <3>5 DEF TypeOK
  <2>5. CASE UpdateRoleOutcome(q) # "ok"
    BY <1>5, <2>3, <2>5 DEF updateOrganizationMemberRole, db, TypeOK
  <2> QED
    BY <2>4, <2>5
<1>6. ASSUME NEW r \in Request, deleteOrganizationMember(r) PROVE TypeOK'
  <2> DEFINE q == requests[r]
  <2>1. q \in ScopedRequest
    BY <1>6, PendingIsScoped DEF deleteOrganizationMember, IsPending
  <2>2. q.org \in Org /\ q.actor \in User /\ q.target \in User
    BY <2>1, RequestForms
  <2>3. requests' \in [Request -> {Idle} \cup ScopedRequest
                                  \cup {Answered(y) : y \in Outcome}]
    BY <1>6, AnswerType, OutcomesAreOutcomes DEF deleteOrganizationMember
  <2>4. CASE DeleteMemberOutcome(q) = "ok"
    <3>1. /\ members' = [members EXCEPT ![q.org][q.target] = NoMember]
          /\ memberAudit' = Append(memberAudit, MemberDeletedAudit(q))
          /\ UNCHANGED <<users, orgs, nextMemberId>>
      BY <1>6, <2>4, RemovedIsNoMember DEF deleteOrganizationMember, SaveMemberAudit, Removed
    <3>2. members[q.org][q.target] \in [id : Nat \ {0}, role : Role]
      BY <2>2, <2>4 DEF TypeOK, MemberRow, DeleteMemberOutcome, IsMember
    <3>3. members' \in [Org -> [User -> MemberRow]]
      BY <2>2, <3>1 DEF TypeOK, MemberRow
    <3>4. MemberDeletedAudit(q) \in MemberAuditRow
      BY <2>2, <3>2 DEF MemberDeletedAudit, MemberAudit, MemberAuditRow, RoleOf
    <3>5. memberAudit' \in Seq(MemberAuditRow)
      BY <3>1, <3>4 DEF TypeOK
    <3> QED
      BY <2>3, <3>1, <3>3, <3>5 DEF TypeOK
  <2>5. CASE DeleteMemberOutcome(q) # "ok"
    BY <1>6, <2>3, <2>5 DEF deleteOrganizationMember, db, TypeOK
  <2> QED
    BY <2>4, <2>5
<1>7. ASSUME NEW r \in Request, TransactionFails(r) PROVE TypeOK'
  <2>1. requests' \in [Request -> {Idle} \cup ScopedRequest
                                  \cup {Answered(y) : y \in Outcome}]
    BY <1>7, AnswerType DEF TransactionFails, Outcome
  <2> QED
    BY <1>7, <2>1 DEF TransactionFails, db, TypeOK
<1>8. CASE Crash
  BY <1>8 DEF Crash, LoseRequests, db, TypeOK, Outcome
<1>9. CASE UNCHANGED vars
  BY <1>9 DEF vars, TypeOK
<1> QED
  BY <1>1, <1>2, <1>3, <1>4, <1>5, <1>6, <1>7, <1>8, <1>9 DEF Next

\* Every table, request and log entry keeps the form of its schema.
THEOREM TypeCorrect == Spec => []TypeOK
  BY InitTypeOK, NextTypeOK, PTL DEF Spec

-----------------------------------------------------------------------------
(***************************************************************************)
(* Every organization keeps an owner.                                      *)
(*                                                                         *)
(* The services count owners, so the inductive invariant also says that    *)
(* the owners of an organization are a finite set; nothing is assumed      *)
(* about the number of people.                                             *)
(***************************************************************************)
OwnersFinite == \A o \in Org : IsFiniteSet(Owners(o))

OwnerInv == TypeOK /\ OwnersFinite /\ EveryOrganizationHasOwner

\* What a write to one row of organization_members does to the owners.
LEMMA OwnersAfterWrite ==
    ASSUME TypeOK, NEW o \in Org, NEW u \in User, NEW row \in MemberRow,
           members' = [members EXCEPT ![o][u] = row]
    PROVE  /\ \A p \in Org \ {o} : Owners(p)' = Owners(p)
           /\ row.role = "owner" => Owners(o)' = Owners(o) \cup {u}
           /\ row.role # "owner" => Owners(o)' = Owners(o) \ {u}
  BY DEF TypeOK, Owners, RoleOf

\* A member who is not the last owner leaves an owner behind.
LEMMA AnotherOwner ==
    ASSUME TypeOK, OwnersFinite, NEW o \in Org, NEW u \in User,
           Owners(o) # {}, ~IsLastOwner(o, u)
    PROVE  Owners(o) \ {u} # {}
<1>1. CASE RoleOf(o, u) # "owner"
  BY <1>1 DEF Owners
<1>2. CASE RoleOf(o, u) = "owner"
  <2>1. IsFiniteSet(Owners(o)) /\ Cardinality(Owners(o)) \in Nat
    BY FS_CardinalityType DEF OwnersFinite
  <2>2. ~(Cardinality(Owners(o)) <= 1)
    BY <1>2 DEF IsLastOwner
  <2>3. SUFFICES ASSUME Owners(o) \ {u} = {} PROVE FALSE
    OBVIOUS
  <2>4. Owners(o) = {u}
    BY <2>3, <1>2 DEF Owners
  <2>5. Cardinality(Owners(o)) = 1
    BY <2>4, FS_Singleton
  <2> QED
    BY <2>2, <2>5
<1> QED
  BY <1>1, <1>2

LEMMA AddMemberKeepsOwners ==
    ASSUME OwnerInv, NEW o \in Org, NEW u \in User, NEW role \in Role,
           AddMember(o, u, role), ~IsMember(o, u), orgs' = orgs \cup {o},
           o \in orgs \/ role = "owner"
    PROVE  OwnersFinite' /\ EveryOrganizationHasOwner'
<1> DEFINE row == [id |-> nextMemberId, role |-> role]
<1>1. row \in MemberRow /\ members' = [members EXCEPT ![o][u] = row]
  BY DEF AddMember, OwnerInv, TypeOK, MemberRow
<1>2. /\ \A p \in Org \ {o} : Owners(p)' = Owners(p)
      /\ Owners(o)' = Owners(o) \/ Owners(o)' = Owners(o) \cup {u}
      /\ role = "owner" => u \in Owners(o)'
  <2>1. u \notin Owners(o)
    BY DEF IsMember, Owners, RoleOf, NoMember, OwnerInv, TypeOK, MemberRow
  <2> HIDE DEF row
  <2>2. /\ \A p \in Org \ {o} : Owners(p)' = Owners(p)
        /\ row.role = "owner" => Owners(o)' = Owners(o) \cup {u}
        /\ row.role # "owner" => Owners(o)' = Owners(o) \ {u}
    BY <1>1, OwnersAfterWrite DEF OwnerInv
  <2>3. row.role = role
    BY DEF row
  <2> QED
    BY <2>1, <2>2, <2>3
<1>3. OwnersFinite'
  BY <1>2, FS_AddElement DEF OwnersFinite, OwnerInv
<1>4. EveryOrganizationHasOwner'
  BY <1>2 DEF EveryOrganizationHasOwner, OwnerInv, TypeOK
<1> QED
  BY <1>3, <1>4

\* The write of a role change or of a removal.
LEMMA WriteKeepsOwners ==
    ASSUME OwnerInv, NEW o \in Org, NEW u \in User, NEW row \in MemberRow,
           members' = [members EXCEPT ![o][u] = row], orgs' = orgs,
           ~IsLastOwner(o, u)
    PROVE  OwnersFinite' /\ EveryOrganizationHasOwner'
<1> USE DEF OwnerInv
<1>1. /\ \A p \in Org \ {o} : Owners(p)' = Owners(p)
      /\ \/ Owners(o)' = Owners(o) \cup {u}
         \/ Owners(o)' = Owners(o) \ {u}
  BY OwnersAfterWrite
<1>2. IsFiniteSet(Owners(o)')
  BY <1>1, FS_AddElement, FS_RemoveElement DEF OwnersFinite
<1>3. o \in orgs => Owners(o)' # {}
  BY <1>1, AnotherOwner DEF EveryOrganizationHasOwner
<1>4. OwnersFinite'
  BY <1>1, <1>2 DEF OwnersFinite
<1>5. EveryOrganizationHasOwner'
  BY <1>1, <1>3 DEF EveryOrganizationHasOwner, TypeOK
<1> QED
  BY <1>4, <1>5

LEMMA InitOwnerInv == Init => OwnerInv
<1> SUFFICES ASSUME Init PROVE OwnerInv
  OBVIOUS
<1>1. \A o \in Org : Owners(o) = {}
  BY DEF Init, Owners, RoleOf, NoMember
<1>2. OwnersFinite
  BY <1>1, FS_EmptySet DEF OwnersFinite
<1> QED
  BY <1>2, InitTypeOK DEF OwnerInv, EveryOrganizationHasOwner, Init

LEMMA NextOwnerInv == OwnerInv /\ [Next]_vars => OwnerInv'
<1> SUFFICES ASSUME OwnerInv, [Next]_vars PROVE OwnerInv'
  OBVIOUS
<1> USE DEF OwnerInv
<1>0. TypeOK'
  BY NextTypeOK
<1>1. ASSUME UNCHANGED <<orgs, members>>
      PROVE  OwnersFinite' /\ EveryOrganizationHasOwner'
  BY <1>1 DEF OwnersFinite, EveryOrganizationHasOwner, Owners, RoleOf
<1>2. ASSUME NEW u \in User, RegisterUser(u) PROVE OwnersFinite' /\ EveryOrganizationHasOwner'
  BY <1>1, <1>2 DEF RegisterUser
<1>3. ASSUME NEW u \in User, NEW o \in Org, CreateOrganization(u, o)
      PROVE  OwnersFinite' /\ EveryOrganizationHasOwner'
  <2>1. AddMember(o, u, "owner") /\ orgs' = orgs \cup {o} /\ o \notin orgs
    BY <1>3 DEF CreateOrganization
  <2>2. CASE ~IsMember(o, u)
    BY <2>1, <2>2, AddMemberKeepsOwners DEF Role
  <2>3. CASE IsMember(o, u)
    <3> DEFINE row == [id |-> nextMemberId, role |-> "owner"]
    <3>1. row \in MemberRow /\ members' = [members EXCEPT ![o][u] = row]
      BY <2>1 DEF AddMember, TypeOK, MemberRow, Role
    <3>2. row.role = "owner"
      OBVIOUS
    <3> HIDE DEF row
    <3>3. /\ \A p \in Org \ {o} : Owners(p)' = Owners(p)
          /\ Owners(o)' = Owners(o) \cup {u}
      BY <3>1, <3>2, OwnersAfterWrite
    <3>4. OwnersFinite'
      BY <3>3, FS_AddElement DEF OwnersFinite
    <3> QED
      BY <2>1, <3>3, <3>4 DEF EveryOrganizationHasOwner, TypeOK
  <2> QED
    BY <2>2, <2>3
<1>4. ASSUME NEW u \in User, NEW o \in Org, NEW role \in InvitableRole,
             JoinOrganization(u, o, role)
      PROVE  OwnersFinite' /\ EveryOrganizationHasOwner'
  <2>1. AddMember(o, u, role) /\ ~IsMember(o, u) /\ o \in orgs /\ orgs' = orgs \cup {o}
    BY <1>4 DEF JoinOrganization
  <2>2. role \in Role
    BY DEF InvitableRole, Role
  <2> QED
    BY <2>1, <2>2, AddMemberKeepsOwners
<1>5. ASSUME NEW r \in Request, EnterOrganizationScope(r)
      PROVE  OwnersFinite' /\ EveryOrganizationHasOwner'
  BY <1>1, <1>5 DEF EnterOrganizationScope, db
<1>6. ASSUME NEW r \in Request, updateOrganizationMemberRole(r)
      PROVE  OwnersFinite' /\ EveryOrganizationHasOwner'
  <2> DEFINE q == requests[r]
             row == [id |-> members[q.org][q.target].id, role |-> q.role]
  <2>1. q \in ScopedRequest /\ q.op = "updateRole"
    BY <1>6, PendingIsScoped DEF updateOrganizationMemberRole, IsPending
  <2>2. q.org \in Org /\ q.target \in User /\ q.role \in Role
    BY <2>1, RequestForms
  <2>3. CASE UpdateRoleOutcome(q) # "ok"
    BY <1>1, <1>6, <2>3 DEF updateOrganizationMemberRole, db
  <2>4. CASE UpdateRoleOutcome(q) = "ok"
    <3>1. /\ members' = [members EXCEPT ![q.org][q.target].role = q.role]
          /\ orgs' = orgs
      BY <1>6, <2>4 DEF updateOrganizationMemberRole
    <3>2. /\ members[q.org][q.target] \in [id : Nat \ {0}, role : Role]
          /\ ~IsLastOwner(q.org, q.target)
      BY <2>2, <2>4 DEF TypeOK, MemberRow, UpdateRoleOutcome, IsMember
    <3>3. row \in MemberRow /\ members' = [members EXCEPT ![q.org][q.target] = row]
      <4>1. row \in MemberRow
        BY <2>2, <3>2 DEF MemberRow
      <4>2. [members[q.org][q.target] EXCEPT !.role = q.role] = row
        BY <3>2
      <4> QED
        BY <2>2, <3>1, <4>1, <4>2 DEF TypeOK
    <3> HIDE DEF q, row
    <3> QED
      BY <2>2, <3>1, <3>2, <3>3, WriteKeepsOwners
  <2> QED
    BY <2>3, <2>4
<1>7. ASSUME NEW r \in Request, deleteOrganizationMember(r)
      PROVE  OwnersFinite' /\ EveryOrganizationHasOwner'
  <2> DEFINE q == requests[r]
  <2>1. q \in ScopedRequest
    BY <1>7, PendingIsScoped DEF deleteOrganizationMember, IsPending
  <2>2. q.org \in Org /\ q.target \in User
    BY <2>1, RequestForms
  <2>3. CASE DeleteMemberOutcome(q) # "ok"
    BY <1>1, <1>7, <2>3 DEF deleteOrganizationMember, db
  <2>4. CASE DeleteMemberOutcome(q) = "ok"
    <3>1. /\ members' = [members EXCEPT ![q.org][q.target] = NoMember]
          /\ orgs' = orgs
      BY <1>7, <2>4 DEF deleteOrganizationMember, Removed
    <3>2. ~IsLastOwner(q.org, q.target)
      BY <2>4 DEF DeleteMemberOutcome
    <3>3. NoMember \in MemberRow
      BY DEF MemberRow
    <3> HIDE DEF q
    <3> QED
      BY <2>2, <3>1, <3>2, <3>3, WriteKeepsOwners
  <2> QED
    BY <2>3, <2>4
<1>8. ASSUME NEW r \in Request, TransactionFails(r)
      PROVE  OwnersFinite' /\ EveryOrganizationHasOwner'
  BY <1>1, <1>8 DEF TransactionFails, db
<1>9. CASE Crash
  BY <1>0, <1>1, <1>9 DEF Crash, db
<1>10. CASE UNCHANGED vars
  BY <1>0, <1>1, <1>10 DEF vars
<1> QED
  BY <1>0, <1>2, <1>3, <1>4, <1>5, <1>6, <1>7, <1>8, <1>9, <1>10 DEF Next

\* No interleaving of demotions, removals and joins leaves an organization
\* without an owner; the database triggers are not needed for it.
THEOREM OwnerKept == Spec => []EveryOrganizationHasOwner
<1>1. Spec => []OwnerInv
  BY InitOwnerInv, NextOwnerInv, PTL DEF Spec
<1>2. OwnerInv => EveryOrganizationHasOwner
  BY DEF OwnerInv
<1> QED
  BY <1>1, <1>2, PTL

-----------------------------------------------------------------------------
(***************************************************************************)
(* Removals are entitled at their commit.  Only one operation makes a row  *)
(* disappear, and it reads both memberships in its own transaction.        *)
(***************************************************************************)
LEMMA BelowAdmin ==
    ASSUME NEW role \in Role, getRoleLevel[role] < getRoleLevel["admin"]
    PROVE  role \in {"member", "viewer"}
  BY DEF Role, getRoleLevel

LEMMA DeleteOkMeans ==
    ASSUME TypeOK, NEW q, q.org \in Org, q.actor \in User, q.target \in User,
           DeleteMemberOutcome(q) = "ok"
    PROVE  /\ q.actor # q.target
           /\ IsMember(q.org, q.target)
           /\ \/ RoleOf(q.org, q.actor) = "owner"
              \/ /\ RoleOf(q.org, q.actor) = "admin"
                 /\ RoleOf(q.org, q.target) \in {"member", "viewer"}
<1>1. /\ q.actor # q.target
      /\ IsMember(q.org, q.target)
      /\ canDeleteMember(RoleOf(q.org, q.actor), RoleOf(q.org, q.target))
  BY DEF DeleteMemberOutcome
<1>2. RoleOf(q.org, q.target) \in Role
  BY <1>1 DEF TypeOK, MemberRow, IsMember, RoleOf
<1> QED
  BY <1>1, <1>2, BelowAdmin DEF canDeleteMember

LEMMA RemovalStep ==
    ASSUME TypeOK, [Next]_vars, NEW o \in Org, NEW u \in User,
           IsMember(o, u), members'[o][u] = NoMember
    PROVE  RemovalEntitled(o, u)
<1>0. members[o][u] # NoMember
  BY DEF IsMember
<1>1. CASE UNCHANGED members
  BY <1>0, <1>1
<1>2. ASSUME NEW p \in Org, NEW v \in User, NEW role \in Role, AddMember(p, v, role)
      PROVE  FALSE
  <2>1. nextMemberId # 0
    BY DEF TypeOK
  <2>2. members'[o][u] = members[o][u] \/ members'[o][u].id = nextMemberId
    BY <1>2 DEF AddMember, TypeOK
  <2> QED
    BY <1>0, <2>1, <2>2 DEF NoMember
<1>3. ASSUME NEW r \in Request, updateOrganizationMemberRole(r) PROVE FALSE
  <2> DEFINE q == requests[r]
  <2>1. q.org \in Org /\ q.target \in User /\ q.role \in Role
    BY <1>3, PendingIsScoped, RequestForms DEF updateOrganizationMemberRole, IsPending
  <2>2. \/ UNCHANGED members
        \/ members' = [members EXCEPT ![q.org][q.target].role = q.role]
    BY <1>3 DEF updateOrganizationMemberRole, db
  <2>3. members'[o][u].id = members[o][u].id
    <3>1. members[o][u] \in [id : Nat \ {0}, role : Role]
      BY <1>0 DEF TypeOK, MemberRow
    <3> QED
      BY <2>1, <2>2, <3>1 DEF TypeOK
  <2>4. members[o][u].id # 0
    BY <1>0 DEF TypeOK, MemberRow
  <2> QED
    BY <2>3, <2>4 DEF NoMember
<1>4. ASSUME NEW r \in Request, deleteOrganizationMember(r)
      PROVE  RemovalEntitled(o, u)
  <2> DEFINE q == requests[r]
             entry == MemberDeletedAudit(q)
  <2>1. q.org \in Org /\ q.actor \in User /\ q.target \in User
    BY <1>4, PendingIsScoped, RequestForms DEF deleteOrganizationMember, IsPending
  <2>2. CASE UNCHANGED members
    BY <1>0, <2>2
  <2>3. CASE ~UNCHANGED members
    <3>1. /\ DeleteMemberOutcome(q) = "ok"
          /\ members' = [members EXCEPT ![q.org][q.target] = NoMember]
          /\ memberAudit' = Append(memberAudit, entry)
      BY <1>4, <2>3, RemovedIsNoMember
         DEF deleteOrganizationMember, db, SaveMemberAudit, Removed
    <3>2. o = q.org /\ u = q.target
      BY <1>0, <2>1, <3>1 DEF TypeOK
    <3>3. memberAudit' # <<>> /\ memberAudit'[Len(memberAudit')] = entry
      <4> HIDE DEF entry
      <4>1. memberAudit \in Seq(MemberAuditRow)
        BY DEF TypeOK
      <4> QED
        BY <3>1, <4>1
    <3>4. entry.org = o /\ entry.entity = members[o][u].id /\ entry.actor = q.actor
      BY <3>2 DEF MemberDeletedAudit, MemberAudit
    <3>5. /\ q.actor # q.target
          /\ \/ RoleOf(q.org, q.actor) = "owner"
             \/ /\ RoleOf(q.org, q.actor) = "admin"
                /\ RoleOf(q.org, q.target) \in {"member", "viewer"}
      <4> HIDE DEF q
      <4> QED
        BY <2>1, <3>1, DeleteOkMeans
    <3> HIDE DEF q, entry
    <3> QED
      BY <3>2, <3>3, <3>4, <3>5 DEF RemovalEntitled
  <2> QED
    BY <2>2, <2>3
<1>5. ASSUME NEW p \in Org, NEW v \in User, CreateOrganization(v, p) PROVE FALSE
  BY <1>2, <1>5 DEF CreateOrganization, Role
<1>6. ASSUME NEW p \in Org, NEW v \in User, NEW role \in InvitableRole,
             JoinOrganization(v, p, role)
      PROVE  FALSE
  BY <1>2, <1>6 DEF JoinOrganization, InvitableRole, Role
<1> QED
  BY <1>1, <1>3, <1>4, <1>5, <1>6
     DEF Next, vars, db, RegisterUser, EnterOrganizationScope, TransactionFails, Crash

\* Whenever a member disappears, the last entry of the log names an actor who
\* is entitled to remove that member at that very moment, although the role
\* check of the middleware was made earlier.
THEOREM RemovalsAreEntitled == Spec => RemovalsEntitledAtCommit
<1>1. TypeOK /\ [Next]_vars
      => [\A o \in Org, u \in User :
            IsMember(o, u) /\ members'[o][u] = NoMember => RemovalEntitled(o, u)]_vars
  BY RemovalStep
<1> QED
  BY <1>1, TypeCorrect, PTL DEF Spec, RemovalsEntitledAtCommit

-----------------------------------------------------------------------------
(***************************************************************************)
(* The roles in one organization, as tickets and comments see them.        *)
(***************************************************************************)
RolesIn(o) == [u \in User |-> RoleOf(o, u)]

SeenFrom(o) == INSTANCE OrganizationRoles WITH MemberRole <- Role, roles <- RolesIn(o)

LEMMA WrittenRole ==
    ASSUME TypeOK, NEW o \in Org, NEW p \in Org, NEW u \in User, NEW row \in MemberRow,
           members' = [members EXCEPT ![p][u] = row]
    PROVE  SeenFrom(o)!RolesNext \/ RolesIn(o)' = RolesIn(o)
  <1>1. members \in [Org -> [User -> MemberRow]]
    BY DEF TypeOK
  <1>2. row.role \in Role \cup {"none"}
    BY DEF MemberRow, NoMember
  <1>3. CASE o # p
    <2>1. members'[o] = members[o]
      BY <1>1, <1>3
    <2>2. QED BY <2>1 DEF RolesIn, RoleOf
  <1>4. CASE o = p
    <2>1. RolesIn(o)' = [RolesIn(o) EXCEPT ![u] = row.role]
      BY <1>1, <1>4 DEF RolesIn, RoleOf
    <2>2. RolesIn(o)[u] = row.role => RolesIn(o)' = RolesIn(o)
      BY <2>1 DEF RolesIn
    <2>3. RolesIn(o)[u] # row.role => SeenFrom(o)!ChangeRole(u, row.role)
      BY <2>1 DEF SeenFrom!ChangeRole
    <2>4. QED BY <1>2, <2>2, <2>3 DEF SeenFrom!RolesNext
  <1>5. QED BY <1>3, <1>4

LEMMA JoinedRole ==
    ASSUME TypeOK, NEW o \in Org, NEW p \in Org, NEW u \in User, NEW role \in Role,
           AddMember(p, u, role)
    PROVE  SeenFrom(o)!RolesNext \/ RolesIn(o)' = RolesIn(o)
  <1>1. [id |-> nextMemberId, role |-> role] \in MemberRow
    BY DEF TypeOK, MemberRow
  <1>2. members' = [members EXCEPT ![p][u] = [id |-> nextMemberId, role |-> role]]
    BY DEF AddMember
  <1>3. QED BY <1>1, <1>2, WrittenRole

LEMMA OneRoleChanges ==
    ASSUME TypeOK, [Next]_vars, NEW o \in Org
    PROVE  SeenFrom(o)!RolesNext \/ RolesIn(o)' = RolesIn(o)
  <1>1. members' = members => RolesIn(o)' = RolesIn(o)
    BY DEF RolesIn, RoleOf
  <1>2. ASSUME NEW u \in User, NEW p \in Org, CreateOrganization(u, p)
        PROVE  SeenFrom(o)!RolesNext \/ RolesIn(o)' = RolesIn(o)
    BY <1>2, JoinedRole DEF CreateOrganization, Role
  <1>3. ASSUME NEW u \in User, NEW p \in Org, NEW role \in InvitableRole,
               JoinOrganization(u, p, role)
        PROVE  SeenFrom(o)!RolesNext \/ RolesIn(o)' = RolesIn(o)
    BY <1>3, JoinedRole DEF JoinOrganization, InvitableRole, Role
  <1>4. ASSUME NEW r \in Request, updateOrganizationMemberRole(r), members' # members
        PROVE  SeenFrom(o)!RolesNext \/ RolesIn(o)' = RolesIn(o)
    <2> DEFINE q == requests[r]
               row == [members[q.org][q.target] EXCEPT !.role = q.role]
    <2>1. IsPending(r, "updateRole") /\ UpdateRoleOutcome(q) = "ok"
          /\ members' = [members EXCEPT ![q.org][q.target].role = q.role]
      BY <1>4 DEF updateOrganizationMemberRole, db
    <2>2. q.org \in Org /\ q.target \in User /\ q.role \in Role
      BY <2>1, PendingIsScoped, RequestForms DEF IsPending
    <2>3. members[q.org][q.target] \in MemberRow \ {NoMember}
      BY <2>1, <2>2 DEF UpdateRoleOutcome, IsMember, TypeOK
    <2>4. row \in MemberRow
      BY <2>2, <2>3 DEF MemberRow
    <2>5. members' = [members EXCEPT ![q.org][q.target] = row]
      BY <2>1
    <2>6. QED BY <2>2, <2>4, <2>5, WrittenRole
  <1>5. ASSUME NEW r \in Request, deleteOrganizationMember(r), members' # members
        PROVE  SeenFrom(o)!RolesNext \/ RolesIn(o)' = RolesIn(o)
    <2> DEFINE q == requests[r]
    <2>1. IsPending(r, "deleteMember")
          /\ members' = [members EXCEPT ![q.org][q.target] = NoMember]
      BY <1>5, RemovedIsNoMember DEF deleteOrganizationMember, db
    <2>2. q.org \in Org /\ q.target \in User
      BY <2>1, PendingIsScoped, RequestForms DEF IsPending
    <2>3. NoMember \in MemberRow
      BY DEF MemberRow
    <2>4. QED BY <2>1, <2>2, <2>3, WrittenRole
  <1>6. QED BY <1>1, <1>2, <1>3, <1>4, <1>5
            DEF Next, vars, db, RegisterUser, EnterOrganizationScope, TransactionFails, Crash

\* Seen from one organization, whatever happens to the members of any is a
\* change of one role or nothing: what is proved of tickets and comments, whose
\* modules let roles change in this way at any time, holds beside these services
\* (the middleware and the transactions read nothing else of a membership).
THEOREM RolesChangeOneByOne ==
    ASSUME NEW o \in Org
    PROVE  Spec => SeenFrom(o)!RolesSpec
  <1>1. Init => SeenFrom(o)!RolesInit
    BY DEF Init, SeenFrom!RolesInit, RolesIn, RoleOf, NoMember
  <1>2. TypeOK /\ [Next]_vars => [SeenFrom(o)!RolesNext]_(RolesIn(o))
    BY OneRoleChanges
  <1>3. QED BY <1>1, <1>2, TypeCorrect, PTL DEF Spec, SeenFrom!RolesSpec

-----------------------------------------------------------------------------
(***************************************************************************)
(* The log of the members replays to the rows.                             *)
(*                                                                         *)
(* Entries speak of rows by their id alone, so the invariant adds that ids *)
(* are unique and fresh, that an entry speaks of a row that has been       *)
(* written, and that it names the organization of that row.                *)
(***************************************************************************)
NobodyInUnborn == \A o \in Org \ orgs, u \in User : members[o][u] = NoMember

IdsFresh ==
    /\ \A o \in Org, u \in User : members[o][u].id < nextMemberId
    /\ \A i \in DOMAIN memberAudit : memberAudit[i].entity < nextMemberId

IdsUnique ==
    \A o, p \in Org, u, v \in User :
        members[o][u].id = members[p][v].id /\ members[o][u].id # 0 => o = p /\ u = v

EntriesAtHome ==
    \A i \in DOMAIN memberAudit, o \in Org, u \in User :
        members[o][u].id = memberAudit[i].entity => memberAudit[i].org = o

IdsInv == NobodyInUnborn /\ IdsFresh /\ IdsUnique /\ EntriesAtHome

TrailInv == TypeOK /\ IdsInv /\ AuditTrailReplays

LEMMA EntryForm ==
    ASSUME TypeOK, NEW i \in DOMAIN memberAudit
    PROVE  memberAudit[i].entity \in Nat \ {0} /\ memberAudit[i].org \in Org
<1>1. memberAudit[i] \in MemberAuditRow
  BY DEF TypeOK
<1> QED
  BY <1>1 DEF MemberAuditRow

LEMMA InitTrailInv == Init => TrailInv
<1> SUFFICES ASSUME Init PROVE TrailInv
  OBVIOUS
<1>1. IdsInv
  BY DEF Init, IdsInv, NobodyInUnborn, IdsFresh, IdsUnique, EntriesAtHome, NoMember
<1>2. AuditTrailReplays
  BY DEF Init, AuditTrailReplays, AuditChains, AuditShowsRole
<1> QED
  BY <1>1, <1>2, InitTypeOK DEF TrailInv

\* A new row has an id no entry speaks of.
LEMMA AddMemberTrail ==
    ASSUME TrailInv, NEW o \in Org, NEW u \in User, NEW role \in Role,
           AddMember(o, u, role), ~IsMember(o, u),
           orgs' = orgs \cup {o}, memberAudit' = memberAudit
    PROVE  IdsInv' /\ AuditTrailReplays'
<1> DEFINE row == [id |-> nextMemberId, role |-> role]
<1>1. /\ members' = [members EXCEPT ![o][u] = row]
      /\ nextMemberId' = nextMemberId + 1
      /\ nextMemberId \in Nat
      /\ members \in [Org -> [User -> MemberRow]]
      /\ memberAudit \in Seq(MemberAuditRow)
  BY DEF AddMember, TrailInv, TypeOK
<1>2. \A p \in Org, v \in User :
         members'[p][v] = IF p = o /\ v = u THEN row ELSE members[p][v]
  BY <1>1
<1>3. /\ row.id = nextMemberId
      /\ members[o][u].id = 0
  BY DEF IsMember, NoMember
<1>4. \A p \in Org, v \in User : members[p][v].id \in Nat /\ members[p][v].id < nextMemberId
  BY <1>1 DEF TrailInv, IdsInv, IdsFresh, MemberRow, NoMember
<1>5. \A i \in DOMAIN memberAudit : /\ memberAudit[i].entity \in Nat \ {0}
                                    /\ memberAudit[i].entity < nextMemberId
  BY EntryForm DEF TrailInv, IdsInv, IdsFresh
<1> HIDE DEF row
<1>6. \A i \in DOMAIN memberAudit, p \in Org, v \in User :
         /\ members'[p][v].id = memberAudit[i].entity <=> members[p][v].id = memberAudit[i].entity
         /\ members[p][v].id = memberAudit[i].entity => members'[p][v] = members[p][v]
  BY <1>2, <1>3, <1>5
<1>7. NobodyInUnborn'
  BY <1>2 DEF TrailInv, IdsInv, NobodyInUnborn
<1>8. IdsFresh'
  <2>1. \A p \in Org, v \in User : members'[p][v].id < nextMemberId + 1
    BY <1>1, <1>2, <1>3, <1>4
  <2>2. \A i \in DOMAIN memberAudit : memberAudit[i].entity < nextMemberId + 1
    BY <1>1, <1>5
  <2> QED
    BY <1>1, <2>1, <2>2 DEF IdsFresh
<1>9. IdsUnique'
  <2> SUFFICES ASSUME NEW p1 \in Org, NEW p2 \in Org, NEW v1 \in User, NEW v2 \in User,
                      members'[p1][v1].id = members'[p2][v2].id, members'[p1][v1].id # 0
               PROVE  p1 = p2 /\ v1 = v2
    BY DEF IdsUnique
  <2>1. \A p \in Org, v \in User : members[p][v].id # nextMemberId
    BY <1>1, <1>4
  <2>2. CASE p1 = o /\ v1 = u
    BY <1>2, <1>3, <2>1, <2>2
  <2>3. CASE p2 = o /\ v2 = u
    BY <1>2, <1>3, <2>1, <2>3
  <2>4. CASE ~(p1 = o /\ v1 = u) /\ ~(p2 = o /\ v2 = u)
    BY <1>2, <2>4 DEF TrailInv, IdsInv, IdsUnique
  <2> QED
    BY <2>2, <2>3, <2>4
<1>10. EntriesAtHome'
  BY <1>6 DEF TrailInv, IdsInv, EntriesAtHome
<1>11. AuditChains'
  BY DEF TrailInv, AuditTrailReplays, AuditChains, Follows, SameEntity
<1>12. AuditShowsRole'
  <2> SUFFICES ASSUME NEW i \in DOMAIN memberAudit, IsNewest(i)
               PROVE  IF \E v \in User : members'[memberAudit[i].org][v].id = memberAudit[i].entity
                      THEN \A v \in User :
                              members'[memberAudit[i].org][v].id = memberAudit[i].entity
                                => members'[memberAudit[i].org][v].role = memberAudit[i].new
                      ELSE memberAudit[i].new = "none"
    BY DEF AuditShowsRole, IsNewest, SameEntity, RoleOf
  <2>1. memberAudit[i].org \in Org
    BY EntryForm DEF TrailInv
  <2>2. IF \E v \in User : members[memberAudit[i].org][v].id = memberAudit[i].entity
        THEN \A v \in User :
                members[memberAudit[i].org][v].id = memberAudit[i].entity
                  => members[memberAudit[i].org][v].role = memberAudit[i].new
        ELSE memberAudit[i].new = "none"
    BY DEF TrailInv, AuditTrailReplays, AuditShowsRole, RoleOf
  <2> QED
    BY <1>6, <2>1, <2>2
<1> QED
  BY <1>7, <1>8, <1>9, <1>10, <1>11, <1>12 DEF IdsInv, AuditTrailReplays

\* A row is changed or removed together with the entry about it.
LEMMA LoggedWriteTrail ==
    ASSUME TrailInv, NEW o \in Org, NEW u \in User, NEW row, NEW entry \in MemberAuditRow,
           IsMember(o, u),
           members' = [members EXCEPT ![o][u] = row],
           memberAudit' = Append(memberAudit, entry),
           UNCHANGED <<orgs, nextMemberId>>,
           entry.org = o, entry.entity = members[o][u].id,
           entry.old = RoleOf(o, u), entry.new = row.role,
           \/ row.id = members[o][u].id
           \/ row = NoMember
    PROVE  IdsInv' /\ AuditTrailReplays'
<1> DEFINE n == Len(memberAudit)
           id == members[o][u].id
<1>1. /\ members \in [Org -> [User -> MemberRow]]
      /\ memberAudit \in Seq(MemberAuditRow)
      /\ nextMemberId \in Nat
      /\ n \in Nat
  BY DEF TrailInv, TypeOK
<1>2. \A p \in Org, v \in User :
         members'[p][v] = IF p = o /\ v = u THEN row ELSE members[p][v]
  BY <1>1
<1>3. /\ DOMAIN memberAudit' = (DOMAIN memberAudit) \cup {n + 1}
      /\ DOMAIN memberAudit = 1 .. n
      /\ memberAudit'[n + 1] = entry
      /\ \A i \in DOMAIN memberAudit : memberAudit'[i] = memberAudit[i]
  BY <1>1
<1>4. id \in Nat /\ id # 0 /\ id < nextMemberId
  BY <1>1 DEF TrailInv, IdsInv, IdsFresh, IsMember, MemberRow
<1>5. row.id = id \/ (row.id = 0 /\ row.role = "none")
  BY DEF NoMember
<1>6. \A p \in Org, v \in User : members[p][v].id = id => p = o /\ v = u
  BY <1>4 DEF TrailInv, IdsInv, IdsUnique
<1>7. \A i \in DOMAIN memberAudit : memberAudit[i].entity # 0 /\ memberAudit[i].org \in Org
  BY EntryForm DEF TrailInv
<1>8. NobodyInUnborn'
  BY <1>2 DEF TrailInv, IdsInv, NobodyInUnborn, IsMember
<1> HIDE DEF n, id
<1>9. IdsFresh'
  <2>1. \A p \in Org, v \in User : members'[p][v].id < nextMemberId
    BY <1>1, <1>2, <1>4, <1>5 DEF TrailInv, IdsInv, IdsFresh
  <2>2. \A i \in DOMAIN memberAudit' : memberAudit'[i].entity < nextMemberId
    <3>1. entry.entity = id
      BY DEF id
    <3> QED
      BY <1>3, <1>4, <3>1 DEF TrailInv, IdsInv, IdsFresh
  <2> QED
    BY <2>1, <2>2 DEF IdsFresh
<1>10. IdsUnique'
  BY <1>2, <1>5, <1>6 DEF TrailInv, IdsInv, IdsUnique
<1>11. EntriesAtHome'
  <2> SUFFICES ASSUME NEW i \in DOMAIN memberAudit', NEW p \in Org, NEW v \in User,
                      members'[p][v].id = memberAudit'[i].entity
               PROVE  memberAudit'[i].org = p
    BY DEF EntriesAtHome
  <2>1. CASE i \in DOMAIN memberAudit
    <3>1. members[p][v].id = memberAudit[i].entity
      BY <1>2, <1>3, <1>5, <1>7, <2>1 DEF id
    <3> QED
      BY <1>3, <2>1, <3>1 DEF TrailInv, IdsInv, EntriesAtHome
  <2>2. CASE i = n + 1
    <3>1. members'[p][v].id = id
      BY <1>3, <2>2 DEF id
    <3>2. p = o
      BY <1>2, <1>6, <3>1
    <3> QED
      BY <1>3, <2>2, <3>2
  <2> QED
    BY <1>3, <2>1, <2>2
<1>12. AuditChains'
  <2> SUFFICES ASSUME NEW i \in DOMAIN memberAudit', NEW j \in DOMAIN memberAudit',
                      i < j, memberAudit'[i].entity = memberAudit'[j].entity,
                      \A k \in DOMAIN memberAudit' :
                          memberAudit'[i].entity = memberAudit'[k].entity => k <= i \/ j <= k
               PROVE  memberAudit'[i].new = memberAudit'[j].old
    BY DEF AuditChains, Follows, SameEntity
  <2>1. i \in DOMAIN memberAudit
    BY <1>1, <1>3
  <2>2. CASE j \in DOMAIN memberAudit
    <3>1. Follows(i, j)
      BY <1>3, <2>1, <2>2 DEF Follows, SameEntity
    <3> QED
      BY <1>3, <2>1, <2>2, <3>1 DEF TrailInv, AuditTrailReplays, AuditChains
  <2>3. CASE j = n + 1
    <3>1. memberAudit[i].entity = id
      BY <1>3, <2>1, <2>3 DEF id
    <3>2. IsNewest(i)
      <4>1. \A k \in DOMAIN memberAudit : k \in 1 .. n
        BY <1>3
      <4> QED
        BY <1>1, <1>3, <2>1, <2>3, <4>1 DEF IsNewest, SameEntity
    <3>3. memberAudit[i].org = o
      BY <2>1, <3>1 DEF TrailInv, IdsInv, EntriesAtHome, id
    <3>4. RoleOf(o, u) = memberAudit[i].new
      BY <2>1, <3>1, <3>2, <3>3 DEF TrailInv, AuditTrailReplays, AuditShowsRole, id
    <3> QED
      BY <1>3, <2>1, <2>3, <3>4
  <2> QED
    BY <1>3, <2>2, <2>3
<1>13. AuditShowsRole'
  <2> SUFFICES ASSUME NEW i \in DOMAIN memberAudit',
                      \A k \in DOMAIN memberAudit' :
                          memberAudit'[i].entity = memberAudit'[k].entity => k <= i
               PROVE  IF \E v \in User : members'[memberAudit'[i].org][v].id = memberAudit'[i].entity
                      THEN \A v \in User :
                              members'[memberAudit'[i].org][v].id = memberAudit'[i].entity
                                => members'[memberAudit'[i].org][v].role = memberAudit'[i].new
                      ELSE memberAudit'[i].new = "none"
    BY DEF AuditShowsRole, IsNewest, SameEntity, RoleOf
  <2>1. CASE i \in DOMAIN memberAudit
    <3>1. memberAudit[i].entity # id
      <4>1. ~(n + 1 <= i)
        BY <1>1, <1>3, <2>1
      <4> QED
        BY <1>3, <2>1, <4>1 DEF id
    <3>2. IsNewest(i)
      BY <1>3, <2>1 DEF IsNewest, SameEntity
    <3>3. \A v \in User :
             /\ members'[memberAudit[i].org][v].id = memberAudit[i].entity
                  <=> members[memberAudit[i].org][v].id = memberAudit[i].entity
             /\ members[memberAudit[i].org][v].id = memberAudit[i].entity
                  => members'[memberAudit[i].org][v] = members[memberAudit[i].org][v]
      BY <1>2, <1>5, <1>7, <2>1, <3>1 DEF id
    <3>4. IF \E v \in User : members[memberAudit[i].org][v].id = memberAudit[i].entity
          THEN \A v \in User :
                  members[memberAudit[i].org][v].id = memberAudit[i].entity
                    => members[memberAudit[i].org][v].role = memberAudit[i].new
          ELSE memberAudit[i].new = "none"
      BY <2>1, <3>2 DEF TrailInv, AuditTrailReplays, AuditShowsRole, RoleOf
    <3>5. memberAudit'[i] = memberAudit[i]
      BY <1>3, <2>1
    <3> QED
      BY <3>3, <3>4, <3>5
  <2>2. CASE i = n + 1
    <3>1. memberAudit'[i] = entry
      BY <1>3, <2>2
    <3>2. entry.entity = id /\ entry.org = o /\ entry.new = row.role
      BY DEF id
    <3>3. \A v \in User : members'[o][v].id = id => v = u /\ members'[o][v] = row
      BY <1>2, <1>6
    <3>4. members'[o][u] = row
      BY <1>2
    <3>5. CASE row.id = id
      BY <3>1, <3>2, <3>3, <3>4, <3>5
    <3>6. CASE row.id # id
      BY <1>5, <3>1, <3>2, <3>3, <3>4, <3>6
    <3> QED
      BY <3>5, <3>6
  <2> QED
    BY <1>3, <2>1, <2>2
<1> QED
  BY <1>8, <1>9, <1>10, <1>11, <1>12, <1>13 DEF IdsInv, AuditTrailReplays

LEMMA NextTrailInv == TrailInv /\ [Next]_vars => TrailInv'
<1> SUFFICES ASSUME TrailInv, [Next]_vars PROVE TrailInv'
  OBVIOUS
<1>0. TypeOK /\ TypeOK'
  BY NextTypeOK DEF TrailInv
<1>1. ASSUME UNCHANGED <<orgs, members, nextMemberId, memberAudit>>
      PROVE  IdsInv' /\ AuditTrailReplays'
  BY <1>1 DEF TrailInv, IdsInv, NobodyInUnborn, IdsFresh, IdsUnique, EntriesAtHome,
              AuditTrailReplays, AuditChains, AuditShowsRole, Follows, IsNewest,
              SameEntity, RoleOf
<1>2. ASSUME NEW u \in User, NEW o \in Org, CreateOrganization(u, o)
      PROVE  IdsInv' /\ AuditTrailReplays'
  <2>1. ~IsMember(o, u)
    BY <1>2 DEF CreateOrganization, TrailInv, IdsInv, NobodyInUnborn, IsMember
  <2> QED
    BY <1>2, <2>1, AddMemberTrail DEF CreateOrganization, Role
<1>3. ASSUME NEW u \in User, NEW o \in Org, NEW role \in InvitableRole,
             JoinOrganization(u, o, role)
      PROVE  IdsInv' /\ AuditTrailReplays'
  <2>1. role \in Role
    BY DEF InvitableRole, Role
  <2>2. orgs' = orgs \cup {o}
    BY <1>3 DEF JoinOrganization
  <2> QED
    BY <1>3, <2>1, <2>2, AddMemberTrail DEF JoinOrganization
<1>4. ASSUME NEW r \in Request, updateOrganizationMemberRole(r)
      PROVE  IdsInv' /\ AuditTrailReplays'
  <2> DEFINE q == requests[r]
             row == [id |-> members[q.org][q.target].id, role |-> q.role]
             entry == RoleChangedAudit(q)
  <2>1. q.org \in Org /\ q.actor \in User /\ q.target \in User /\ q.role \in Role
    BY <1>0, <1>4, PendingIsScoped, RequestForms DEF updateOrganizationMemberRole, IsPending
  <2>2. CASE UpdateRoleOutcome(q) # "ok"
    BY <1>1, <1>4, <2>2 DEF updateOrganizationMemberRole, db
  <2>3. CASE UpdateRoleOutcome(q) = "ok"
    <3>1. /\ members' = [members EXCEPT ![q.org][q.target].role = q.role]
          /\ memberAudit' = Append(memberAudit, entry)
          /\ UNCHANGED <<orgs, nextMemberId>>
      BY <1>4, <2>3 DEF updateOrganizationMemberRole, SaveMemberAudit
    <3>2. IsMember(q.org, q.target)
      BY <2>3 DEF UpdateRoleOutcome
    <3>3. members[q.org][q.target] \in [id : Nat \ {0}, role : Role]
      BY <1>0, <2>1, <3>2 DEF TypeOK, MemberRow, IsMember
    <3>4. members' = [members EXCEPT ![q.org][q.target] = row]
      <4>1. [members[q.org][q.target] EXCEPT !.role = q.role] = row
        BY <3>3
      <4> QED
        BY <1>0, <2>1, <3>1, <4>1 DEF TypeOK
    <3>5. /\ entry \in MemberAuditRow
          /\ entry.org = q.org
          /\ entry.entity = members[q.org][q.target].id
          /\ entry.old = RoleOf(q.org, q.target)
          /\ entry.new = q.role
      BY <2>1, <3>3 DEF RoleChangedAudit, MemberAudit, MemberAuditRow, RoleOf
    <3>6. row.id = members[q.org][q.target].id /\ entry.new = row.role
      BY <3>5
    <3> HIDE DEF q, row, entry
    <3> QED
      BY <2>1, <3>1, <3>2, <3>4, <3>5, <3>6, LoggedWriteTrail
  <2> QED
    BY <2>2, <2>3
<1>5. ASSUME NEW r \in Request, deleteOrganizationMember(r)
      PROVE  IdsInv' /\ AuditTrailReplays'
  <2> DEFINE q == requests[r]
             entry == MemberDeletedAudit(q)
  <2>1. q.org \in Org /\ q.actor \in User /\ q.target \in User
    BY <1>0, <1>5, PendingIsScoped, RequestForms DEF deleteOrganizationMember, IsPending
  <2>2. CASE DeleteMemberOutcome(q) # "ok"
    BY <1>1, <1>5, <2>2 DEF deleteOrganizationMember, db
  <2>3. CASE DeleteMemberOutcome(q) = "ok"
    <3>1. /\ members' = [members EXCEPT ![q.org][q.target] = NoMember]
          /\ memberAudit' = Append(memberAudit, entry)
          /\ UNCHANGED <<orgs, nextMemberId>>
      BY <1>5, <2>3, RemovedIsNoMember DEF deleteOrganizationMember, SaveMemberAudit, Removed
    <3>2. IsMember(q.org, q.target)
      BY <2>3 DEF DeleteMemberOutcome
    <3>3. members[q.org][q.target] \in [id : Nat \ {0}, role : Role]
      BY <1>0, <2>1, <3>2 DEF TypeOK, MemberRow, IsMember
    <3>4. /\ entry \in MemberAuditRow
          /\ entry.org = q.org
          /\ entry.entity = members[q.org][q.target].id
          /\ entry.old = RoleOf(q.org, q.target)
          /\ entry.new = "none"
      BY <2>1, <3>3 DEF MemberDeletedAudit, MemberAudit, MemberAuditRow, RoleOf
    <3>5. NoMember.role = "none"
      BY DEF NoMember
    <3> HIDE DEF q, entry
    <3> QED
      BY <2>1, <3>1, <3>2, <3>4, <3>5, LoggedWriteTrail
  <2> QED
    BY <2>2, <2>3
<1>6. IdsInv' /\ AuditTrailReplays'
  BY <1>1, <1>2, <1>3, <1>4, <1>5
     DEF Next, vars, db, RegisterUser, EnterOrganizationScope, TransactionFails, Crash
<1> QED
  BY <1>0, <1>6 DEF TrailInv

\* Read from the oldest entry to the newest, the log tells the role of every
\* membership and every removal, for any number of races.
THEOREM AuditTrailIsComplete == Spec => []AuditTrailReplays
<1>1. Spec => []TrailInv
  BY InitTrailInv, NextTrailInv, PTL DEF Spec
<1>2. TrailInv => AuditTrailReplays
  BY DEF TrailInv
<1> QED
  BY <1>1, <1>2, PTL

-----------------------------------------------------------------------------
(***************************************************************************)
(* PART 2: Invitations.                                                    *)
(***************************************************************************)

-----------------------------------------------------------------------------
(***************************************************************************)
(* The inductive invariant.                                                *)
(***************************************************************************)
\* Rows only concern organizations that exist.
OrgsExist ==
    \A o \in Org, e \in User : IsMember(o, e) \/ HasInvitation(o, e) => o \in orgs

\* Requests concern organizations that exist and tokens that were generated.
RequestTracked(q) ==
    /\ q.stage = "scoped" => q.org \in orgs
    /\ q.stage \in {"committed", "mailed"} => q.token \in Tokens

RequestsTracked == \A r \in InviteRequest : RequestTracked(inviteRequests[r])

\* A row carries the newest grant to its address, and nobody has used it.
RowIsNewestGrant(o, e) ==
    LET row == invitations[o][e] IN
    /\ row.token \in NewestGrant(o, e)
    /\ row.role = issued[row.token].role
    /\ \A i \in DOMAIN accepted : accepted[i].token # row.token

GrantsTracked ==
    /\ \A o \in Org, e \in User : HasInvitation(o, e) => RowIsNewestGrant(o, e)
    /\ \A i \in DOMAIN accepted : accepted[i].token \in Tokens

InvitationInv ==
    /\ TypeOK
    /\ InvitationTypeOK
    /\ OrgsExist
    /\ RequestsTracked
    /\ NoInvitationForMember
    /\ GrantsTracked
    /\ TokenAcceptedOnce

-----------------------------------------------------------------------------
(***************************************************************************)
(* Facts about the forms of rows and requests.                             *)
(***************************************************************************)
LEMMA ScopedInviteForm ==
    ASSUME InvitationTypeOK, NEW r \in InviteRequest, inviteRequests[r].stage = "scoped"
    PROVE  LET q == inviteRequests[r] IN
           /\ q.org \in Org /\ q.actor \in User /\ q.actorRole \in Role
           /\ q.email \in User /\ q.role \in InvitableRole
<1> DEFINE q == inviteRequests[r]
<1>1. q \in InviteState
  BY DEF InvitationTypeOK
<1>2. q \in {ScopedInvite(o, a, ar, e, role) :
               o \in Org, a \in User, ar \in Role, e \in User, role \in InvitableRole}
  <2>1. q \notin [stage : {"committed", "mailed"}, token : Nat \ {0}]
    OBVIOUS
  <2>2. q # Idle /\ \A x \in InviteOutcome : q # Answered(x)
    BY DEF Idle, Answered
  <2> QED
    BY <1>1, <2>1, <2>2 DEF InviteState
<1>3. PICK o \in Org, a \in User, ar \in Role, e \in User, role \in InvitableRole :
         q = ScopedInvite(o, a, ar, e, role)
  BY <1>2
<1> QED
  BY <1>3 DEF ScopedInvite

LEMMA RowForm ==
    ASSUME InvitationTypeOK, NEW o \in Org, NEW e \in User, HasInvitation(o, e)
    PROVE  invitations[o][e] \in [id : Nat \ {0}, role : InvitableRole,
                                  token : Nat \ {0}, expired : BOOLEAN]
  BY DEF InvitationTypeOK, InvitationRow, HasInvitation

\* What the success of an acceptance amounts to.
LEMMA AcceptedMeans ==
    ASSUME NEW t, NEW o, NEW e, NEW u, NEW registering,
           AcceptOutcome(t, o, e, u, registering) = "accepted"
    PROVE  u = e /\ ~IsMember(o, u)
<1>1. ResolvedUser(u, e, registering) = "resolved"
  BY DEF AcceptOutcome, ResolvedUser
<1>2. u = e
  BY <1>1 DEF ResolvedUser
<1>3. ~IsMember(o, u)
  BY <1>1 DEF AcceptOutcome
<1> QED
  BY <1>2, <1>3

-----------------------------------------------------------------------------
(***************************************************************************)
(* Every step is a step of Membership.                                     *)
(***************************************************************************)
LEMMA AcceptIsJoin ==
    ASSUME InvitationInv, NEW t, NEW u \in User, NEW registering,
           acceptOrganizationInvitation(t, u, registering)
    PROVE  \E o \in Org, role \in InvitableRole : JoinOrganization(u, o, role)
<1>1. PICK o \in Org, e \in User :
         /\ FoundByToken(t, o, e)
         /\ AcceptOutcome(t, o, e, u, registering) = "accepted"
         /\ users' = users \cup {u}
         /\ AddMember(o, u, invitations[o][e].role)
         /\ UNCHANGED <<orgs, requests, memberAudit>>
  BY DEF acceptOrganizationInvitation
<1>2. ~IsMember(o, u)
  BY <1>1, AcceptedMeans
<1>3. o \in orgs /\ invitations[o][e].role \in InvitableRole
  BY <1>1, RowForm DEF FoundByToken, InvitationInv, OrgsExist
<1> QED
  BY <1>1, <1>2, <1>3 DEF JoinOrganization

LEMMA CrashIsCrash ==
    ASSUME TypeOK, LoseRequests, UNCHANGED db PROVE Crash \/ UNCHANGED vars
<1>1. CASE \E r \in Request : requests[r].stage = "scoped"
  BY <1>1 DEF Crash
<1>2. CASE ~ \E r \in Request : requests[r].stage = "scoped"
  <2>1. requests' = requests
    BY <1>2 DEF LoseRequests, TypeOK
  <2> QED
    BY <2>1 DEF db, vars
<1> QED
  BY <1>1, <1>2

LEMMA StepImplements == InvitationInv /\ [InvitationNext]_allVars => [Next]_vars
<1> SUFFICES ASSUME InvitationInv, [InvitationNext]_allVars PROVE [Next]_vars
  OBVIOUS
<1>1. CASE MembershipStep
  BY <1>1 DEF MembershipStep, Next
<1>2. ASSUME NEW r \in InviteRequest,
             \/ EnterInvitationScope(r) \/ createOrganizationInvitation(r)
             \/ enqueueInvitationEmail(r) \/ saveCreationAudit(r)
             \/ InvitationTransactionFails(r)
      PROVE  UNCHANGED vars
  BY <1>2 DEF EnterInvitationScope, createOrganizationInvitation,
              enqueueInvitationEmail, saveCreationAudit, InvitationTransactionFails
<1>3. ASSUME NEW o \in Org, NEW e \in User, ExpireInvitation(o, e)
      PROVE  UNCHANGED vars
  BY <1>3 DEF ExpireInvitation
<1>4. ASSUME NEW t \in mailed, NEW u \in User, NEW registering \in BOOLEAN,
             acceptOrganizationInvitation(t, u, registering)
      PROVE  Next
  BY <1>4, AcceptIsJoin DEF Next
<1>5. ASSUME NEW entry \in auditBacklog, saveAcceptanceAudit(entry)
      PROVE  UNCHANGED vars
  BY <1>5 DEF saveAcceptanceAudit
<1>6. CASE CrashAll
  BY <1>6, CrashIsCrash DEF CrashAll, InvitationInv, Next
<1>7. CASE UNCHANGED allVars
  BY <1>7 DEF allVars
<1> QED
  BY <1>1, <1>2, <1>3, <1>4, <1>5, <1>6, <1>7 DEF InvitationNext

-----------------------------------------------------------------------------
(***************************************************************************)
(* What the steps of Membership do to the set of members.                  *)
(***************************************************************************)
LEMMA RoleChangeKeepsMembers ==
    ASSUME TypeOK, NEW r \in Request, updateOrganizationMemberRole(r)
    PROVE  \A o \in Org, e \in User : IsMember(o, e)' => IsMember(o, e)
<1> DEFINE q == requests[r]
<1>1. q.org \in Org /\ q.target \in User
  BY PendingIsScoped, RequestForms DEF updateOrganizationMemberRole, IsPending
<1>2. CASE UpdateRoleOutcome(q) # "ok"
  BY <1>2 DEF updateOrganizationMemberRole, db, IsMember
<1>3. CASE UpdateRoleOutcome(q) = "ok"
  <2>1. members' = [members EXCEPT ![q.org][q.target].role = q.role]
    BY <1>3 DEF updateOrganizationMemberRole
  <2>2. IsMember(q.org, q.target)
    BY <1>3 DEF UpdateRoleOutcome
  <2> QED
    BY <1>1, <2>1, <2>2 DEF IsMember, TypeOK
<1> QED
  BY <1>2, <1>3

LEMMA RemovalAddsNoMember ==
    ASSUME TypeOK, NEW r \in Request, deleteOrganizationMember(r)
    PROVE  \A o \in Org, e \in User : IsMember(o, e)' => IsMember(o, e)
<1> DEFINE q == requests[r]
<1>1. q.org \in Org /\ q.target \in User
  BY PendingIsScoped, RequestForms DEF deleteOrganizationMember, IsPending
<1>2. CASE DeleteMemberOutcome(q) # "ok"
  BY <1>2 DEF deleteOrganizationMember, db, IsMember
<1>3. CASE DeleteMemberOutcome(q) = "ok"
  <2>1. members' = [members EXCEPT ![q.org][q.target] = NoMember]
    BY <1>3 DEF deleteOrganizationMember, Removed
  <2> QED
    BY <1>1, <2>1 DEF IsMember, TypeOK
<1> QED
  BY <1>2, <1>3

\* Only the creation of an organization adds a member here.
LEMMA MembersAfterStep ==
    ASSUME TypeOK, MembershipStep
    PROVE  /\ orgs \subseteq orgs'
           /\ \A o \in Org, e \in User :
                 IsMember(o, e)' => IsMember(o, e) \/ (o \notin orgs /\ o \in orgs')
<1>1. ASSUME NEW u \in User, NEW o \in Org, CreateOrganization(u, o)
      PROVE  \A p \in Org, e \in User :
                 IsMember(p, e)' => IsMember(p, e) \/ (p \notin orgs /\ p \in orgs')
  BY <1>1 DEF CreateOrganization, AddMember, IsMember, TypeOK
<1>2. ASSUME NEW r \in Request,
             updateOrganizationMemberRole(r) \/ deleteOrganizationMember(r)
      PROVE  orgs' = orgs /\ \A o \in Org, e \in User : IsMember(o, e)' => IsMember(o, e)
  BY <1>2, RoleChangeKeepsMembers, RemovalAddsNoMember
     DEF updateOrganizationMemberRole, deleteOrganizationMember, db
<1>3. ASSUME NEW u \in User, RegisterUser(u) PROVE UNCHANGED <<orgs, members>>
  BY <1>3 DEF RegisterUser
<1>4. ASSUME NEW r \in Request, EnterOrganizationScope(r) \/ TransactionFails(r)
      PROVE  UNCHANGED <<orgs, members>>
  BY <1>4 DEF EnterOrganizationScope, TransactionFails, db
<1>5. ASSUME UNCHANGED <<orgs, members>>
      PROVE  orgs' = orgs /\ \A o \in Org, e \in User : IsMember(o, e)' => IsMember(o, e)
  BY <1>5 DEF IsMember
<1>6. ASSUME NEW u \in User, NEW o \in Org, CreateOrganization(u, o)
      PROVE  orgs \subseteq orgs'
  BY <1>6 DEF CreateOrganization
<1> QED
  BY <1>1, <1>2, <1>3, <1>4, <1>5, <1>6 DEF MembershipStep

-----------------------------------------------------------------------------
(***************************************************************************)
(* The invariant is inductive.                                             *)
(***************************************************************************)
LEMMA InitInvitationInv == InvitationInit => InvitationInv
<1> SUFFICES ASSUME InvitationInit PROVE InvitationInv
  OBVIOUS
<1>1. TypeOK
  BY InitTypeOK DEF InvitationInit
<1>2. \A o \in Org, e \in User : ~HasInvitation(o, e) /\ ~IsMember(o, e)
  BY DEF InvitationInit, Init, HasInvitation, IsMember
<1>3. InvitationTypeOK
  BY DEF InvitationInit, InvitationTypeOK, InvitationRow, InviteState
<1>4. OrgsExist
  BY <1>2 DEF OrgsExist
<1>6. RequestsTracked
  BY DEF RequestsTracked, RequestTracked, InvitationInit, Idle
<1>5. GrantsTracked /\ TokenAcceptedOnce
  BY <1>2 DEF GrantsTracked, TokenAcceptedOnce, InvitationInit
<1> QED
  BY <1>1, <1>2, <1>3, <1>4, <1>5, <1>6 DEF InvitationInv, NoInvitationForMember

LEMMA GrantsUntouched ==
    ASSUME InvitationInv, UNCHANGED <<invitations, issued, accepted>>
    PROVE  GrantsTracked' /\ TokenAcceptedOnce'
  BY DEF InvitationInv, GrantsTracked, TokenAcceptedOnce, HasInvitation,
         RowIsNewestGrant, NewestGrant, Tokens

LEMMA TablesUntouched ==
    ASSUME InvitationInv, UNCHANGED <<invitations, members>>
    PROVE  NoInvitationForMember'
  BY DEF InvitationInv, NoInvitationForMember, IsMember, HasInvitation

\* A request moves on without touching the tables of invitations or members.
LEMMA RequestMoves ==
    ASSUME InvitationInv, TypeOK', UNCHANGED <<orgs, members>>,
           UNCHANGED <<invitations, nextInvitationId, issued, accepted>>,
           mailed' \in SUBSET Tokens,
           inviteRequests' \in [InviteRequest -> InviteState],
           \A r \in InviteRequest : RequestTracked(inviteRequests'[r]),
           auditBacklog' \in SUBSET InvitationAuditRow,
           invitationAudit' \in SUBSET InvitationAuditRow
    PROVE  InvitationInv'
<1>1. InvitationTypeOK'
  BY DEF InvitationInv, InvitationTypeOK, Tokens
<1>2. OrgsExist'
  BY DEF InvitationInv, OrgsExist, IsMember, HasInvitation
<1>3. RequestsTracked'
  BY DEF RequestsTracked, RequestTracked, Tokens
<1> QED
  BY <1>1, <1>2, <1>3, GrantsUntouched, TablesUntouched DEF InvitationInv

LEMMA MembershipStepInv ==
    ASSUME InvitationInv, TypeOK', MembershipStep PROVE InvitationInv'
<1>1. UNCHANGED inviteVars
  BY DEF MembershipStep
<1>2. InvitationTypeOK'
  BY <1>1 DEF InvitationInv, InvitationTypeOK, inviteVars, Tokens
<1>3. OrgsExist'
  BY <1>1, MembersAfterStep DEF InvitationInv, OrgsExist, inviteVars, HasInvitation
<1>4. NoInvitationForMember'
  BY <1>1, MembersAfterStep
     DEF InvitationInv, OrgsExist, NoInvitationForMember, inviteVars, HasInvitation
<1>5. RequestsTracked'
  BY <1>1, MembersAfterStep
     DEF InvitationInv, RequestsTracked, RequestTracked, inviteVars, Tokens
<1> QED
  BY <1>1, <1>2, <1>3, <1>4, <1>5, GrantsUntouched DEF InvitationInv, inviteVars

LEMMA RequestStepInv ==
    ASSUME InvitationInv, TypeOK', NEW r \in InviteRequest,
           \/ EnterInvitationScope(r) \/ enqueueInvitationEmail(r)
           \/ saveCreationAudit(r) \/ InvitationTransactionFails(r)
    PROVE  InvitationInv'
<1> USE DEF InvitationInv
<1>1. CASE EnterInvitationScope(r)
  <2>1. PICK o \in Org, actor \in users, email \in User, role \in GrantableRole :
           /\ IsMember(o, actor)
           /\ SetStage(r, ScopedInvite(o, actor, RoleOf(o, actor), email, role))
    BY <1>1 DEF EnterInvitationScope
  <2> DEFINE q == ScopedInvite(o, actor, RoleOf(o, actor), email, role)
  <2>2. actor \in User /\ RoleOf(o, actor) \in Role /\ role \in InvitableRole
    BY <2>1 DEF TypeOK, MemberRow, IsMember, RoleOf, GrantableRole
  <2>3. q \in InviteState /\ q.stage = "scoped" /\ q.org = o
    BY <2>2 DEF InviteState, ScopedInvite
  <2>4. o \in orgs
    BY <2>1, <2>2 DEF OrgsExist
  <2>5. inviteRequests' = [inviteRequests EXCEPT ![r] = q]
    BY <2>1 DEF SetStage
  <2> HIDE DEF q
  <2>6. /\ inviteRequests' \in [InviteRequest -> InviteState]
        /\ \A s \in InviteRequest : RequestTracked(inviteRequests'[s])
    BY <2>3, <2>4, <2>5 DEF InvitationTypeOK, RequestsTracked, RequestTracked
  <2> QED
    BY <1>1, <2>6, RequestMoves DEF EnterInvitationScope, vars, InvitationTypeOK
<1>2. ASSUME NEW q \in InviteState, RequestTracked(q), SetStage(r, q)
      PROVE  /\ inviteRequests' \in [InviteRequest -> InviteState]
             /\ \A s \in InviteRequest : RequestTracked(inviteRequests'[s])
  BY <1>2 DEF SetStage, InvitationTypeOK, RequestsTracked
<1>3. CASE enqueueInvitationEmail(r)
  <2> DEFINE q == AtStage("mailed", inviteRequests[r].token)
  <2>1. /\ inviteRequests[r].stage = "committed"
        /\ SetStage(r, q)
        /\ mailed' = mailed \cup {inviteRequests[r].token}
    BY <1>3 DEF enqueueInvitationEmail
  <2>2. inviteRequests[r].token \in Tokens
    BY <2>1 DEF RequestsTracked, RequestTracked
  <2>3. inviteRequests[r].token \in Nat \ {0}
    BY <2>2 DEF Tokens, InvitationTypeOK
  <2>4. q \in InviteState /\ RequestTracked(q)
    BY <2>2, <2>3 DEF InviteState, AtStage, RequestTracked
  <2>5. mailed' \in SUBSET Tokens
    BY <2>1, <2>2 DEF InvitationTypeOK
  <2> HIDE DEF q
  <2> QED
    BY <1>2, <1>3, <2>1, <2>4, <2>5, RequestMoves
       DEF enqueueInvitationEmail, vars, InvitationTypeOK
<1>4. ASSUME NEW x \in InviteOutcome
      PROVE  Answered(x) \in InviteState /\ RequestTracked(Answered(x))
  BY DEF InviteState, Answered, RequestTracked
<1>5. CASE saveCreationAudit(r)
  <2> DEFINE grant == issued[inviteRequests[r].token]
             entry == InvitationAudit(grant.invitation, "create", grant.grantor)
  <2>1. /\ inviteRequests[r].stage = "mailed"
        /\ invitationAudit' \in {invitationAudit, invitationAudit \cup {entry}}
        /\ SetStage(r, Answered("created"))
    BY <1>5 DEF saveCreationAudit
  <2>2. grant \in Grant
    BY <2>1 DEF RequestsTracked, RequestTracked, InvitationTypeOK, Tokens
  <2>3. entry \in InvitationAuditRow
    BY <2>2 DEF Grant, InvitationAudit, InvitationAuditRow
  <2>4. invitationAudit' \in SUBSET InvitationAuditRow
    BY <2>1, <2>3 DEF InvitationTypeOK
  <2>5. "created" \in InviteOutcome
    BY DEF InviteOutcome
  <2>6. /\ inviteRequests' \in [InviteRequest -> InviteState]
        /\ \A s \in InviteRequest : RequestTracked(inviteRequests'[s])
    BY <1>2, <1>4, <2>1, <2>5
  <2> QED
    BY <1>5, <2>4, <2>6, RequestMoves DEF saveCreationAudit, vars, InvitationTypeOK
<1>6. CASE InvitationTransactionFails(r)
  <2>1. "unknown-error" \in InviteOutcome
    BY DEF InviteOutcome
  <2>2. /\ inviteRequests' \in [InviteRequest -> InviteState]
        /\ \A s \in InviteRequest : RequestTracked(inviteRequests'[s])
    BY <1>2, <1>4, <1>6, <2>1 DEF InvitationTransactionFails
  <2> QED
    BY <1>6, <2>2, RequestMoves DEF InvitationTransactionFails, vars, InvitationTypeOK
<1> QED
  BY <1>1, <1>3, <1>5, <1>6

LEMMA AuditAndCrashInv ==
    ASSUME InvitationInv, TypeOK',
           (\E entry \in auditBacklog : saveAcceptanceAudit(entry)) \/ CrashAll
    PROVE  InvitationInv'
<1> USE DEF InvitationInv
<1>1. CASE \E entry \in auditBacklog : saveAcceptanceAudit(entry)
  <2>1. PICK entry \in auditBacklog : saveAcceptanceAudit(entry)
    BY <1>1
  <2>2. /\ auditBacklog' \in SUBSET InvitationAuditRow
        /\ invitationAudit' \in SUBSET InvitationAuditRow
    BY <2>1 DEF saveAcceptanceAudit, InvitationTypeOK
  <2> QED
    BY <2>1, <2>2, RequestMoves
       DEF saveAcceptanceAudit, vars, InvitationTypeOK, RequestsTracked
<1>2. CASE CrashAll
  <2>1. /\ inviteRequests' \in [InviteRequest -> InviteState]
        /\ \A s \in InviteRequest : RequestTracked(inviteRequests'[s])
    BY <1>2 DEF CrashAll, LoseInvites, InvitationTypeOK, InviteState, InviteOutcome,
                RequestsTracked, RequestTracked, Answered
  <2>2. auditBacklog' \in SUBSET InvitationAuditRow
    BY <1>2 DEF CrashAll, LoseInvites
  <2> QED
    BY <1>2, <2>1, <2>2, RequestMoves DEF CrashAll, db, InvitationTypeOK
<1> QED
  BY <1>1, <1>2

LEMMA ExpireInv ==
    ASSUME InvitationInv, TypeOK', NEW o \in Org, NEW e \in User, ExpireInvitation(o, e)
    PROVE  InvitationInv'
<1> USE DEF InvitationInv
<1>1. /\ HasInvitation(o, e)
      /\ invitations' = [invitations EXCEPT ![o][e].expired = TRUE]
      /\ UNCHANGED <<vars, nextInvitationId, issued, mailed, inviteRequests,
                     accepted, auditBacklog, invitationAudit>>
  BY DEF ExpireInvitation
<1>2. invitations[o][e] \in [id : Nat \ {0}, role : InvitableRole,
                             token : Nat \ {0}, expired : BOOLEAN]
  BY <1>1, RowForm
<1> DEFINE row == [invitations[o][e] EXCEPT !.expired = TRUE]
<1>3. invitations' = [invitations EXCEPT ![o][e] = row]
  BY <1>1 DEF InvitationTypeOK
<1>4. /\ row \in [id : Nat \ {0}, role : InvitableRole,
                   token : Nat \ {0}, expired : BOOLEAN]
      /\ row.token = invitations[o][e].token /\ row.role = invitations[o][e].role
  BY <1>2
<1> HIDE DEF row
<1>5. row \in InvitationRow /\ row # NoInvitation
  BY <1>4 DEF InvitationRow, NoInvitation
<1>6. \A p \in Org, f \in User :
         /\ HasInvitation(p, f)' <=> HasInvitation(p, f)
         /\ invitations'[p][f].token = invitations[p][f].token
         /\ invitations'[p][f].role = invitations[p][f].role
  <2> TAKE p \in Org, f \in User
  <2>1. CASE p = o /\ f = e
    <3>1. invitations'[p][f] = row
      BY <1>3, <2>1 DEF InvitationTypeOK
    <3> QED
      BY <1>1, <1>4, <1>5, <2>1, <3>1 DEF HasInvitation
  <2>2. CASE ~(p = o /\ f = e)
    <3>1. invitations'[p][f] = invitations[p][f]
      BY <1>3, <2>2 DEF InvitationTypeOK
    <3> QED
      BY <3>1 DEF HasInvitation
  <2> QED
    BY <2>1, <2>2
<1>7. InvitationTypeOK'
  <2>1. invitations' \in [Org -> [User -> InvitationRow]]
    BY <1>3, <1>5 DEF InvitationTypeOK
  <2> QED
    BY <1>1, <2>1 DEF InvitationTypeOK, Tokens
<1>8. OrgsExist'
  BY <1>1, <1>6 DEF OrgsExist, vars, IsMember
<1>9. RequestsTracked'
  BY <1>1 DEF RequestsTracked, RequestTracked, vars, Tokens
<1>10. NoInvitationForMember'
  BY <1>1, <1>6 DEF NoInvitationForMember, vars, IsMember
<1>11. GrantsTracked' /\ TokenAcceptedOnce'
  BY <1>1, <1>6 DEF GrantsTracked, RowIsNewestGrant, NewestGrant, Tokens, TokenAcceptedOnce
<1> QED
  BY <1>7, <1>8, <1>9, <1>10, <1>11

\* The transaction of a creation: one more grant, the newest one to its address.
LEMMA CreateInv ==
    ASSUME InvitationInv, TypeOK', NEW r \in InviteRequest,
           createOrganizationInvitation(r), InvitationRefusal(inviteRequests[r]) = "none"
    PROVE  InvitationInv'
<1> USE DEF InvitationInv
<1> DEFINE q == inviteRequests[r]
           token == Len(issued) + 1
           old == invitations[q.org][q.email]
           id == InvitationId(old)
           row == [id |-> id, role |-> q.role, token |-> token, expired |-> FALSE]
           grant == [org |-> q.org, email |-> q.email, role |-> q.role,
                     invitation |-> id, grantor |-> q.actor]
<1>1. /\ q.stage = "scoped"
      /\ WriteInvitation(q, token)
      /\ issued' = Append(issued, grant)
      /\ SetStage(r, AtStage("committed", token))
      /\ UNCHANGED <<vars, mailed, accepted, auditBacklog, invitationAudit>>
  BY DEF createOrganizationInvitation
<1>2. /\ q.org \in Org /\ q.actor \in User /\ q.email \in User
      /\ q.role \in InvitableRole /\ q.org \in orgs
  BY <1>1, ScopedInviteForm DEF RequestsTracked, RequestTracked
<1>3. ~IsMember(q.org, q.email)
  BY DEF InvitationRefusal
<1>4. id \in Nat \ {0} /\ token \in Nat \ {0} /\ Len(issued) \in Nat
  BY <1>2 DEF InvitationId, InvitationTypeOK, InvitationRow
<1>5. /\ invitations' = [invitations EXCEPT ![q.org][q.email] = row]
      /\ nextInvitationId' \in Nat \ {0}
  BY <1>1 DEF WriteInvitation, RenewedToken, InvitationTypeOK
<1>6. row \in InvitationRow /\ row # NoInvitation
  BY <1>2, <1>4 DEF InvitationRow, NoInvitation
<1>7. grant \in Grant
  BY <1>2, <1>4 DEF Grant
<1>8. row.token = token /\ row.role = q.role
      /\ grant.org = q.org /\ grant.email = q.email /\ grant.role = q.role
  OBVIOUS
<1> HIDE DEF row, grant, id
<1>9. /\ issued' \in Seq(Grant)
      /\ Tokens' = Tokens \cup {token}
      /\ issued'[token] = grant
      /\ \A t \in Tokens : issued'[t] = issued[t] /\ t < token /\ t \in Nat
      /\ token \notin Tokens
  BY <1>1, <1>4, <1>7 DEF InvitationTypeOK, Tokens
<1>10. \A o \in Org, e \in User :
          invitations'[o][e] = IF o = q.org /\ e = q.email THEN row ELSE invitations[o][e]
  BY <1>2, <1>5 DEF InvitationTypeOK
<1> HIDE DEF token
<1>11. InvitationTypeOK'
  <2>1. invitations' \in [Org -> [User -> InvitationRow]]
    BY <1>5, <1>6 DEF InvitationTypeOK
  <2>2. AtStage("committed", token) \in InviteState
    BY <1>4 DEF InviteState, AtStage
  <2>3. inviteRequests' \in [InviteRequest -> InviteState]
    BY <1>1, <2>2 DEF SetStage, InvitationTypeOK
  <2>4. mailed' \in SUBSET Tokens'
    BY <1>1, <1>9 DEF InvitationTypeOK
  <2> QED
    BY <1>1, <1>5, <1>9, <2>1, <2>3, <2>4 DEF InvitationTypeOK
<1>12. OrgsExist'
  BY <1>1, <1>2, <1>10 DEF OrgsExist, vars, IsMember, HasInvitation
<1>13. RequestsTracked'
  <2>1. inviteRequests' = [inviteRequests EXCEPT ![r] = AtStage("committed", token)]
    BY <1>1 DEF SetStage
  <2>2. \A s \in InviteRequest : RequestTracked(inviteRequests[s])'
    <3> TAKE s \in InviteRequest
    <3>1. CASE s = r
      BY <2>1, <3>1, <1>9 DEF RequestTracked, AtStage, InvitationTypeOK
    <3>2. CASE s # r
      BY <2>1, <3>2, <1>1, <1>9 DEF RequestTracked, RequestsTracked, vars, InvitationTypeOK
    <3> QED
      BY <3>1, <3>2
  <2> QED
    BY <2>2 DEF RequestsTracked
<1>14. NoInvitationForMember'
  BY <1>1, <1>2, <1>3, <1>10 DEF NoInvitationForMember, vars, IsMember, HasInvitation
<1>15. GrantsTracked'
  <2>1. \A i \in DOMAIN accepted' : accepted'[i].token \in Tokens'
    BY <1>1, <1>9 DEF GrantsTracked
  <2>2. ASSUME NEW o \in Org, NEW e \in User, HasInvitation(o, e)'
        PROVE  RowIsNewestGrant(o, e)'
    <3>1. CASE o = q.org /\ e = q.email
      <4>1. invitations'[o][e] = row
        BY <1>10, <3>1
      <4>2. token \in NewestGrant(o, e)'
        BY <1>8, <1>9, <1>4, <3>1 DEF NewestGrant
      <4>3. \A i \in DOMAIN accepted' : accepted'[i].token # token
        BY <1>1, <1>9 DEF GrantsTracked
      <4> QED
        BY <1>8, <1>9, <3>1, <4>1, <4>2, <4>3 DEF RowIsNewestGrant
    <3>2. CASE ~(o = q.org /\ e = q.email)
      <4>1. invitations'[o][e] = invitations[o][e]
        BY <1>10, <3>2
      <4>2. RowIsNewestGrant(o, e)
        BY <2>2, <4>1 DEF HasInvitation, GrantsTracked
      <4>3. invitations[o][e].token \in NewestGrant(o, e)'
        BY <1>8, <1>9, <3>2, <4>2 DEF RowIsNewestGrant, NewestGrant
      <4>4. invitations[o][e].token \in Tokens
        BY <4>2 DEF RowIsNewestGrant, NewestGrant
      <4> QED
        BY <1>1, <1>9, <4>1, <4>2, <4>3, <4>4 DEF RowIsNewestGrant
    <3> QED
      BY <3>1, <3>2
  <2> QED
    BY <2>1, <2>2 DEF GrantsTracked
<1>16. TokenAcceptedOnce'
  BY <1>1 DEF TokenAcceptedOnce
<1> QED
  BY <1>11, <1>12, <1>13, <1>14, <1>15, <1>16

LEMMA RefuseInv ==
    ASSUME InvitationInv, TypeOK', NEW r \in InviteRequest,
           createOrganizationInvitation(r), InvitationRefusal(inviteRequests[r]) # "none"
    PROVE  InvitationInv'
<1> USE DEF InvitationInv
<1> DEFINE x == InvitationRefusal(inviteRequests[r])
<1>1. /\ SetStage(r, Answered(x))
      /\ UNCHANGED <<invitations, nextInvitationId, issued>>
      /\ UNCHANGED <<vars, mailed, accepted, auditBacklog, invitationAudit>>
  BY DEF createOrganizationInvitation
<1>2. x \in InviteOutcome
  BY DEF InvitationRefusal, InviteOutcome
<1> HIDE DEF x
<1>3. Answered(x) \in InviteState /\ RequestTracked(Answered(x))
  BY <1>2 DEF InviteState, Answered, RequestTracked
<1>4. /\ inviteRequests' \in [InviteRequest -> InviteState]
      /\ \A s \in InviteRequest : RequestTracked(inviteRequests'[s])
  BY <1>1, <1>3 DEF SetStage, InvitationTypeOK, RequestsTracked
<1> QED
  BY <1>1, <1>4, RequestMoves DEF vars, InvitationTypeOK

\* The acceptance takes the row away and adds its token to the accepted ones.
LEMMA AcceptInv ==
    ASSUME InvitationInv, TypeOK', NEW t, NEW u \in User, NEW registering,
           acceptOrganizationInvitation(t, u, registering)
    PROVE  InvitationInv'
<1> USE DEF InvitationInv
<1>1. PICK o \in Org, e \in User :
        /\ FoundByToken(t, o, e)
        /\ AcceptOutcome(t, o, e, u, registering) = "accepted"
        /\ AddMember(o, u, invitations[o][e].role)
        /\ DeleteInvitation(o, e)
        /\ accepted' = Append(accepted, [token |-> t, org |-> o, user |-> u])
        /\ auditBacklog' = auditBacklog
              \cup {InvitationAudit(invitations[o][e].id, "accept", u)}
        /\ UNCHANGED <<orgs, requests, memberAudit, nextInvitationId,
                       issued, mailed, inviteRequests, invitationAudit>>
  BY DEF acceptOrganizationInvitation
<1>2. u = e
  BY <1>1, AcceptedMeans
<1>3. HasInvitation(o, e) /\ invitations[o][e].token = t
  BY <1>1 DEF FoundByToken
<1>4. invitations[o][e] \in [id : Nat \ {0}, role : InvitableRole,
                             token : Nat \ {0}, expired : BOOLEAN]
  BY <1>3, RowForm
<1>5. RowIsNewestGrant(o, e)
  BY <1>3 DEF GrantsTracked
<1>6. /\ t \in Tokens /\ t \in Nat \ {0} /\ issued[t].org = o /\ issued[t].email = e
      /\ \A i \in DOMAIN accepted : accepted[i].token # t
  BY <1>3, <1>4, <1>5 DEF RowIsNewestGrant, NewestGrant
<1>7. \A p \in Org, f \in User :
        invitations'[p][f] = IF p = o /\ f = e THEN NoInvitation ELSE invitations[p][f]
  BY <1>1 DEF DeleteInvitation, InvitationTypeOK
<1>8. \A p \in Org, f \in User :
        members'[p][f] = IF p = o /\ f = e THEN members'[o][e] ELSE members[p][f]
  BY <1>1, <1>2 DEF AddMember, TypeOK
<1> DEFINE entry == [token |-> t, org |-> o, user |-> u]
<1>9. entry \in [token : Nat \ {0}, org : Org, user : User] /\ entry.token = t
  BY <1>6
<1> HIDE DEF entry
<1>10. /\ accepted' \in Seq([token : Nat \ {0}, org : Org, user : User])
       /\ Len(accepted) \in Nat
       /\ DOMAIN accepted' = (DOMAIN accepted) \cup {Len(accepted) + 1}
       /\ accepted'[Len(accepted) + 1] = entry
       /\ \A i \in DOMAIN accepted : accepted'[i] = accepted[i]
  BY <1>1, <1>9 DEF InvitationTypeOK, entry
<1>11. InvitationTypeOK'
  <2>1. invitations' \in [Org -> [User -> InvitationRow]]
    BY <1>1 DEF DeleteInvitation, InvitationTypeOK, InvitationRow
  <2>2. InvitationAudit(invitations[o][e].id, "accept", u) \in InvitationAuditRow
    BY <1>4 DEF InvitationAudit, InvitationAuditRow
  <2> QED
    BY <1>1, <1>10, <2>1, <2>2 DEF InvitationTypeOK, Tokens
<1>12. OrgsExist'
  BY <1>1, <1>3, <1>7, <1>8 DEF OrgsExist, IsMember, HasInvitation
<1>13. RequestsTracked'
  BY <1>1 DEF RequestsTracked, RequestTracked, Tokens
<1>14. NoInvitationForMember'
  BY <1>7, <1>8 DEF NoInvitationForMember, IsMember, HasInvitation
<1>15. GrantsTracked'
  <2>1. \A i \in DOMAIN accepted' : accepted'[i].token \in Tokens'
    BY <1>1, <1>6, <1>9, <1>10 DEF GrantsTracked, Tokens
  <2>2. ASSUME NEW p \in Org, NEW f \in User, HasInvitation(p, f)'
        PROVE  RowIsNewestGrant(p, f)'
    <3>1. ~(p = o /\ f = e) /\ invitations'[p][f] = invitations[p][f]
      BY <1>7, <2>2 DEF HasInvitation
    <3>2. RowIsNewestGrant(p, f)
      BY <2>2, <3>1 DEF HasInvitation, GrantsTracked
    <3>3. invitations[p][f].token # t
      BY <1>6, <3>1, <3>2 DEF RowIsNewestGrant, NewestGrant
    <3>4. NewestGrant(p, f)' = NewestGrant(p, f) /\ issued' = issued
      BY <1>1 DEF NewestGrant, Tokens
    <3> QED
      BY <1>9, <1>10, <3>1, <3>2, <3>3, <3>4 DEF RowIsNewestGrant
  <2> QED
    BY <2>1, <2>2 DEF GrantsTracked
<1>16. TokenAcceptedOnce'
  BY <1>6, <1>9, <1>10 DEF TokenAcceptedOnce
<1> QED
  BY <1>11, <1>12, <1>13, <1>14, <1>15, <1>16

LEMMA NextInvitationInv == InvitationInv /\ [InvitationNext]_allVars => InvitationInv'
<1> SUFFICES ASSUME InvitationInv, [InvitationNext]_allVars PROVE InvitationInv'
  OBVIOUS
<1>1. TypeOK'
  BY StepImplements, NextTypeOK DEF InvitationInv
<1>2. CASE UNCHANGED allVars
  BY <1>1, <1>2, RequestMoves
     DEF allVars, inviteVars, vars, InvitationInv, InvitationTypeOK, RequestsTracked
<1>3. CASE \E r \in InviteRequest : createOrganizationInvitation(r)
  BY <1>1, <1>3, CreateInv, RefuseInv
<1>4. CASE \E t \in mailed, u \in User, registering \in BOOLEAN :
             acceptOrganizationInvitation(t, u, registering)
  BY <1>1, <1>4, AcceptInv
<1> QED
  BY <1>1, <1>2, <1>3, <1>4, MembershipStepInv, RequestStepInv, ExpireInv,
     AuditAndCrashInv DEF InvitationNext

-----------------------------------------------------------------------------
(***************************************************************************)
(* The theorems.                                                           *)
(***************************************************************************)
\* The invariant holds in every reachable state (the lemmas above).
THEOREM InvitationInvHolds == InvitationSpec => []InvitationInv
  BY InitInvitationInv, NextInvitationInv, PTL DEF InvitationSpec

\* Every row of invitations has the form of its schema; no invitation ever
\* offers the role of an owner (organization-invitations-service.ts:82).
THEOREM InvitationTypeCorrect == InvitationSpec => []InvitationTypeOK
<1>1. InvitationInv => InvitationTypeOK
  BY DEF InvitationInv
<1> QED
  BY <1>1, InvitationInvHolds, PTL

\* Membership and invitation to the same organization exclude each other.
THEOREM NeverMemberAndInvited == InvitationSpec => []NoInvitationForMember
<1>1. InvitationInv => NoInvitationForMember
  BY DEF InvitationInv
<1> QED
  BY <1>1, InvitationInvHolds, PTL

\* A token lets somebody in at most once (acceptOrganizationInvitation).
THEOREM TokensAreSingleUse == InvitationSpec => []TokenAcceptedOnce
<1>1. InvitationInv => TokenAcceptedOnce
  BY DEF InvitationInv
<1> QED
  BY <1>1, InvitationInvHolds, PTL

\* The invitation flow implements Membership: what is proved of the smaller
\* specification holds of the larger one.
THEOREM InvitationsImplementMembership == InvitationSpec => ImplementsMembership
<1>1. InvitationInit => Init
  BY DEF InvitationInit
<1> QED
  BY <1>1, InvitationInvHolds, StepImplements, PTL
     DEF InvitationSpec, Spec, ImplementsMembership

\* In particular no interleaving of invitations and removals leaves an
\* organization without an owner.
THEOREM OwnerKeptWithInvitations == InvitationSpec => []EveryOrganizationHasOwner
  BY InvitationsImplementMembership, OwnerKept, PTL DEF ImplementsMembership

\* What the log of the members says stays complete with invitations in play,
\* and every removal is made by somebody entitled to it.
THEOREM AuditTrailWithInvitations ==
    InvitationSpec => []AuditTrailReplays /\ RemovalsEntitledAtCommit
  BY InvitationsImplementMembership, AuditTrailIsComplete, RemovalsAreEntitled, PTL
     DEF ImplementsMembership

\* Accepted invitations are such changes, too.
THEOREM RolesChangeOneByOneWithInvitations ==
    ASSUME NEW o \in Org
    PROVE  InvitationSpec => SeenFrom(o)!RolesSpec
  BY InvitationsImplementMembership, RolesChangeOneByOne, PTL DEF ImplementsMembership

-----------------------------------------------------------------------------
(***************************************************************************)
(* Who joins, joins by the newest grant.                                   *)
(***************************************************************************)
LEMMA JoinStep ==
    ASSUME InvitationInv, [InvitationNext]_allVars, accepted' # accepted
    PROVE  LET a == accepted'[Len(accepted')] IN
           /\ a.token \in NewestGrant(a.org, a.user)
           /\ members'[a.org][a.user].role = issued[a.token].role
<1> USE DEF InvitationInv
<1>1. PICK t \in mailed, u \in User, registering \in BOOLEAN :
         acceptOrganizationInvitation(t, u, registering)
  BY DEF InvitationNext, allVars, inviteVars, MembershipStep, EnterInvitationScope,
         createOrganizationInvitation, enqueueInvitationEmail, saveCreationAudit,
         InvitationTransactionFails, ExpireInvitation, saveAcceptanceAudit, CrashAll
<1>2. PICK o \in Org, e \in User :
        /\ FoundByToken(t, o, e)
        /\ AcceptOutcome(t, o, e, u, registering) = "accepted"
        /\ AddMember(o, u, invitations[o][e].role)
        /\ accepted' = Append(accepted, [token |-> t, org |-> o, user |-> u])
  BY <1>1 DEF acceptOrganizationInvitation
<1>3. u = e
  BY <1>2, AcceptedMeans
<1>4. RowIsNewestGrant(o, e) /\ invitations[o][e].token = t
  BY <1>2 DEF FoundByToken, GrantsTracked
<1>5. members'[o][u].role = invitations[o][e].role
  BY <1>2 DEF AddMember, TypeOK
<1> DEFINE a == [token |-> t, org |-> o, user |-> u]
<1>6. a.token = t /\ a.org = o /\ a.user = u
  OBVIOUS
<1> HIDE DEF a
<1>7. accepted'[Len(accepted')] = a
  <2>1. accepted \in Seq([token : Nat \ {0}, org : Org, user : User])
    BY DEF InvitationTypeOK
  <2> QED
    BY <1>2, <2>1 DEF a
<1> QED
  BY <1>3, <1>4, <1>5, <1>6, <1>7 DEF RowIsNewestGrant

\* Nobody joins by a token that a later invitation has replaced, nor in a role
\* other than the one of that very grant.
THEOREM JoinsAreByNewestGrant == InvitationSpec => JoinsByNewestGrant
<1>1. InvitationInv /\ [InvitationNext]_allVars
      => [accepted' # accepted =>
            LET a == accepted'[Len(accepted')] IN
            /\ a.token \in NewestGrant(a.org, a.user)
            /\ members'[a.org][a.user].role = issued[a.token].role]_allVars
  BY JoinStep
<1> QED
  BY <1>1, InvitationInvHolds, PTL DEF InvitationSpec, JoinsByNewestGrant

-----------------------------------------------------------------------------
(***************************************************************************)
(* The audit entries name the parties.                                     *)
(*                                                                         *)
(* Entries speak of the id of a row, and an id survives the renewal of an  *)
(* expired invitation.  The invariant says that all grants of one id went  *)
(* to one address, and that the token of a row was granted with its id.    *)
(***************************************************************************)
GrantsOf(id) == {t \in Tokens : issued[t].invitation = id}

NamesParties(entry) ==
    /\ entry.action = "create" =>
          \E t \in GrantsOf(entry.entity) : issued[t].grantor = entry.actor
    /\ entry.action = "accept" =>
          /\ GrantsOf(entry.entity) # {}
          /\ \A t \in GrantsOf(entry.entity) : issued[t].email = entry.actor

GrantIdsFresh == \A t \in Tokens : issued[t].invitation < nextInvitationId

OneAddress ==
    \A s, t \in Tokens :
        issued[s].invitation = issued[t].invitation => issued[s].email = issued[t].email

RowIdsGranted ==
    \A o \in Org, e \in User :
        HasInvitation(o, e) => issued[invitations[o][e].token].invitation = invitations[o][e].id

EntriesNameParties ==
    \A entry \in auditBacklog \cup invitationAudit : NamesParties(entry)

PartiesInv == GrantIdsFresh /\ OneAddress /\ RowIdsGranted /\ EntriesNameParties

LEMMA InitPartiesInv == InvitationInit => PartiesInv
  BY DEF InvitationInit, PartiesInv, GrantIdsFresh, OneAddress, RowIdsGranted,
         EntriesNameParties, HasInvitation, Tokens

\* Steps that issue nothing and neither add a row nor change its id or token.
LEMMA PartiesKept ==
    ASSUME PartiesInv, UNCHANGED <<issued, nextInvitationId>>,
           \A o \in Org, e \in User : HasInvitation(o, e)' =>
               /\ HasInvitation(o, e)
               /\ invitations'[o][e].id = invitations[o][e].id
               /\ invitations'[o][e].token = invitations[o][e].token,
           \A entry \in auditBacklog' \cup invitationAudit' : NamesParties(entry)
    PROVE  PartiesInv'
<1>1. \A entry : NamesParties(entry)' <=> NamesParties(entry)
  BY DEF NamesParties, GrantsOf, Tokens
<1>2. EntriesNameParties'
  BY <1>1 DEF EntriesNameParties
<1>3. GrantIdsFresh' /\ OneAddress'
  BY DEF PartiesInv, GrantIdsFresh, OneAddress, Tokens
<1>4. RowIdsGranted'
  BY DEF PartiesInv, RowIdsGranted
<1> QED
  BY <1>2, <1>3, <1>4 DEF PartiesInv

LEMMA CreateParties ==
    ASSUME InvitationInv, PartiesInv, NEW r \in InviteRequest,
           createOrganizationInvitation(r), InvitationRefusal(inviteRequests[r]) = "none"
    PROVE  PartiesInv'
<1> USE DEF InvitationInv
<1> DEFINE q == inviteRequests[r]
           token == Len(issued) + 1
           old == invitations[q.org][q.email]
           id == InvitationId(old)
           row == [id |-> id, role |-> q.role, token |-> token, expired |-> FALSE]
           grant == [org |-> q.org, email |-> q.email, role |-> q.role,
                     invitation |-> id, grantor |-> q.actor]
<1>1. /\ q.stage = "scoped"
      /\ WriteInvitation(q, token)
      /\ issued' = Append(issued, grant)
      /\ UNCHANGED <<auditBacklog, invitationAudit>>
  BY DEF createOrganizationInvitation
<1>2. /\ q.org \in Org /\ q.actor \in User /\ q.email \in User
      /\ q.role \in InvitableRole
  BY <1>1, ScopedInviteForm
<1>3. id \in Nat \ {0} /\ Len(issued) \in Nat
  BY <1>2 DEF InvitationId, InvitationTypeOK, InvitationRow
<1>4. invitations' = [invitations EXCEPT ![q.org][q.email] = row]
  BY <1>1 DEF WriteInvitation, RenewedToken
<1>5. grant \in Grant
  BY <1>2, <1>3 DEF Grant
<1>6. /\ row.token = token /\ row.id = id
      /\ grant.email = q.email /\ grant.invitation = id
  OBVIOUS
<1>7. \/ /\ id = nextInvitationId
         /\ nextInvitationId' = nextInvitationId + 1
      \/ /\ HasInvitation(q.org, q.email)
         /\ id = old.id
         /\ nextInvitationId' = nextInvitationId
  BY <1>1 DEF WriteInvitation, InvitationId, HasInvitation
<1>8. ASSUME HasInvitation(q.org, q.email), id = old.id
      PROVE  /\ old.token \in Tokens
             /\ issued[old.token].email = q.email
             /\ issued[old.token].invitation = id
  <2>1. RowIsNewestGrant(q.org, q.email)
    BY <1>2, <1>8 DEF GrantsTracked
  <2>2. issued[old.token].invitation = old.id
    BY <1>2, <1>8 DEF PartiesInv, RowIdsGranted
  <2> QED
    BY <1>8, <2>1, <2>2 DEF RowIsNewestGrant, NewestGrant
<1> HIDE DEF row, grant, id, old
<1>9. /\ Tokens' = Tokens \cup {token}
      /\ issued'[token] = grant
      /\ \A t \in Tokens : issued'[t] = issued[t]
      /\ token \notin Tokens
      /\ \A t \in Tokens : issued[t].invitation \in Nat
  <2>1. \A t \in Tokens : issued[t] \in Grant
    BY DEF InvitationTypeOK, Tokens
  <2>2. \A t \in Tokens : issued[t].invitation \in Nat
    BY <2>1 DEF Grant
  <2> QED
    BY <1>1, <1>3, <1>5, <2>2 DEF InvitationTypeOK, Tokens
<1>10. \A o \in Org, e \in User :
          invitations'[o][e] = IF o = q.org /\ e = q.email THEN row ELSE invitations[o][e]
  BY <1>2, <1>4 DEF InvitationTypeOK
<1>11. nextInvitationId \in Nat
  BY DEF InvitationTypeOK
<1> HIDE DEF token, q
<1>12. \A t \in Tokens : issued[t].invitation = id => issued[t].email = grant.email
  BY <1>6, <1>7, <1>8, <1>9, <1>11 DEF PartiesInv, GrantIdsFresh, OneAddress
<1>13. GrantIdsFresh'
  <2>1. id < nextInvitationId'
    BY <1>7, <1>8, <1>3, <1>11 DEF PartiesInv, GrantIdsFresh
  <2>2. nextInvitationId <= nextInvitationId' /\ nextInvitationId' \in Nat
    BY <1>7, <1>11
  <2> QED
    BY <1>6, <1>9, <1>11, <2>1, <2>2 DEF PartiesInv, GrantIdsFresh
<1>14. OneAddress'
  BY <1>6, <1>9, <1>12 DEF PartiesInv, OneAddress
<1>15. RowIdsGranted'
  <2> SUFFICES ASSUME NEW o \in Org, NEW e \in User, HasInvitation(o, e)'
               PROVE  issued'[invitations'[o][e].token].invitation = invitations'[o][e].id
    BY DEF RowIdsGranted
  <2>1. CASE o = q.org /\ e = q.email
    BY <1>6, <1>9, <1>10, <2>1
  <2>2. CASE ~(o = q.org /\ e = q.email)
    <3>1. invitations'[o][e] = invitations[o][e]
      BY <1>10, <2>2
    <3>2. HasInvitation(o, e)
      BY <3>1 DEF HasInvitation
    <3>3. invitations[o][e].token \in Tokens
      BY <3>2 DEF GrantsTracked, RowIsNewestGrant, NewestGrant
    <3> QED
      BY <1>9, <3>1, <3>2, <3>3 DEF PartiesInv, RowIdsGranted
  <2> QED
    BY <2>1, <2>2
<1>16. EntriesNameParties'
  <2> SUFFICES ASSUME NEW entry \in auditBacklog \cup invitationAudit
               PROVE  NamesParties(entry)'
    BY <1>1 DEF EntriesNameParties
  <2>1. NamesParties(entry)
    BY DEF PartiesInv, EntriesNameParties
  <2>2. GrantsOf(entry.entity) \subseteq GrantsOf(entry.entity)'
    BY <1>9 DEF GrantsOf
  <2>3. \A t \in GrantsOf(entry.entity) : t \in Tokens /\ issued'[t] = issued[t]
    BY <1>9 DEF GrantsOf
  <2>4. ASSUME entry.action = "accept", NEW t \in GrantsOf(entry.entity)'
        PROVE  issued'[t].email = entry.actor
    <3>1. PICK s \in GrantsOf(entry.entity) : issued[s].email = entry.actor
      BY <2>1, <2>4 DEF NamesParties
    <3>2. s \in Tokens' /\ issued'[s].email = entry.actor
      BY <1>9, <2>3, <3>1
    <3>3. s \in GrantsOf(entry.entity)'
      BY <2>2, <3>1
    <3> QED
      BY <1>14, <3>2, <3>3 DEF OneAddress, GrantsOf
  <2> QED
    BY <2>1, <2>2, <2>3, <2>4 DEF NamesParties
<1> QED
  BY <1>13, <1>14, <1>15, <1>16 DEF PartiesInv

LEMMA AcceptParties ==
    ASSUME InvitationInv, PartiesInv, NEW t, NEW u \in User, NEW registering,
           acceptOrganizationInvitation(t, u, registering)
    PROVE  PartiesInv'
<1> USE DEF InvitationInv
<1>1. PICK o \in Org, e \in User :
        /\ FoundByToken(t, o, e)
        /\ AcceptOutcome(t, o, e, u, registering) = "accepted"
        /\ DeleteInvitation(o, e)
        /\ auditBacklog' = auditBacklog
              \cup {InvitationAudit(invitations[o][e].id, "accept", u)}
        /\ UNCHANGED <<nextInvitationId, issued, invitationAudit>>
  BY DEF acceptOrganizationInvitation
<1>2. u = e
  BY <1>1, AcceptedMeans
<1> DEFINE id == invitations[o][e].id
           entry == InvitationAudit(id, "accept", u)
<1>3. /\ t \in Tokens
      /\ issued[t].email = e
      /\ issued[t].invitation = id
  BY <1>1 DEF FoundByToken, GrantsTracked, RowIsNewestGrant, NewestGrant,
              PartiesInv, RowIdsGranted
<1>4. entry.entity = id /\ entry.action = "accept" /\ entry.actor = u
  BY DEF InvitationAudit
<1> HIDE DEF id, entry
<1>5. t \in GrantsOf(id) /\ \A s \in GrantsOf(id) : issued[s].email = e
  BY <1>3 DEF GrantsOf, PartiesInv, OneAddress
<1>6. NamesParties(entry)
  BY <1>2, <1>4, <1>5 DEF NamesParties
<1>7. \A x \in auditBacklog' \cup invitationAudit' : NamesParties(x)
  BY <1>1, <1>6 DEF PartiesInv, EntriesNameParties, entry, id
<1>8. \A p \in Org, f \in User : HasInvitation(p, f)' =>
          HasInvitation(p, f) /\ invitations'[p][f] = invitations[p][f]
  BY <1>1 DEF DeleteInvitation, HasInvitation, InvitationTypeOK
<1> QED
  BY <1>1, <1>7, <1>8, PartiesKept

LEMMA NextPartiesInv ==
    InvitationInv /\ PartiesInv /\ [InvitationNext]_allVars => PartiesInv'
<1> SUFFICES ASSUME InvitationInv, PartiesInv, [InvitationNext]_allVars PROVE PartiesInv'
  OBVIOUS
<1>0. \A entry \in auditBacklog \cup invitationAudit : NamesParties(entry)
  BY DEF PartiesInv, EntriesNameParties
<1>1. ASSUME UNCHANGED <<issued, nextInvitationId, invitations>>,
             \A entry \in auditBacklog' \cup invitationAudit' : NamesParties(entry)
      PROVE  PartiesInv'
  <2>1. \A o \in Org, e \in User :
           /\ HasInvitation(o, e)' => HasInvitation(o, e)
           /\ invitations'[o][e] = invitations[o][e]
    BY <1>1 DEF HasInvitation
  <2> QED
    BY <1>1, <2>1, PartiesKept
<1>2. CASE MembershipStep \/ UNCHANGED allVars
  BY <1>0, <1>1, <1>2 DEF MembershipStep, allVars, inviteVars
<1>3. ASSUME NEW r \in InviteRequest,
             \/ EnterInvitationScope(r) \/ enqueueInvitationEmail(r)
             \/ InvitationTransactionFails(r)
      PROVE  PartiesInv'
  BY <1>0, <1>1, <1>3 DEF EnterInvitationScope, enqueueInvitationEmail,
                          InvitationTransactionFails
<1>4. ASSUME NEW r \in InviteRequest, createOrganizationInvitation(r)
      PROVE  PartiesInv'
  <2>1. CASE InvitationRefusal(inviteRequests[r]) = "none"
    BY <1>4, <2>1, CreateParties
  <2>2. CASE InvitationRefusal(inviteRequests[r]) # "none"
    BY <1>0, <1>1, <1>4, <2>2 DEF createOrganizationInvitation
  <2> QED
    BY <2>1, <2>2
<1>5. ASSUME NEW r \in InviteRequest, saveCreationAudit(r)
      PROVE  PartiesInv'
  <2> DEFINE token == inviteRequests[r].token
             entry == InvitationAudit(issued[token].invitation, "create", issued[token].grantor)
  <2>1. /\ inviteRequests[r].stage = "mailed"
        /\ invitationAudit' \in {invitationAudit, invitationAudit \cup {entry}}
        /\ UNCHANGED <<issued, nextInvitationId, invitations, auditBacklog>>
    BY <1>5 DEF saveCreationAudit
  <2>2. token \in Tokens
    BY <2>1 DEF InvitationInv, RequestsTracked, RequestTracked
  <2>3. /\ entry.entity = issued[token].invitation
        /\ entry.action = "create"
        /\ entry.actor = issued[token].grantor
    BY DEF InvitationAudit
  <2> HIDE DEF token, entry
  <2>4. NamesParties(entry)
    BY <2>2, <2>3 DEF NamesParties, GrantsOf
  <2> QED
    BY <1>0, <1>1, <2>1, <2>4
<1>6. ASSUME NEW o \in Org, NEW e \in User, ExpireInvitation(o, e) PROVE PartiesInv'
  <2>1. /\ HasInvitation(o, e)
        /\ invitations' = [invitations EXCEPT ![o][e].expired = TRUE]
        /\ UNCHANGED <<issued, nextInvitationId, auditBacklog, invitationAudit>>
    BY <1>6 DEF ExpireInvitation
  <2>2. invitations[o][e] \in [id : Nat \ {0}, role : InvitableRole,
                               token : Nat \ {0}, expired : BOOLEAN]
    BY <2>1, RowForm DEF InvitationInv
  <2>3. invitations \in [Org -> [User -> InvitationRow]]
    BY DEF InvitationInv, InvitationTypeOK
  <2>4. \A p \in Org, f \in User : ~(p = o /\ f = e) => invitations'[p][f] = invitations[p][f]
    BY <2>1, <2>3
  <2>5. /\ invitations'[o][e].id = invitations[o][e].id
        /\ invitations'[o][e].token = invitations[o][e].token
    BY <2>1, <2>2, <2>3
  <2>6. \A p \in Org, f \in User : HasInvitation(p, f)' =>
           /\ HasInvitation(p, f)
           /\ invitations'[p][f].id = invitations[p][f].id
           /\ invitations'[p][f].token = invitations[p][f].token
    <3> TAKE p \in Org, f \in User
    <3>1. CASE p = o /\ f = e
      BY <2>1, <2>5, <3>1
    <3>2. CASE ~(p = o /\ f = e)
      BY <2>4, <3>2 DEF HasInvitation
    <3> QED
      BY <3>1, <3>2
  <2> QED
    BY <1>0, <2>1, <2>6, PartiesKept
<1>7. ASSUME NEW t \in mailed, NEW u \in User, NEW registering \in BOOLEAN,
             acceptOrganizationInvitation(t, u, registering)
      PROVE  PartiesInv'
  BY <1>7, AcceptParties
<1>8. ASSUME NEW entry \in auditBacklog, saveAcceptanceAudit(entry) PROVE PartiesInv'
  <2>1. auditBacklog' \cup invitationAudit' \subseteq auditBacklog \cup invitationAudit
    BY <1>8 DEF saveAcceptanceAudit
  <2> QED
    BY <1>0, <1>1, <1>8, <2>1 DEF saveAcceptanceAudit
<1>9. CASE CrashAll
  <2>1. auditBacklog' \cup invitationAudit' \subseteq auditBacklog \cup invitationAudit
    BY <1>9 DEF CrashAll, LoseInvites
  <2> QED
    BY <1>0, <1>1, <1>9, <2>1 DEF CrashAll
<1> QED
  BY <1>2, <1>3, <1>4, <1>5, <1>6, <1>7, <1>8, <1>9 DEF InvitationNext

\* Every audit entry names the parties of its invitation, whenever it is
\* written and however often the invitation has been renewed meanwhile.
THEOREM AuditEntriesNameParties == InvitationSpec => []AuditNamesTheParties
<1>1. InvitationSpec => []PartiesInv
  BY InvitationInvHolds, InitPartiesInv, NextPartiesInv, PTL DEF InvitationSpec
<1>2. PartiesInv => AuditNamesTheParties
  BY DEF PartiesInv, EntriesNameParties, NamesParties, GrantsOf, AuditNamesTheParties
<1> QED
  BY <1>1, <1>2, PTL

=============================================================================
