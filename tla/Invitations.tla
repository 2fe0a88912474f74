---------------------------- MODULE Invitations ----------------------------
(***************************************************************************)
(* Invitations to an organization, on top of Membership.                   *)
(*                                                                         *)
(* An invitation is addressed to an e-mail address, here the person it     *)
(* belongs to, whether or not that person has an account yet.  Creating    *)
(* one is a request of several steps: the middleware reads the inviter's   *)
(* role, the service commits the row, the controller hands the mail to the *)
(* queue, and only then tries to write the audit entry.  Accepting one is  *)
(* a single transaction, by a user with an account or by a person who      *)
(* registers in it.  The token leaves the server only in the mail.         *)
(*                                                                         *)
(* Every step of this module is a step of Membership or leaves its         *)
(* variables alone (ImplementsMembership).                                 *)
(***************************************************************************)
EXTENDS Membership

CONSTANT InviteRequest  \* HTTP requests that create an invitation

VARIABLES
    invitations,      \* invitations[o][e]: the row for address e, or NoInvitation
    nextInvitationId, \* source of fresh invitation ids
    issued,           \* history: every token generated, a token is its index
    mailed,           \* tokens handed to the mail queue
    inviteRequests,   \* progress of every request
    accepted,         \* history: the acceptances in commit order
    auditBacklog,     \* acceptance entries whose write is still under way
    invitationAudit   \* audit_logs rows with entity type organization_invitation

inviteVars == <<invitations, nextInvitationId, issued, mailed, inviteRequests,
                accepted, auditBacklog, invitationAudit>>
allVars == <<vars, inviteVars>>

NoInvitation == [id |-> 0, role |-> "none", token |-> 0, expired |-> FALSE]

HasInvitation(o, e) == invitations[o][e] # NoInvitation

Tokens == DOMAIN issued

-----------------------------------------------------------------------------
(***************************************************************************)
(* POST /organizations/:organizationId/invitations                         *)
(***************************************************************************)
ScopedInvite(o, actor, actorRole, email, role) ==
    [stage |-> "scoped", org |-> o, actor |-> actor, actorRole |-> actorRole,
     email |-> email, role |-> role]

AtStage(stage, token) == [stage |-> stage, token |-> token]

InviteOutcome == {"created", "insufficient-role", "already-member",
                  "already-invited", "unknown-error", "lost"}

SetStage(r, q) == inviteRequests' = [inviteRequests EXCEPT ![r] = q]

\* Plausible slip: the address may be invited to any role.
GrantableRole_Any == Role

\* invitationRoleSchema, checked again by validateInvitationRole.
GrantableRole == InvitableRole

\* The role the middleware read travels with the request and is not read again.
EnterInvitationScope(r) ==
    /\ inviteRequests[r] = Idle
    /\ \E o \in Org, actor \in users, email \in User, role \in GrantableRole :
          /\ IsMember(o, actor)
          /\ HasRole(RoleOf(o, actor), "admin")
          /\ SetStage(r, ScopedInvite(o, actor, RoleOf(o, actor), email, role))
    /\ UNCHANGED <<vars, invitations, nextInvitationId, issued, mailed,
                   accepted, auditBacklog, invitationAudit>>

\* Plausible slip: the address is not looked up among the members.
InvitationRefusal_NoMemberLookup(q) ==
    IF ~canInviteRole(q.actorRole, q.role) THEN "insufficient-role"
    ELSE IF HasInvitation(q.org, q.email) /\ ~invitations[q.org][q.email].expired
         THEN "already-invited"
    ELSE "none"

InvitationRefusal(q) ==
    IF ~canInviteRole(q.actorRole, q.role) THEN "insufficient-role"
    ELSE IF IsMember(q.org, q.email) THEN "already-member"
    ELSE IF HasInvitation(q.org, q.email) /\ ~invitations[q.org][q.email].expired
         THEN "already-invited"
    ELSE "none"

\* Plausible slip: the row of an expired invitation is revived with its old token.
RenewedToken_Kept(row, token) == IF row = NoInvitation THEN token ELSE row.token

RenewedToken(row, token) == token

\* The row of an expired invitation is reused: its id stays, the rest is new.
InvitationId(row) == IF row = NoInvitation THEN nextInvitationId ELSE row.id

WriteInvitation(q, token) ==
    LET row == invitations[q.org][q.email] IN
    /\ invitations' = [invitations EXCEPT ![q.org][q.email] =
          [id |-> InvitationId(row), role |-> q.role,
           token |-> RenewedToken(row, token), expired |-> FALSE]]
    /\ nextInvitationId' = IF row = NoInvitation THEN nextInvitationId + 1
                           ELSE nextInvitationId

createOrganizationInvitation(r) ==
    LET q == inviteRequests[r]
        token == Len(issued) + 1
    IN
    /\ q.stage = "scoped"
    /\ \/ /\ InvitationRefusal(q) = "none"
          /\ WriteInvitation(q, token)
          /\ issued' = Append(issued,
                [org |-> q.org, email |-> q.email, role |-> q.role,
                 invitation |-> InvitationId(invitations[q.org][q.email]),
                 grantor |-> q.actor])
          /\ SetStage(r, AtStage("committed", token))
       \/ /\ InvitationRefusal(q) # "none"
          /\ SetStage(r, Answered(InvitationRefusal(q)))
          /\ UNCHANGED <<invitations, nextInvitationId, issued>>
    /\ UNCHANGED <<vars, mailed, accepted, auditBacklog, invitationAudit>>

enqueueInvitationEmail(r) ==
    /\ inviteRequests[r].stage = "committed"
    /\ mailed' = mailed \cup {inviteRequests[r].token}
    /\ SetStage(r, AtStage("mailed", inviteRequests[r].token))
    /\ UNCHANGED <<vars, invitations, nextInvitationId, issued, accepted,
                   auditBacklog, invitationAudit>>

InvitationAudit(id, action, actor) ==
    [entity |-> id, action |-> action, actor |-> actor]

\* The entry is written after the commit, or its failure is logged and ignored;
\* the request is answered 201 in both cases.
saveCreationAudit(r) ==
    /\ inviteRequests[r].stage = "mailed"
    /\ LET grant == issued[inviteRequests[r].token]
           entry == InvitationAudit(grant.invitation, "create", grant.grantor)
       IN  invitationAudit' \in {invitationAudit, invitationAudit \cup {entry}}
    /\ SetStage(r, Answered("created"))
    /\ UNCHANGED <<vars, invitations, nextInvitationId, issued, mailed,
                   accepted, auditBacklog>>

InvitationTransactionFails(r) ==
    /\ inviteRequests[r].stage = "scoped"
    /\ SetStage(r, Answered("unknown-error"))
    /\ UNCHANGED <<vars, invitations, nextInvitationId, issued, mailed,
                   accepted, auditBacklog, invitationAudit>>

\* Seven days have passed since the invitation was written.
ExpireInvitation(o, e) ==
    /\ HasInvitation(o, e)
    /\ ~invitations[o][e].expired
    /\ invitations' = [invitations EXCEPT ![o][e].expired = TRUE]
    /\ UNCHANGED <<vars, nextInvitationId, issued, mailed, inviteRequests,
                   accepted, auditBacklog, invitationAudit>>

-----------------------------------------------------------------------------
(***************************************************************************)
(* POST /invitations/:token/accept                                         *)
(***************************************************************************)
\* findInvitationByTokenHash; no row is found for an unknown token.
FoundByToken(t, o, e) == HasInvitation(o, e) /\ invitations[o][e].token = t

\* Plausible slip: only the token is compared, not the address it was sent to.
ResolvedUser_AnyBearer(u, e, registering) ==
    IF registering <=> u \in users THEN "email-already-exists" ELSE "resolved"

\* resolveAuthenticatedAcceptanceUser and resolveRegisteredAcceptanceUser for
\* an invitation to address e; the person u owns the address u.
ResolvedUser(u, e, registering) ==
    IF ~registering /\ u \notin users THEN "unauthenticated-user"
    ELSE IF u # e THEN "email-mismatch"
    ELSE IF registering /\ u \in users THEN "email-already-exists"
    ELSE "resolved"

AcceptOutcome(t, o, e, u, registering) ==
    IF invitations[o][e].expired THEN "expired-token"
    ELSE IF ResolvedUser(u, e, registering) # "resolved"
         THEN ResolvedUser(u, e, registering)
    ELSE IF IsMember(o, u) THEN "already-member"
    ELSE "accepted"

\* Plausible slip: the accepted invitation is left to expire.
DeleteInvitation_Kept(o, e) == invitations' = invitations

DeleteInvitation(o, e) ==
    invitations' = [invitations EXCEPT ![o][e] = NoInvitation]

\* Every outcome but "accepted" leaves the database as it is.
acceptOrganizationInvitation(t, u, registering) ==
    \E o \in Org, e \in User :
        /\ FoundByToken(t, o, e)
        /\ AcceptOutcome(t, o, e, u, registering) = "accepted"
        /\ users' = users \cup {u}
        /\ AddMember(o, u, invitations[o][e].role)
        /\ DeleteInvitation(o, e)
        /\ accepted' = Append(accepted, [token |-> t, org |-> o, user |-> u])
        /\ auditBacklog' = auditBacklog
              \cup {InvitationAudit(invitations[o][e].id, "accept", u)}
        /\ UNCHANGED <<orgs, requests, memberAudit, nextInvitationId,
                       issued, mailed, inviteRequests, invitationAudit>>

\* The acceptance is audited without waiting; a failure is only logged.
saveAcceptanceAudit(entry) ==
    /\ auditBacklog' = auditBacklog \ {entry}
    /\ invitationAudit' \in {invitationAudit, invitationAudit \cup {entry}}
    /\ UNCHANGED <<vars, invitations, nextInvitationId, issued, mailed,
                   inviteRequests, accepted>>

-----------------------------------------------------------------------------
\* A crash loses the requests in flight, on their way to an answer, and the
\* entries not yet written.
LoseInvites ==
    /\ inviteRequests' = [r \in InviteRequest |->
          IF inviteRequests[r].stage \in {"scoped", "committed", "mailed"}
          THEN Answered("lost") ELSE inviteRequests[r]]
    /\ auditBacklog' = {}

CrashAll ==
    /\ LoseRequests
    /\ LoseInvites
    /\ UNCHANGED <<db, invitations, nextInvitationId, issued, mailed, accepted,
                   invitationAudit>>

InvitationInit ==
    /\ Init
    /\ invitations = [o \in Org |-> [e \in User |-> NoInvitation]]
    /\ nextInvitationId = 1
    /\ issued = <<>>
    /\ mailed = {}
    /\ inviteRequests = [r \in InviteRequest |-> Idle]
    /\ accepted = <<>>
    /\ auditBacklog = {}
    /\ invitationAudit = {}

\* The steps of Membership that do not involve an invitation.
MembershipStep ==
    /\ \/ \E u \in User : RegisterUser(u)
       \/ \E u \in User, o \in Org : CreateOrganization(u, o)
       \/ \E r \in Request : EnterOrganizationScope(r)
       \/ \E r \in Request : updateOrganizationMemberRole(r)
       \/ \E r \in Request : deleteOrganizationMember(r)
       \/ \E r \in Request : TransactionFails(r)
    /\ UNCHANGED inviteVars

InvitationNext ==
    \/ MembershipStep
    \/ \E r \in InviteRequest : EnterInvitationScope(r)
    \/ \E r \in InviteRequest : createOrganizationInvitation(r)
    \/ \E r \in InviteRequest : enqueueInvitationEmail(r)
    \/ \E r \in InviteRequest : saveCreationAudit(r)
    \/ \E r \in InviteRequest : InvitationTransactionFails(r)
    \/ \E o \in Org, e \in User : ExpireInvitation(o, e)
    \/ \E t \in mailed, u \in User, registering \in BOOLEAN :
          acceptOrganizationInvitation(t, u, registering)
    \/ \E entry \in auditBacklog : saveAcceptanceAudit(entry)
    \/ CrashAll

InvitationSpec == InvitationInit /\ [][InvitationNext]_allVars

-----------------------------------------------------------------------------
(***************************************************************************)
(* Properties.                                                             *)
(***************************************************************************)
InvitationRow ==
    {NoInvitation} \cup [id : Nat \ {0}, role : InvitableRole,
                        token : Nat \ {0}, expired : BOOLEAN]

Grant == [org : Org, email : User, role : InvitableRole,
          invitation : Nat \ {0}, grantor : User]

InvitationAuditRow ==
    [entity : Nat \ {0}, action : {"create", "accept"}, actor : User]

InviteState ==
    {Idle}
      \cup {ScopedInvite(o, a, ar, e, role) :
               o \in Org, a \in User, ar \in Role, e \in User, role \in InvitableRole}
      \cup {Answered(x) : x \in InviteOutcome}
      \cup [stage : {"committed", "mailed"}, token : Nat \ {0}]

\* The tables of invitations hold rows of their schema: in particular no
\* invitation offers the role of an owner.
InvitationTypeOK ==
    /\ invitations \in [Org -> [User -> InvitationRow]]
    /\ nextInvitationId \in Nat \ {0}
    /\ issued \in Seq(Grant)
    /\ mailed \in SUBSET Tokens
    /\ inviteRequests \in [InviteRequest -> InviteState]
    /\ accepted \in Seq([token : Nat \ {0}, org : Org, user : User])
    /\ auditBacklog \in SUBSET InvitationAuditRow
    /\ invitationAudit \in SUBSET InvitationAuditRow

\* Nobody is at the same time a member of an organization and invited to it,
\* however creations, acceptances, removals and new accounts interleave
\* (organization-invitations-service.ts:123 and :376).  So the reply
\* "already-member" to an acceptance never happens.
NoInvitationForMember ==
    \A o \in Org, e \in User : ~(IsMember(o, e) /\ HasInvitation(o, e))

\* A token lets somebody in at most once, also after the member it let in has
\* been removed again and after the invitation has been renewed.
TokenAcceptedOnce ==
    \A i, j \in DOMAIN accepted : accepted[i].token = accepted[j].token => i = j

\* Whoever joins uses the newest token sent to the address of their account,
\* and gets the role of that very grant.
NewestGrant(o, e) ==
    {t \in Tokens : /\ issued[t].org = o /\ issued[t].email = e
                    /\ \A s \in Tokens : issued[s].org = o /\ issued[s].email = e => s <= t}

JoinsByNewestGrant ==
    [][accepted' # accepted =>
          LET a == accepted'[Len(accepted')] IN
          /\ a.token \in NewestGrant(a.org, a.user)
          /\ members'[a.org][a.user].role = issued[a.token].role]_allVars

\* An audit entry, however late it is written, names the parties of its
\* invitation: a creation its grantor, an acceptance the addressee of every
\* grant the row has carried.  So no invitation is accepted by two people.
AuditNamesTheParties ==
    \A entry \in invitationAudit :
        LET grants == {t \in Tokens : issued[t].invitation = entry.entity} IN
        /\ entry.action = "create" => \E t \in grants : issued[t].grantor = entry.actor
        /\ entry.action = "accept" =>
              /\ grants # {}
              /\ \A t \in grants : issued[t].email = entry.actor

\* The invitation flow is a refinement of Membership: an acceptance is one
\* JoinOrganization and everything else leaves its tables alone.
ImplementsMembership == Spec

=============================================================================
