-------------------------- MODULE OrganizationRoles -------------------------
(***************************************************************************)
(* What tickets and comments see of the memberships of one organization:   *)
(* the role of each person, which somebody may join, change or lose at any *)
(* time.  Membership and Invitations say when that really happens; each of *)
(* their steps changes one role of an organization or none.                *)
(***************************************************************************)
EXTENDS Roles

CONSTANTS
    User,        \* people
    MemberRole   \* the roles members take in the instance

VARIABLE
    roles        \* role of each person in the organization, or "none"

RolesInit == roles = [u \in User |-> "none"]

\* Somebody joins, changes role or is removed.
ChangeRole(u, role) ==
    /\ roles[u] # role
    /\ roles' = [roles EXCEPT ![u] = role]

RolesNext == \E u \in User, role \in MemberRole \cup {"none"} : ChangeRole(u, role)

RolesSpec == RolesInit /\ [][RolesNext]_roles

=============================================================================
