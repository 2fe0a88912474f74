------------------------------- MODULE Roles -------------------------------
(***************************************************************************)
(* The role hierarchy of an organization (domain/organization-member.ts)   *)
(* and the two decisions taken on it by the services: who may remove whom  *)
(* and who may invite whom.  Everything here is pure.                      *)
(***************************************************************************)
EXTENDS Naturals

Role == {"viewer", "member", "admin", "owner"}

InvitableRole == {"viewer", "member", "admin"}

\* The index of the role in roleHierarchy.
getRoleLevel ==
    [role \in Role |-> CASE role = "viewer" -> 0
                         [] role = "member" -> 1
                         [] role = "admin"  -> 2
                         [] role = "owner"  -> 3]

\* The decision of createRequireRoleMiddleware on the role the scope
\* middleware stored in the request context.
HasRole(current, required) == getRoleLevel[current] >= getRoleLevel[required]

canDeleteMember(actorRole, targetRole) ==
    \/ actorRole = "owner"
    \/ /\ actorRole = "admin"
       /\ getRoleLevel[targetRole] < getRoleLevel["admin"]

canInviteRole(inviterRole, targetRole) ==
    targetRole = "admin" => inviterRole = "owner"

=============================================================================
