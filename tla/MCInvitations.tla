---------------------------- MODULE MCInvitations ----------------------------
(***************************************************************************)
(* Instance of Invitations for TLC: the owner of one organization and two  *)
(* further people, invitations created, renewed and accepted while one     *)
(* removal or role change is under way.                                    *)
(***************************************************************************)
EXTENDS Invitations, TLC

Symmetry ==
    Permutations(User) \cup Permutations(Request) \cup Permutations(InviteRequest)

=============================================================================
