---------------------------- MODULE MCMembership ----------------------------
(***************************************************************************)
(* Instance of Membership for TLC: one organization is enough for every    *)
(* property, since no step touches two of them; three people give an actor,*)
(* a target and a bystander; the requests race with each other.            *)
(***************************************************************************)
EXTENDS Membership, TLC

Symmetry == Permutations(User) \cup Permutations(Request) \cup Permutations(Org)

=============================================================================
