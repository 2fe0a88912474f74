----------------------------- MODULE MCComments ----------------------------
(***************************************************************************)
(* Instance of Comments for TLC: one comment, since no step touches two;   *)
(* two tickets, so that a request can name the wrong one; three requests,  *)
(* one that creates the comment and two that race to change it.            *)
(***************************************************************************)
EXTENDS Comments, TLC

Symmetry == Permutations(User) \cup Permutations(Request) \cup Permutations(Content)
              \cup Permutations(Ticket)

=============================================================================
