----------------------------- MODULE MCTickets -----------------------------
(***************************************************************************)
(* Instance of Tickets for TLC: one ticket, since no step touches two; one *)
(* request to create it and two that race with each other, or three that   *)
(* race after it was created by one of them.                               *)
(***************************************************************************)
EXTENDS Tickets, TLC

Symmetry == Permutations(User) \cup Permutations(Request) \cup Permutations(Text)
              \cup Permutations(Priority)

=============================================================================
