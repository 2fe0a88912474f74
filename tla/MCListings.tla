----------------------------- MODULE MCListings -----------------------------
(***************************************************************************)
(* Instance of PagedReads for TLC: five rows that are alike.               *)
(***************************************************************************)
EXTENDS PagedReads, TLC

CONSTANTS r1, r2, r3, r4, r5

MCRow == {r1, r2, r3, r4, r5}

Symmetry == Permutations(MCRow)

=============================================================================
