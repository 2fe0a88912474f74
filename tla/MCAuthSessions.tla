--------------------------- MODULE MCAuthSessions --------------------------
(***************************************************************************)
(* Instance of AuthSessions for TLC: four tokens, that is two sessions of  *)
(* which one is refreshed twice, and three refreshes that race.            *)
(***************************************************************************)
EXTENDS AuthSessions, TLC

Symmetry == Permutations(User) \cup Permutations(Token) \cup Permutations(Request)

=============================================================================
