---------------------------- MODULE MCAuthClient ---------------------------
(***************************************************************************)
(* Instance of AuthClient for TLC: one user, two calls that can share or   *)
(* race for a refresh, one refresh more than there are calls, and two      *)
(* tokens: a login and a refresh, or two logins.  There is no symmetry     *)
(* set, since the run checks liveness.                                     *)
(***************************************************************************)
EXTENDS AuthClient

=============================================================================
