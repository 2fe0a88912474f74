------------------------------ MODULE Sessions -----------------------------
(***************************************************************************)
(* What the refresh tokens of the API server promise, seen from outside: a *)
(* session is opened once, by a registration or a login, lives on through  *)
(* any number of refreshes, and once it has ended it never lives again.    *)
(***************************************************************************)
CONSTANT Session

VARIABLE phase  \* phase of every session

SessionsInit == phase = [s \in Session |-> "unopened"]

Open(s) ==
    /\ phase[s] = "unopened"
    /\ phase' = [phase EXCEPT ![s] = "live"]

End(s) ==
    /\ phase[s] = "live"
    /\ phase' = [phase EXCEPT ![s] = "ended"]

SessionsNext == \E s \in Session : Open(s) \/ End(s)

SessionsSpec == SessionsInit /\ [][SessionsNext]_phase

=============================================================================
