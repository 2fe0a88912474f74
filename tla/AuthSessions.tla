---------------------------- MODULE AuthSessions ---------------------------
(***************************************************************************)
(* Accounts and refresh tokens on the API server (services/auth-service.ts *)
(* and the table refresh_tokens).                                          *)
(*                                                                         *)
(* A refresh verifies the token and looks it up first, and only then, in a *)
(* transaction of its own, swaps it for a new one.  Between the two steps  *)
(* other refreshes and logouts of the same token commit.  Rows are removed *)
(* by a logout or a refresh only; an expired token keeps its row.          *)
(***************************************************************************)
EXTENDS Naturals

CONSTANTS
    User,     \* people, one e-mail address each
    Token,    \* refresh tokens that can ever be generated, all distinct
    Request   \* requests to refresh a token

VARIABLES
    accounts,   \* the users that are registered
    stored,     \* tokens whose hash has a row in refresh_tokens
    expired,    \* tokens past their expiry
    issued,     \* history: for every token generated, its user, the first
                \* token of its session and the token it replaced
    refreshes   \* progress of every refresh request

serverVars == <<accounts, stored, expired, issued, refreshes>>

-----------------------------------------------------------------------------
Unissued == [known |-> FALSE]

\* A session is named after its first token, which replaces itself.
FirstToken(u, t) == [known |-> TRUE, user |-> u, session |-> t, replaces |-> t]

Replacement(old, t) ==
    [known |-> TRUE, user |-> issued[old].user, session |-> issued[old].session,
     replaces |-> old]

IsNew(t) == ~issued[t].known

Unsent == [stage |-> "unsent"]

Refused(t) == [stage |-> "refused", token |-> t]

Granted(t, new) == [stage |-> "granted", token |-> t, new |-> new]

\* verifyRefreshToken checks signature and expiry only.
IsVerified(t) == ~IsNew(t) /\ t \notin expired

-----------------------------------------------------------------------------
(***************************************************************************)
(* registerUser, loginUser, logoutUser                                     *)
(***************************************************************************)
OpenSession(u, t) ==
    /\ IsNew(t)
    /\ issued' = [issued EXCEPT ![t] = FirstToken(u, t)]
    /\ stored' = stored \cup {t}

\* Plausible slip: the user is not looked up.
IsRegistered_Assumed(u) == TRUE

IsRegistered(u) == u \in accounts

\* A taken address changes nothing.
registerUser(u, t) ==
    /\ ~IsRegistered(u)
    /\ accounts' = accounts \cup {u}
    /\ OpenSession(u, t)
    /\ UNCHANGED <<expired, refreshes>>

\* An unknown address or a wrong password changes nothing.
loginUser(u, t) ==
    /\ IsRegistered(u)
    /\ OpenSession(u, t)
    /\ UNCHANGED <<accounts, expired, refreshes>>

\* A token that has no row any more is a success, too.
logoutUser(t) ==
    /\ IsVerified(t)
    /\ stored' = stored \ {t}
    /\ UNCHANGED <<accounts, expired, issued, refreshes>>

-----------------------------------------------------------------------------
(***************************************************************************)
(* refreshAccessToken                                                      *)
(***************************************************************************)
\* A request that carries t reaches the server.
PresentToken(r, t) ==
    /\ refreshes[r] = Unsent
    /\ ~IsNew(t)
    /\ refreshes' = [refreshes EXCEPT ![r] = [stage |-> "presented", token |-> t]]
    /\ UNCHANGED <<accounts, stored, expired, issued>>

IsKnown(t) == IsVerified(t) /\ t \in stored

\* Verification and look-up, outside of the transaction.
findRefreshToken(r) ==
    LET t == refreshes[r].token IN
    /\ refreshes[r].stage = "presented"
    /\ refreshes' = [refreshes EXCEPT ![r] =
          IF IsKnown(t) THEN [stage |-> "found", token |-> t] ELSE Refused(t)]
    /\ UNCHANGED <<accounts, stored, expired, issued>>

\* Plausible slip: deleteMany, which does not mind that the row is gone.
CanRotate_DeleteMany(t) == TRUE

\* The DELETE of the row fails (P2025) if it is gone.
CanRotate(t) == t \in stored

\* Plausible slip: the old row stays.
Swapped_KeepsOld(old, new) == stored \cup {new}

Swapped(old, new) == (stored \ {old}) \cup {new}

\* The transaction; its refusal rolls back nothing.
rotateRefreshToken(r) ==
    LET old == refreshes[r].token IN
    /\ refreshes[r].stage = "found"
    /\ \/ /\ CanRotate(old)
          /\ \E new \in Token :
                /\ IsNew(new)
                /\ stored' = Swapped(old, new)
                /\ issued' = [issued EXCEPT ![new] = Replacement(old, new)]
                /\ refreshes' = [refreshes EXCEPT ![r] = Granted(old, new)]
       \/ /\ ~CanRotate(old)
          /\ refreshes' = [refreshes EXCEPT ![r] = Refused(old)]
          /\ UNCHANGED <<stored, issued>>
    /\ UNCHANGED <<accounts, expired>>

\* The database is busy or the process dies: the request is answered with an
\* error or not at all, and nothing has changed.
RefreshFails(r) ==
    /\ refreshes[r].stage \in {"presented", "found"}
    /\ refreshes' = [refreshes EXCEPT ![r] = Refused(refreshes[r].token)]
    /\ UNCHANGED <<accounts, stored, expired, issued>>

Expire(t) ==
    /\ ~IsNew(t)
    /\ t \notin expired
    /\ expired' = expired \cup {t}
    /\ UNCHANGED <<accounts, stored, issued, refreshes>>

-----------------------------------------------------------------------------
ServerInit ==
    /\ accounts = {}
    /\ stored = {}
    /\ expired = {}
    /\ issued = [t \in Token |-> Unissued]
    /\ refreshes = [r \in Request |-> Unsent]

ServerNext ==
    \/ \E u \in User, t \in Token : registerUser(u, t)
    \/ \E u \in User, t \in Token : loginUser(u, t)
    \/ \E t \in Token : logoutUser(t)
    \/ \E r \in Request, t \in Token : PresentToken(r, t)
    \/ \E r \in Request : findRefreshToken(r)
    \/ \E r \in Request : rotateRefreshToken(r)
    \/ \E r \in Request : RefreshFails(r)
    \/ \E t \in Token : Expire(t)

ServerSpec == ServerInit /\ [][ServerNext]_serverVars

-----------------------------------------------------------------------------
(***************************************************************************)
(* Properties.                                                             *)
(***************************************************************************)
TokenRecord == [known : {TRUE}, user : User, session : Token, replaces : Token]

RefreshState ==
    {Unsent} \cup [stage : {"presented", "found", "refused"}, token : Token]
      \cup [stage : {"granted"}, token : Token, new : Token]

\* Types; and only generated tokens of registered users have rows, expire or
\* are presented.
ServerTypeOK ==
    /\ accounts \subseteq User
    /\ stored \subseteq {t \in Token : ~IsNew(t)}
    /\ expired \subseteq {t \in Token : ~IsNew(t)}
    /\ issued \in [Token -> {Unissued} \cup TokenRecord]
    /\ \A t \in Token : ~IsNew(t) => issued[t].user \in accounts
    /\ refreshes \in [Request -> RefreshState]

\* However many refreshes and logouts of a session race, it has at most one
\* token that still works.
OneTokenPerSession ==
    \A t1, t2 \in stored : issued[t1].session = issued[t2].session => t1 = t2

\* Of all the refreshes that present the same token one at most is granted.
RotatedOnce ==
    \A r1, r2 \in Request :
        /\ refreshes[r1].stage = "granted"
        /\ refreshes[r2].stage = "granted"
        /\ refreshes[r1].token = refreshes[r2].token
        => r1 = r2

\* A session that has ended, by a logout with its current token, is not brought
\* back by a refresh that looked the token up before.
PhaseOf(s) ==
    IF IsNew(s) \/ issued[s].session # s THEN "unopened"
    ELSE IF \E t \in stored : issued[t].session = s THEN "live"
    ELSE "ended"

S == INSTANCE Sessions WITH Session <- Token, phase <- [s \in Token |-> PhaseOf(s)]

ImplementsSessions == S!SessionsSpec

=============================================================================
