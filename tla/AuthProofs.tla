----------------------------- MODULE AuthProofs -----------------------------
(***************************************************************************)
(* Proofs about sessions: AuthSessions first, for any sets of users,       *)
(* tokens and requests, then AuthClient, for any finite sets of calls and  *)
(* refreshes.  The client only takes steps the server of AuthSessions      *)
(* knows, so what is proved about that server holds with it.               *)
(***************************************************************************)
EXTENDS AuthClient, FiniteSetTheorems, TLAPS

-----------------------------------------------------------------------------
(***************************************************************************)
(* PART 1: the server, AuthSessions.                                       *)
(***************************************************************************)

-----------------------------------------------------------------------------
(***************************************************************************)
(* The inductive invariant.                                                *)
(***************************************************************************)
\* Only generated tokens are presented.
RefreshTracked(q) ==
    /\ q.stage \in {"presented", "found", "refused", "granted"} => ~IsNew(q.token)
    /\ q.stage = "granted" => q.token \notin stored

RefreshesTracked == \A r \in Request : RefreshTracked(refreshes[r])

\* Every token belongs to a session that was opened.
SessionsRooted ==
    \A t \in Token : ~IsNew(t) =>
        ~IsNew(issued[t].session) /\ issued[issued[t].session].session = issued[t].session

ServerInv ==
    /\ ServerTypeOK
    /\ RefreshesTracked
    /\ SessionsRooted
    /\ OneTokenPerSession
    /\ RotatedOnce

-----------------------------------------------------------------------------
(***************************************************************************)
(* Facts about the forms of tokens and requests.                           *)
(***************************************************************************)
LEMMA RefreshForm ==
    ASSUME ServerTypeOK, NEW r \in Request
    PROVE  /\ refreshes[r].stage \in {"unsent", "presented", "found", "refused", "granted"}
           /\ refreshes[r].stage # "unsent" => refreshes[r].token \in Token
BY DEF ServerTypeOK, RefreshState, Unsent

LEMMA TokenForm ==
    ASSUME ServerTypeOK, NEW t \in Token, ~IsNew(t)
    PROVE  /\ issued[t] \in TokenRecord
           /\ issued[t].user \in accounts /\ issued[t].user \in User
           /\ issued[t].session \in Token
<1>1. issued[t] \in {Unissued} \cup TokenRecord
  BY DEF ServerTypeOK
<1>2. issued[t] # Unissued
  BY DEF IsNew, Unissued
<1> QED
  BY <1>1, <1>2 DEF ServerTypeOK, TokenRecord

LEMMA StoredTokens ==
    ASSUME ServerTypeOK, NEW t \in stored
    PROVE  t \in Token /\ ~IsNew(t)
BY DEF ServerTypeOK

-----------------------------------------------------------------------------
(***************************************************************************)
(* A step that generates no token and moves one request at most.           *)
(***************************************************************************)
LEMMA RequestMoves ==
    ASSUME ServerInv, NEW r \in Request, NEW q \in RefreshState,
           refreshes' = [refreshes EXCEPT ![r] = q],
           q.stage # "granted", RefreshTracked(q),
           UNCHANGED <<accounts, stored, expired, issued>>
    PROVE  ServerInv'
<1>1. ServerTypeOK'
  BY DEF ServerInv, ServerTypeOK, IsNew
<1>2. \A p \in Request : refreshes'[p] = IF p = r THEN q ELSE refreshes[p]
  BY DEF ServerInv, ServerTypeOK
<1>3. RefreshesTracked'
  BY <1>2 DEF ServerInv, RefreshesTracked, RefreshTracked, IsNew
<1>4. SessionsRooted' /\ OneTokenPerSession'
  BY DEF ServerInv, SessionsRooted, OneTokenPerSession, IsNew
<1>5. RotatedOnce'
  BY <1>2 DEF ServerInv, RotatedOnce
<1> QED
  BY <1>1, <1>3, <1>4, <1>5 DEF ServerInv

LEMMA PresentInv ==
    ASSUME ServerInv, NEW r \in Request, NEW t \in Token, PresentToken(r, t)
    PROVE  ServerInv'
<1> DEFINE q == [stage |-> "presented", token |-> t]
<1>1. q \in RefreshState /\ q.stage # "granted"
  BY DEF RefreshState
<1>2. RefreshTracked(q)
  BY DEF RefreshTracked, PresentToken
<1>3. refreshes' = [refreshes EXCEPT ![r] = q]
  BY DEF PresentToken
<1> HIDE DEF q
<1> QED
  BY <1>1, <1>2, <1>3, RequestMoves DEF PresentToken

\* Both ways a request is answered without a token, and the successful look-up.
LEMMA FindOrFailInv ==
    ASSUME ServerInv, NEW r \in Request, findRefreshToken(r) \/ RefreshFails(r)
    PROVE  ServerInv'
<1>1. refreshes[r].stage \in {"presented", "found"}
  BY DEF findRefreshToken, RefreshFails
<1>2. refreshes[r].token \in Token /\ ~IsNew(refreshes[r].token)
  BY <1>1, RefreshForm DEF ServerInv, RefreshesTracked, RefreshTracked
<1>3. PICK stage \in {"found", "refused"} :
         refreshes' = [refreshes EXCEPT ![r] = [stage |-> stage, token |-> refreshes[r].token]]
  BY DEF findRefreshToken, RefreshFails, Refused
<1> DEFINE q == [stage |-> stage, token |-> refreshes[r].token]
<1>4. q \in RefreshState /\ q.stage # "granted"
  BY <1>2 DEF RefreshState
<1>5. RefreshTracked(q)
  BY <1>2 DEF RefreshTracked
<1>6. refreshes' = [refreshes EXCEPT ![r] = q]
  BY <1>3
<1>7. UNCHANGED <<accounts, stored, expired, issued>>
  BY DEF findRefreshToken, RefreshFails
<1> HIDE DEF q
<1> QED
  BY <1>4, <1>5, <1>6, <1>7, RequestMoves

LEMMA LogoutInv ==
    ASSUME ServerInv, NEW t \in Token, logoutUser(t)
    PROVE  ServerInv'
<1>1. ServerTypeOK'
  BY DEF ServerInv, ServerTypeOK, logoutUser, IsNew
<1> QED
  BY <1>1 DEF ServerInv, logoutUser, RefreshesTracked, RefreshTracked, SessionsRooted,
              OneTokenPerSession, RotatedOnce, IsNew

LEMMA ExpireInv ==
    ASSUME ServerInv, NEW t \in Token, Expire(t)
    PROVE  ServerInv'
<1>1. ServerTypeOK'
  BY DEF ServerInv, ServerTypeOK, Expire, IsNew
<1> QED
  BY <1>1 DEF ServerInv, Expire, RefreshesTracked, RefreshTracked, SessionsRooted,
              OneTokenPerSession, RotatedOnce, IsNew

-----------------------------------------------------------------------------
(***************************************************************************)
(* Registrations and logins.                                               *)
(***************************************************************************)
LEMMA OpenInv ==
    ASSUME ServerInv, NEW u \in User, NEW t \in Token, OpenSession(u, t),
           u \in accounts', accounts \subseteq accounts', accounts' \subseteq User,
           UNCHANGED <<expired, refreshes>>
    PROVE  ServerInv'
<1>1. /\ IsNew(t)
      /\ issued' = [issued EXCEPT ![t] = FirstToken(u, t)]
      /\ stored' = stored \cup {t}
  BY DEF OpenSession
<1>2. \A x \in Token : issued'[x] = IF x = t THEN FirstToken(u, t) ELSE issued[x]
  BY <1>1 DEF ServerInv, ServerTypeOK
<1>3. \A x \in Token : IsNew(x)' <=> IsNew(x) /\ x # t
  BY <1>1, <1>2 DEF IsNew, FirstToken
<1>4. FirstToken(u, t) \in TokenRecord
  BY DEF FirstToken, TokenRecord
<1>5. ServerTypeOK'
  <2>1. issued' \in [Token -> {Unissued} \cup TokenRecord]
    BY <1>1, <1>4 DEF ServerInv, ServerTypeOK
  <2>2. stored' \subseteq {x \in Token : ~IsNew(x)'}
    BY <1>1, <1>3 DEF ServerInv, ServerTypeOK
  <2>3. expired' \subseteq {x \in Token : ~IsNew(x)'}
    BY <1>1, <1>3 DEF ServerInv, ServerTypeOK
  <2>4. \A x \in Token : ~IsNew(x)' => issued'[x].user \in accounts'
    BY <1>2, <1>3 DEF ServerInv, ServerTypeOK, FirstToken
  <2> QED
    BY <2>1, <2>2, <2>3, <2>4 DEF ServerInv, ServerTypeOK
<1>6. RefreshesTracked'
  <2> SUFFICES ASSUME NEW r \in Request
               PROVE  RefreshTracked(refreshes[r])'
    BY DEF RefreshesTracked
  <2>1. RefreshTracked(refreshes[r]) /\ refreshes'[r] = refreshes[r]
    BY DEF ServerInv, RefreshesTracked
  <2>2. refreshes[r].stage # "unsent" => refreshes[r].token \in Token
    BY RefreshForm DEF ServerInv
  <2> QED
    BY <1>1, <1>3, <2>1, <2>2 DEF RefreshTracked
<1>7. SessionsRooted'
  <2> SUFFICES ASSUME NEW x \in Token, ~IsNew(x)'
               PROVE  ~IsNew(issued[x].session)' /\
                      issued'[issued'[x].session].session = issued'[x].session
    BY DEF SessionsRooted
  <2>1. CASE x = t
    BY <1>2, <1>3, <2>1 DEF FirstToken
  <2>2. CASE x # t
    <3>1. issued'[x] = issued[x] /\ ~IsNew(x)
      BY <1>2, <1>3, <2>2
    <3>2. issued[x].session \in Token
      BY <3>1, TokenForm DEF ServerInv
    <3>3. ~IsNew(issued[x].session)
          /\ issued[issued[x].session].session = issued[x].session
      BY <3>1 DEF ServerInv, SessionsRooted
    <3>4. issued[x].session # t
      BY <1>1, <3>3
    <3> QED
      BY <1>2, <1>3, <3>1, <3>2, <3>3, <3>4
  <2> QED
    BY <2>1, <2>2
<1>8. \A x \in stored : issued[x].session # t /\ x # t
  BY <1>1, StoredTokens DEF ServerInv, SessionsRooted
<1>9. OneTokenPerSession'
  BY <1>1, <1>2, <1>8, StoredTokens DEF ServerInv, OneTokenPerSession, FirstToken
<1>10. RotatedOnce'
  BY DEF ServerInv, RotatedOnce
<1> QED
  BY <1>5, <1>6, <1>7, <1>9, <1>10 DEF ServerInv

LEMMA RegisterOrLoginInv ==
    ASSUME ServerInv, NEW u \in User, NEW t \in Token,
           registerUser(u, t) \/ loginUser(u, t)
    PROVE  ServerInv'
<1>1. accounts \subseteq User
  BY DEF ServerInv, ServerTypeOK
<1> QED
  BY <1>1, OpenInv DEF registerUser, loginUser, IsRegistered

-----------------------------------------------------------------------------
(***************************************************************************)
(* The rotation.                                                           *)
(***************************************************************************)
LEMMA RefusedRotationInv ==
    ASSUME ServerInv, NEW r \in Request, rotateRefreshToken(r),
           refreshes' = [refreshes EXCEPT ![r] = Refused(refreshes[r].token)],
           UNCHANGED <<stored, issued>>
    PROVE  ServerInv'
<1> DEFINE q == Refused(refreshes[r].token)
<1>1. refreshes[r].token \in Token /\ ~IsNew(refreshes[r].token)
  BY RefreshForm DEF ServerInv, RefreshesTracked, RefreshTracked, rotateRefreshToken
<1>2. q \in RefreshState /\ q.stage # "granted"
  BY <1>1 DEF RefreshState, Refused
<1>3. RefreshTracked(q)
  BY <1>1 DEF RefreshTracked, Refused
<1>4. UNCHANGED <<accounts, expired>>
  BY DEF rotateRefreshToken
<1> HIDE DEF q
<1>5. refreshes' = [refreshes EXCEPT ![r] = q]
  BY DEF q
<1> QED
  BY <1>2, <1>3, <1>4, <1>5, RequestMoves

LEMMA GrantedRotationInv ==
    ASSUME ServerInv, NEW r \in Request, NEW old \in stored, NEW new \in Token,
           refreshes[r].stage = "found", refreshes[r].token = old, IsNew(new),
           stored' = Swapped(old, new),
           issued' = [issued EXCEPT ![new] = Replacement(old, new)],
           refreshes' = [refreshes EXCEPT ![r] = Granted(old, new)],
           UNCHANGED <<accounts, expired>>
    PROVE  ServerInv'
<1>1. old \in Token /\ ~IsNew(old) /\ old # new
  BY StoredTokens DEF ServerInv
<1>2. issued[old] \in TokenRecord /\ issued[old].user \in accounts
      /\ issued[old].user \in User /\ issued[old].session \in Token
  BY <1>1, TokenForm DEF ServerInv
<1>3. ~IsNew(issued[old].session)
      /\ issued[issued[old].session].session = issued[old].session
  BY <1>1 DEF ServerInv, SessionsRooted
<1>4. \A x \in Token : issued'[x] = IF x = new THEN Replacement(old, new) ELSE issued[x]
  BY DEF ServerInv, ServerTypeOK
<1>5. \A x \in Token : IsNew(x)' <=> IsNew(x) /\ x # new
  BY <1>4 DEF IsNew, Replacement
<1>6. Replacement(old, new) \in TokenRecord
  BY <1>1, <1>2 DEF Replacement, TokenRecord
<1>7. \A p \in Request :
         refreshes'[p] = IF p = r THEN Granted(old, new) ELSE refreshes[p]
  BY DEF ServerInv, ServerTypeOK
<1>8. stored' = (stored \ {old}) \cup {new}
  BY DEF Swapped
<1>9. ServerTypeOK'
  <2>1. issued' \in [Token -> {Unissued} \cup TokenRecord]
    BY <1>6 DEF ServerInv, ServerTypeOK
  <2>2. stored' \subseteq {x \in Token : ~IsNew(x)'}
    BY <1>5, <1>8 DEF ServerInv, ServerTypeOK
  <2>3. expired' \subseteq {x \in Token : ~IsNew(x)'}
    BY <1>5 DEF ServerInv, ServerTypeOK
  <2>4. \A x \in Token : ~IsNew(x)' => issued'[x].user \in accounts'
    BY <1>2, <1>4, <1>5 DEF ServerInv, ServerTypeOK, Replacement
  <2>5. Granted(old, new) \in RefreshState
    BY <1>1 DEF Granted, RefreshState
  <2>6. refreshes' \in [Request -> RefreshState]
    BY <2>5 DEF ServerInv, ServerTypeOK
  <2> QED
    BY <2>1, <2>2, <2>3, <2>4, <2>6 DEF ServerInv, ServerTypeOK
<1>10. RefreshesTracked'
  <2> SUFFICES ASSUME NEW p \in Request
               PROVE  RefreshTracked(refreshes[p])'
    BY DEF RefreshesTracked
  <2>1. CASE p = r
    BY <1>1, <1>5, <1>7, <1>8, <2>1 DEF RefreshTracked, Granted
  <2>2. CASE p # r
    <3>1. refreshes'[p] = refreshes[p] /\ RefreshTracked(refreshes[p])
      BY <1>7, <2>2 DEF ServerInv, RefreshesTracked
    <3>2. refreshes[p].stage # "unsent" => refreshes[p].token \in Token
      BY RefreshForm DEF ServerInv
    <3> QED
      BY <1>5, <1>8, <3>1, <3>2 DEF RefreshTracked
  <2> QED
    BY <2>1, <2>2
<1>11. issued[old].session # new
  BY <1>3
<1>12. SessionsRooted'
  <2> SUFFICES ASSUME NEW x \in Token, ~IsNew(x)'
               PROVE  ~IsNew(issued[x].session)' /\
                      issued'[issued'[x].session].session = issued'[x].session
    BY DEF SessionsRooted
  <2>1. CASE x = new
    <3>1. issued'[x].session = issued[old].session
      BY <1>4, <2>1 DEF Replacement
    <3> QED
      BY <1>2, <1>3, <1>4, <1>5, <1>11, <3>1
  <2>2. CASE x # new
    <3>1. issued'[x] = issued[x] /\ ~IsNew(x)
      BY <1>4, <1>5, <2>2
    <3>2. issued[x].session \in Token
      BY <3>1, TokenForm DEF ServerInv
    <3>3. ~IsNew(issued[x].session)
          /\ issued[issued[x].session].session = issued[x].session
      BY <3>1 DEF ServerInv, SessionsRooted
    <3> QED
      BY <1>4, <1>5, <3>1, <3>2, <3>3
  <2> QED
    BY <2>1, <2>2
<1>13. OneTokenPerSession'
  <2>1. \A x \in stored : x # old => issued[x].session # issued[old].session
    BY DEF ServerInv, OneTokenPerSession
  <2>2. \A x \in stored : x # new /\ x \in Token
    BY StoredTokens DEF ServerInv
  <2>3. issued'[new].session = issued[old].session
    BY <1>4 DEF Replacement
  <2>4. \A x \in stored : issued'[x] = issued[x]
    BY <1>4, <2>2
  <2> QED
    BY <1>8, <2>1, <2>3, <2>4 DEF ServerInv, OneTokenPerSession
<1>14. RotatedOnce'
  <2>1. \A p \in Request : refreshes[p].stage = "granted" => refreshes[p].token # old
    BY DEF ServerInv, RefreshesTracked, RefreshTracked
  <2>2. Granted(old, new).token = old
    BY DEF Granted
  <2> QED
    BY <1>7, <2>1, <2>2 DEF ServerInv, RotatedOnce
<1> QED
  BY <1>9, <1>10, <1>12, <1>13, <1>14 DEF ServerInv

LEMMA RotateInv ==
    ASSUME ServerInv, NEW r \in Request, rotateRefreshToken(r)
    PROVE  ServerInv'
<1>1. CASE CanRotate(refreshes[r].token)
  <2>1. PICK new \in Token :
           /\ IsNew(new)
           /\ stored' = Swapped(refreshes[r].token, new)
           /\ issued' = [issued EXCEPT ![new] = Replacement(refreshes[r].token, new)]
           /\ refreshes' = [refreshes EXCEPT ![r] = Granted(refreshes[r].token, new)]
    BY <1>1 DEF rotateRefreshToken
  <2>2. refreshes[r].token \in stored /\ refreshes[r].stage = "found"
        /\ UNCHANGED <<accounts, expired>>
    BY <1>1 DEF rotateRefreshToken, CanRotate
  <2> QED
    BY <2>1, <2>2, GrantedRotationInv
<1>2. CASE ~CanRotate(refreshes[r].token)
  BY <1>2, RefusedRotationInv DEF rotateRefreshToken
<1> QED
  BY <1>1, <1>2

-----------------------------------------------------------------------------
(***************************************************************************)
(* Init, Next, and the invariant.                                          *)
(***************************************************************************)
LEMMA InitServerInv == ServerInit => ServerInv
BY DEF ServerInit, ServerInv, ServerTypeOK, RefreshesTracked, RefreshTracked, SessionsRooted,
       OneTokenPerSession, RotatedOnce, RefreshState, Unsent, Unissued, IsNew

LEMMA NextServerInv == ServerInv /\ [ServerNext]_serverVars => ServerInv'
<1> SUFFICES ASSUME ServerInv, [ServerNext]_serverVars
             PROVE  ServerInv'
  OBVIOUS
<1>1. CASE UNCHANGED serverVars
  BY <1>1 DEF serverVars, ServerInv, ServerTypeOK, RefreshesTracked, RefreshTracked,
              SessionsRooted, OneTokenPerSession, RotatedOnce, IsNew
<1> QED
  BY <1>1, RegisterOrLoginInv, LogoutInv, PresentInv, FindOrFailInv, RotateInv, ExpireInv
     DEF ServerNext

\* The invariant holds in every reachable state (the lemmas above).
THEOREM ServerInvHolds == ServerSpec => []ServerInv
  BY InitServerInv, NextServerInv, PTL DEF ServerSpec

\* Every reachable state is well typed; a token with a row belongs to a
\* registered user (auth-service.ts:111, :265, :385).
THEOREM ServerTypeCorrect == ServerSpec => []ServerTypeOK
<1>1. ServerInv => ServerTypeOK
  BY DEF ServerInv
<1> QED
  BY <1>1, ServerInvHolds, PTL

\* Concurrent refreshes and logouts never leave two working tokens in a session
\* (the DELETE inside the transaction, auth-service.ts:380).
THEOREM OneTokenEach == ServerSpec => []OneTokenPerSession
<1>1. ServerInv => OneTokenPerSession
  BY DEF ServerInv
<1> QED
  BY <1>1, ServerInvHolds, PTL

\* Racing refreshes with the same token: one is granted at most.
THEOREM GrantedOnce == ServerSpec => []RotatedOnce
<1>1. ServerInv => RotatedOnce
  BY DEF ServerInv
<1> QED
  BY <1>1, ServerInvHolds, PTL

-----------------------------------------------------------------------------
(***************************************************************************)
(* Refinement of Sessions: a registration or login opens a session, the    *)
(* logout with its current token ends it, every other step stutters.       *)
(***************************************************************************)
phaseOf == [s \in Token |-> PhaseOf(s)]

LEMMA OpenMaps ==
    ASSUME ServerInv, NEW u \in User, NEW t \in Token, OpenSession(u, t)
    PROVE  S!Open(t)
<1>1. /\ IsNew(t)
      /\ issued' = [issued EXCEPT ![t] = FirstToken(u, t)]
      /\ stored' = stored \cup {t}
  BY DEF OpenSession
<1>2. \A x \in Token : issued'[x] = IF x = t THEN FirstToken(u, t) ELSE issued[x]
  BY <1>1 DEF ServerInv, ServerTypeOK
<1>3. \A x \in stored : x \in Token /\ x # t /\ issued'[x] = issued[x]
  BY <1>1, <1>2, StoredTokens DEF ServerInv
<1>4. PhaseOf(t) = "unopened"
  BY <1>1 DEF PhaseOf
<1>5. PhaseOf(t)' = "live"
  <2>1. ~IsNew(t)' /\ issued'[t].session = t /\ t \in stored'
    BY <1>1, <1>2 DEF IsNew, FirstToken
  <2> QED
    BY <2>1 DEF PhaseOf
<1>6. ASSUME NEW s \in Token, s # t
      PROVE  PhaseOf(s)' = PhaseOf(s)
  <2>1. issued'[s] = issued[s] /\ (IsNew(s)' <=> IsNew(s))
    BY <1>2, <1>6 DEF IsNew
  <2>2. issued'[t].session = t
    BY <1>2 DEF FirstToken
  <2>3. (\E x \in stored' : issued'[x].session = s)
          <=> (\E x \in stored : issued[x].session = s)
    BY <1>1, <1>3, <1>6, <2>2
  <2> QED
    BY <2>1, <2>3 DEF PhaseOf
<1>7. phaseOf' = [phaseOf EXCEPT ![t] = "live"]
  BY <1>5, <1>6 DEF phaseOf
<1> QED
  BY <1>4, <1>7 DEF phaseOf, S!Open

LEMMA LogoutMaps ==
    ASSUME ServerInv, NEW t \in Token, logoutUser(t)
    PROVE  (\E s \in Token : S!End(s)) \/ phaseOf' = phaseOf
<1>1. issued' = issued /\ stored' = stored \ {t}
  BY DEF logoutUser
<1>2. CASE t \notin stored
  <2>1. stored' = stored
    BY <1>1, <1>2
  <2> QED
    BY <1>1, <2>1 DEF phaseOf, PhaseOf, IsNew
<1>3. CASE t \in stored
  <2>1. PICK s \in Token : s = issued[t].session /\ ~IsNew(s) /\ issued[s].session = s
    BY <1>3, StoredTokens, TokenForm DEF ServerInv, SessionsRooted
  <2>2. PhaseOf(s) = "live"
    BY <1>3, <2>1 DEF PhaseOf
  <2>3. \A x \in stored' : issued[x].session # s
    BY <1>1, <1>3, <2>1 DEF ServerInv, OneTokenPerSession
  <2>4. PhaseOf(s)' = "ended"
    BY <1>1, <2>1, <2>3 DEF PhaseOf, IsNew
  <2>5. ASSUME NEW x \in Token, x # s
        PROVE  PhaseOf(x)' = PhaseOf(x)
    <3>1. (\E y \in stored' : issued[y].session = x)
            <=> (\E y \in stored : issued[y].session = x)
      BY <1>1, <2>1, <2>5
    <3> QED
      BY <1>1, <3>1 DEF PhaseOf, IsNew
  <2>6. phaseOf' = [phaseOf EXCEPT ![s] = "ended"]
    BY <2>4, <2>5 DEF phaseOf
  <2> QED
    BY <2>1, <2>2, <2>6 DEF phaseOf, S!End
<1> QED
  BY <1>2, <1>3

LEMMA RotationStutters ==
    ASSUME ServerInv, NEW old \in stored, NEW new \in Token, IsNew(new),
           stored' = Swapped(old, new),
           issued' = [issued EXCEPT ![new] = Replacement(old, new)]
    PROVE  phaseOf' = phaseOf
<1>1. old \in Token /\ ~IsNew(old) /\ old # new
  BY StoredTokens DEF ServerInv
<1>2. issued[old].session # new /\ issued[old].session \in Token
  BY <1>1, TokenForm DEF ServerInv, SessionsRooted
<1>3. \A x \in Token : issued'[x] = IF x = new THEN Replacement(old, new) ELSE issued[x]
  BY DEF ServerInv, ServerTypeOK
<1>4. issued'[new].session = issued[old].session /\ ~IsNew(new)'
  BY <1>3 DEF Replacement, IsNew
<1>5. stored' = (stored \ {old}) \cup {new}
  BY DEF Swapped
<1>6. \A x \in stored : x \in Token /\ x # new /\ issued'[x] = issued[x]
  BY <1>3, StoredTokens DEF ServerInv
<1>7. ASSUME NEW s \in Token
      PROVE  PhaseOf(s)' = PhaseOf(s)
  <2>1. CASE s = new
    BY <1>2, <1>4, <2>1 DEF PhaseOf
  <2>2. CASE s # new
    <3>1. issued'[s] = issued[s] /\ (IsNew(s)' <=> IsNew(s))
      BY <1>3, <2>2 DEF IsNew
    <3>2. (\E x \in stored' : issued'[x].session = s)
            <=> (\E x \in stored : issued[x].session = s)
      BY <1>4, <1>5, <1>6
    <3> QED
      BY <3>1, <3>2 DEF PhaseOf
  <2> QED
    BY <2>1, <2>2
<1> QED
  BY <1>7 DEF phaseOf

LEMMA SameTokensStutter ==
    ASSUME UNCHANGED <<stored, issued>>
    PROVE  phaseOf' = phaseOf
BY DEF phaseOf, PhaseOf, IsNew

LEMMA StepMaps ==
    ASSUME ServerInv, [ServerNext]_serverVars
    PROVE  [S!SessionsNext]_phaseOf
<1>1. CASE UNCHANGED serverVars
  BY <1>1, SameTokensStutter DEF serverVars
<1>2. ASSUME NEW u \in User, NEW t \in Token, registerUser(u, t) \/ loginUser(u, t)
      PROVE  S!SessionsNext
  BY <1>2, OpenMaps DEF registerUser, loginUser, S!SessionsNext
<1>3. ASSUME NEW t \in Token, logoutUser(t)
      PROVE  [S!SessionsNext]_phaseOf
  BY <1>3, LogoutMaps DEF S!SessionsNext
<1>4. ASSUME NEW r \in Request, rotateRefreshToken(r)
      PROVE  phaseOf' = phaseOf
  BY <1>4, RotationStutters, SameTokensStutter DEF rotateRefreshToken, CanRotate
<1>5. ASSUME NEW r \in Request, findRefreshToken(r) \/ RefreshFails(r)
      PROVE  phaseOf' = phaseOf
  BY <1>5, SameTokensStutter DEF findRefreshToken, RefreshFails
<1>6. ASSUME NEW r \in Request, NEW t \in Token, PresentToken(r, t) \/ Expire(t)
      PROVE  phaseOf' = phaseOf
  BY <1>6, SameTokensStutter DEF PresentToken, Expire
<1>7. ASSUME NEW t \in Token, Expire(t)
      PROVE  phaseOf' = phaseOf
  BY <1>7, SameTokensStutter DEF Expire
<1> QED
  BY <1>1, <1>2, <1>3, <1>4, <1>5, <1>6, <1>7 DEF ServerNext

LEMMA InitMaps == ServerInit => S!SessionsInit
BY DEF ServerInit, S!SessionsInit, PhaseOf, IsNew, Unissued

\* The server keeps the promise of Sessions: in particular a session ended by a
\* logout is never revived by a refresh that looked its token up before
\* (auth-service.ts:352 and :380).
THEOREM ServerImplementsSessions == ServerSpec => ImplementsSessions
<1>1. ServerInv /\ [ServerNext]_serverVars => [S!SessionsNext]_phaseOf
  BY StepMaps
<1> QED
  BY <1>1, InitMaps, ServerInvHolds, PTL
     DEF ServerSpec, ImplementsSessions, S!SessionsSpec, phaseOf

-----------------------------------------------------------------------------
(***************************************************************************)
(* PART 2: the server with a client, AuthClient.                           *)
(***************************************************************************)

-----------------------------------------------------------------------------
(***************************************************************************)
(* Every step of the whole is a step of the server or leaves it alone.     *)
(***************************************************************************)
LEMMA StartRefreshPresents ==
    ASSUME ClientTypeOK, NEW c \in Call, StartRefresh(c)
    PROVE  \E r \in Request : PresentToken(r, held.refresh) /\ held.refresh \in Token
                              /\ flight' = r /\ flight = NoRefresh
  BY DEF StartRefresh, CanShare, ClientTypeOK

LEMMA StepsOfTheServer ==
    ASSUME ClientTypeOK, [Next]_vars
    PROVE  [ServerNext]_serverVars
  <1>1. ASSUME NEW c \in Call, CallStep(c)
        PROVE  [ServerNext]_serverVars
    <2>1. CASE StartRefresh(c)
      BY <2>1, StartRefreshPresents DEF ServerNext
    <2>2. CASE ~StartRefresh(c)
      BY <1>1, <2>2 DEF CallStep, StartCall, AnswerCall, DropCall, GiveUp, JoinRefresh
    <2> QED
      BY <2>1, <2>2
  <1>2. ASSUME NEW r \in Request, RefreshSucceeds(r) \/ RefreshFailsHere(r) \/ ServeRefresh(r)
        PROVE  [ServerNext]_serverVars
    BY <1>2 DEF RefreshSucceeds, RefreshFailsHere, ServeRefresh, ServerNext
  <1>3. ASSUME NEW u \in User, NEW t \in Token, ServeLogin(u, t)
        PROVE  [ServerNext]_serverVars
    BY <1>3 DEF ServeLogin, ServerNext
  <1>4. ASSUME NEW t \in Token, AccessExpires(t) \/ RefreshTokenExpires(t)
        PROVE  [ServerNext]_serverVars
    BY <1>4 DEF AccessExpires, RefreshTokenExpires, ServerNext
  <1>5. CASE FormStep
    <2>1. CASE ServeLogout
      <3>1. logoutFlight \in Token /\ logoutUser(logoutFlight)
        BY <2>1 DEF ServeLogout, ClientTypeOK
      <3> QED
        BY <3>1 DEF ServerNext
    <2>2. CASE ~ServeLogout
      BY <1>5, <2>2 DEF FormStep, SubmitLogin, LoginSucceeds, LoginFails, SubmitLogout,
                        LogoutEnds, NoticeCleared
    <2> QED
      BY <2>1, <2>2
  <1>6. CASE UNCHANGED vars
    BY <1>6 DEF vars
  <1> QED
    BY <1>1, <1>2, <1>3, <1>4, <1>5, <1>6 DEF Next

-----------------------------------------------------------------------------
(***************************************************************************)
(* Types of the client.                                                    *)
(***************************************************************************)
LEMMA CallStates ==
    /\ Idle \in CallState /\ Waiting \in CallState /\ Settled \in CallState
    /\ \A access \in Token \cup {NoToken}, attempted \in BOOLEAN :
          Sent(access, attempted) \in CallState /\ Sent(access, attempted) # Waiting
    /\ \A attempted \in BOOLEAN :
          Rejected(attempted) \in CallState /\ Rejected(attempted) # Waiting
    /\ Settled # Waiting /\ Idle # Waiting
  BY DEF CallState, Idle, Waiting, Settled, Sent, Rejected

LEMMA CallForms ==
    ASSUME ClientTypeOK, NEW c \in Call
    PROVE  /\ calls[c].stage = "sent" =>
                 calls[c].access \in Token \cup {NoToken} /\ calls[c].attempted \in BOOLEAN
           /\ calls[c].stage = "rejected" => calls[c].attempted \in BOOLEAN
  BY DEF ClientTypeOK, CallState, Idle, Waiting, Settled

\* A call goes on to a state in which it does not wait, unless a refresh is
\* under way.
LEMMA MovedTypes ==
    ASSUME ClientTypeOK, NEW c \in Call, NEW state \in CallState, Moved(c, state),
           state = Waiting => flight' # NoRefresh,
           flight = flight' \/ flight = NoRefresh
    PROVE  /\ calls' \in [Call -> CallState]
           /\ \A d \in Call : calls'[d] = Waiting => flight' # NoRefresh
  <1>1. calls' = [calls EXCEPT ![c] = state] /\ calls \in [Call -> CallState]
    BY DEF Moved, ClientTypeOK
  <1>2. \A d \in Call : calls[d] = Waiting => flight # NoRefresh
    BY DEF ClientTypeOK
  <1> QED
    BY <1>1, <1>2

LEMMA WaitersTypes ==
    ASSUME ClientTypeOK, NEW state \in CallState, state # Waiting, WaitersBecome(state)
    PROVE  /\ calls' \in [Call -> CallState]
           /\ \A d \in Call : calls'[d] # Waiting
  BY DEF ClientTypeOK, WaitersBecome

LEMMA CallStepTypes ==
    ASSUME ClientTypeOK, NEW c \in Call, CallStep(c)
    PROVE  ClientTypeOK'
  <1>1. CASE StartCall(c)
    <2>1. Sent(held.access, FALSE) \in CallState /\ Sent(held.access, FALSE) # Waiting
      BY CallStates DEF ClientTypeOK
    <2> QED
      BY <1>1, <2>1, MovedTypes DEF StartCall, ClientTypeOK
  <1>2. CASE AnswerCall(c)
    <2> DEFINE state == IF AccessAccepted(calls[c].access) THEN Settled
                        ELSE Rejected(calls[c].attempted)
    <2>1. state \in CallState /\ state # Waiting
      BY <1>2, CallStates, CallForms DEF AnswerCall
    <2> HIDE DEF state
    <2>2. Moved(c, state)
      BY <1>2 DEF AnswerCall, state
    <2> QED
      BY <1>2, <2>1, <2>2, MovedTypes DEF AnswerCall, ClientTypeOK
  <1>3. CASE DropCall(c)
    BY <1>3, CallStates, MovedTypes DEF DropCall, ClientTypeOK
  <1>4. CASE GiveUp(c)
    <2>1. held' \in {held, Cleared} /\ Moved(c, Settled)
            /\ UNCHANGED <<signedIn, staleAccess, flight, loginFlight, logoutFlight, seen>>
      BY <1>4 DEF GiveUp
    <2>2. /\ calls' \in [Call -> CallState]
          /\ \A d \in Call : calls'[d] = Waiting => flight' # NoRefresh
      BY <2>1, CallStates, MovedTypes
    <2> QED
      BY <2>1, <2>2 DEF ClientTypeOK, Cleared, Tokens
  <1>5. CASE JoinRefresh(c)
    BY <1>5, CallStates, MovedTypes DEF JoinRefresh, CanShare, ClientTypeOK
  <1>6. CASE StartRefresh(c)
    <2>1. flight' \in Request /\ flight' # NoRefresh /\ flight = NoRefresh
      BY <1>6, StartRefreshPresents, NullAssumption
    <2>2. /\ calls' \in [Call -> CallState]
          /\ \A d \in Call : calls'[d] = Waiting => flight' # NoRefresh
      BY <1>6, <2>1, CallStates, MovedTypes DEF StartRefresh
    <2> QED
      BY <1>6, <2>1, <2>2 DEF StartRefresh, ClientTypeOK
  <1> QED
    BY <1>1, <1>2, <1>3, <1>4, <1>5, <1>6 DEF CallStep

LEMMA GrantedForm ==
    ASSUME ServerTypeOK, NEW r \in Request, refreshes[r].stage = "granted"
    PROVE  refreshes[r].new \in Token /\ refreshes[r].token \in Token
  BY DEF ServerTypeOK, RefreshState, Unsent

LEMMA RefreshEndTypes ==
    ASSUME ServerTypeOK, ClientTypeOK, NEW r \in Request,
           RefreshSucceeds(r) \/ RefreshFailsHere(r)
    PROVE  ClientTypeOK'
  <1>1. CASE RefreshSucceeds(r)
    <2>1. refreshes[r].new \in Token /\ refreshes[r].new # NoToken
      BY <1>1, GrantedForm, NullAssumption DEF RefreshSucceeds
    <2>2. Sent(Refreshed(r).access, TRUE) \in CallState /\ Sent(Refreshed(r).access, TRUE) # Waiting
      BY <2>1, CallStates DEF Refreshed, Tokens
    <2>3. calls' \in [Call -> CallState] /\ \A d \in Call : calls'[d] # Waiting
      BY <1>1, <2>2, WaitersTypes DEF RefreshSucceeds
    <2>4. /\ held' \in [access : Token \cup {NoToken}, refresh : Token \cup {NoToken}]
          /\ held'.access = NoToken <=> held'.refresh = NoToken
      BY <1>1, <2>1 DEF RefreshSucceeds, Refreshed, Tokens
    <2> QED
      BY <1>1, <2>3, <2>4 DEF RefreshSucceeds, ClientTypeOK
  <1>2. CASE RefreshFailsHere(r)
    <2>1. calls' \in [Call -> CallState] /\ \A d \in Call : calls'[d] # Waiting
      BY <1>2, CallStates, WaitersTypes DEF RefreshFailsHere
    <2>2. held' \in {held, Cleared}
      BY <1>2 DEF RefreshFailsHere
    <2>3. /\ held' \in [access : Token \cup {NoToken}, refresh : Token \cup {NoToken}]
          /\ held'.access = NoToken <=> held'.refresh = NoToken
      BY <2>2 DEF ClientTypeOK, Cleared, Tokens
    <2> QED
      BY <1>2, <2>1, <2>3 DEF RefreshFailsHere, ClientTypeOK
  <1> QED
    BY <1>1, <1>2

LEMMA FormStepTypes ==
    ASSUME ClientTypeOK, FormStep
    PROVE  ClientTypeOK'
  <1>1. CASE LoginSucceeds
    <2>1. loginFlight.token \in Token /\ loginFlight.token # NoToken
      BY <1>1, NullAssumption DEF LoginSucceeds, ClientTypeOK, Unsubmitted
    <2> QED
      BY <1>1, <2>1 DEF LoginSucceeds, ClientTypeOK, Tokens
  <1>2. CASE SubmitLogin \/ LoginFails \/ NoticeCleared \/ ServeLogout
    BY <1>2 DEF SubmitLogin, LoginFails, NoticeCleared, ServeLogout, clientVars, ClientTypeOK
  <1>3. CASE SubmitLogout
    BY <1>3 DEF SubmitLogout, ClientTypeOK
  <1>4. CASE LogoutEnds
    BY <1>4 DEF LogoutEnds, AfterLogout, Cleared, Tokens, ClientTypeOK
  <1> QED
    BY <1>1, <1>2, <1>3, <1>4 DEF FormStep

LEMMA ClientTypesStep ==
    ASSUME ServerTypeOK, ClientTypeOK, [Next]_vars
    PROVE  ClientTypeOK'
  <1>1. ASSUME NEW r \in Request, ServeRefresh(r)
        PROVE  ClientTypeOK'
    BY <1>1 DEF ServeRefresh, clientVars, ClientTypeOK
  <1>2. ASSUME NEW u \in User, NEW t \in Token, ServeLogin(u, t)
        PROVE  ClientTypeOK'
    BY <1>2 DEF ServeLogin, ClientTypeOK
  <1>3. ASSUME NEW t \in Token, AccessExpires(t) \/ RefreshTokenExpires(t)
        PROVE  ClientTypeOK'
    BY <1>3 DEF AccessExpires, RefreshTokenExpires, clientVars, ClientTypeOK
  <1>4. CASE UNCHANGED vars
    BY <1>4 DEF vars, clientVars, ClientTypeOK
  <1> QED
    BY <1>1, <1>2, <1>3, <1>4, CallStepTypes, RefreshEndTypes, FormStepTypes DEF Next

\* What is proved about the server alone, and the types of the client.
SystemInv == ServerInv /\ ClientTypeOK

LEMMA SystemInit == Init => SystemInv
  <1>1. Init => ServerInv
    BY InitServerInv DEF Init
  <1>2. Init => ClientTypeOK
    <2> SUFFICES ASSUME Init PROVE ClientTypeOK
      OBVIOUS
    <2>1. calls \in [Call -> CallState] /\ \A c \in Call : calls[c] # Waiting
      BY CallStates DEF Init
    <2>2. /\ held \in [access : Token \cup {NoToken}, refresh : Token \cup {NoToken}]
          /\ held.access = NoToken /\ held.refresh = NoToken
      BY DEF Init, Cleared, Tokens
    <2> QED
      BY <2>1, <2>2 DEF Init, ClientTypeOK
  <1> QED
    BY <1>1, <1>2 DEF SystemInv

LEMMA SystemStep == SystemInv /\ [Next]_vars => SystemInv'
  BY StepsOfTheServer, NextServerInv, ClientTypesStep DEF SystemInv, ServerInv

\* The client is well typed: its two tokens come and go together, and a call
\* only waits while a refresh is under way.
THEOREM ClientTypesCorrect == Spec => []ClientTypeOK
  BY SystemInit, SystemStep, PTL DEF Spec, SystemInv

\* With its client the server is the server on its own: the client gives it no
\* step it does not take anyway.  So what is proved of the server alone holds of
\* the whole.
THEOREM ClientUsesServer == Spec => ServerSpec
  <1>1. Init => ServerInit
    BY DEF Init
  <1>2. SystemInv /\ [Next]_vars => [ServerNext]_serverVars
    BY StepsOfTheServer DEF SystemInv
  <1> QED
    BY <1>1, <1>2, SystemInit, SystemStep, PTL DEF Spec, ServerSpec

\* The server keeps its promises to this client: a session has one working
\* token at most.
THEOREM OneTokenEachWithClient == Spec => []OneTokenPerSession
  BY ClientUsesServer, OneTokenEach

\* However the calls of a tab share and repeat their refreshes, no token is
\* swapped twice (auth-service.ts:380).
THEOREM GrantedOnceWithClient == Spec => []RotatedOnce
  BY ClientUsesServer, GrantedOnce

\* Neither a refresh that was under way at the logout nor one that is sent later
\* brings a session back on the server.
THEOREM SessionsWithClient == Spec => ImplementsSessions
  BY ClientUsesServer, ServerImplementsSessions

-----------------------------------------------------------------------------
(***************************************************************************)
(* One refresh at a time: the one whose promise the client holds.          *)
(***************************************************************************)
Outstanding(r) == refreshes[r].stage # "unsent" /\ seen[r] = "nothing"

OnlyTheFlight ==
    \A r \in Request : /\ Outstanding(r) <=> flight = r
                       /\ seen[r] # "nothing" => refreshes[r].stage # "unsent"

\* The server moves a request that has been sent, and sends none.
ServerMoves ==
    /\ \A r \in Request : refreshes'[r].stage # "unsent" => refreshes[r].stage # "unsent"
    /\ \A r \in Request : refreshes[r].stage # "unsent" =>
          refreshes'[r].stage # "unsent" /\ refreshes'[r].token = refreshes[r].token

LEMMA ServeRefreshMoves ==
    ASSUME ServerTypeOK, NEW r \in Request, ServeRefresh(r)
    PROVE  ServerMoves
  <1>1. \E q : /\ refreshes' = [refreshes EXCEPT ![r] = q]
               /\ q.stage # "unsent" /\ q.token = refreshes[r].token
    BY DEF ServeRefresh, findRefreshToken, rotateRefreshToken, RefreshFails, Refused, Granted
  <1>2. refreshes[r].stage # "unsent"
    BY DEF ServeRefresh, findRefreshToken, rotateRefreshToken, RefreshFails
  <1> QED
    BY <1>1, <1>2 DEF ServerTypeOK, ServerMoves

\* The steps by what they do to the refreshes of the client.
LEMMA RefreshSteps ==
    ASSUME SystemInv, [Next]_vars
    PROVE  \/ ServerMoves /\ UNCHANGED <<flight, seen>>
           \/ \E c \in Call : StartRefresh(c)
           \/ \E r \in Request : RefreshSucceeds(r) \/ RefreshFailsHere(r)
  <1>1. ServerTypeOK
    BY DEF SystemInv, ServerInv
  <1>2. UNCHANGED refreshes => ServerMoves
    BY DEF ServerMoves
  <1>3. ASSUME NEW c \in Call, CallStep(c), ~StartRefresh(c)
        PROVE  UNCHANGED <<refreshes, flight, seen>>
    BY <1>3 DEF CallStep, StartCall, AnswerCall, DropCall, GiveUp, JoinRefresh, serverVars
  <1>4. ASSUME NEW r \in Request, ServeRefresh(r)
        PROVE  ServerMoves /\ UNCHANGED <<flight, seen>>
    BY <1>1, <1>4, ServeRefreshMoves DEF ServeRefresh, clientVars
  <1>5. ASSUME NEW u \in User, NEW t \in Token, ServeLogin(u, t)
        PROVE  UNCHANGED <<refreshes, flight, seen>>
    BY <1>5 DEF ServeLogin, registerUser, loginUser
  <1>6. ASSUME NEW t \in Token, AccessExpires(t) \/ RefreshTokenExpires(t)
        PROVE  UNCHANGED <<refreshes, flight, seen>>
    BY <1>6 DEF AccessExpires, RefreshTokenExpires, Expire, serverVars, clientVars
  <1>7. ASSUME FormStep
        PROVE  UNCHANGED <<refreshes, flight, seen>>
    BY <1>7 DEF FormStep, SubmitLogin, LoginSucceeds, LoginFails, SubmitLogout, ServeLogout,
                logoutUser, LogoutEnds, NoticeCleared, serverVars, clientVars
  <1>8. CASE UNCHANGED vars
    BY <1>2, <1>8 DEF vars, serverVars, clientVars
  <1> QED
    BY <1>2, <1>3, <1>4, <1>5, <1>6, <1>7, <1>8 DEF Next

LEMMA OnlyTheFlightStep ==
    ASSUME SystemInv, OnlyTheFlight, [Next]_vars
    PROVE  OnlyTheFlight'
  <1>1. CASE ServerMoves /\ UNCHANGED <<flight, seen>>
    BY <1>1 DEF ServerMoves, OnlyTheFlight, Outstanding
  <1>2. ASSUME NEW c \in Call, StartRefresh(c)
        PROVE  OnlyTheFlight'
    <2>1. PICK r \in Request : PresentToken(r, held.refresh) /\ flight' = r /\ flight = NoRefresh
      BY <1>2, StartRefreshPresents DEF SystemInv
    <2>2. /\ \A q \in Request : q # r => refreshes'[q] = refreshes[q]
          /\ refreshes[r].stage = "unsent" /\ refreshes'[r].stage # "unsent"
      BY <2>1 DEF PresentToken, Unsent, SystemInv, ServerInv, ServerTypeOK
    <2>3. seen' = seen
      BY <1>2 DEF StartRefresh
    <2>4. \A q \in Request : ~Outstanding(q)
      BY <2>1, NullAssumption DEF OnlyTheFlight
    <2> QED
      BY <2>1, <2>2, <2>3, <2>4 DEF OnlyTheFlight, Outstanding
  <1>3. ASSUME NEW r \in Request, RefreshSucceeds(r) \/ RefreshFailsHere(r)
        PROVE  OnlyTheFlight'
    <2>1. /\ flight = r /\ flight' = NoRefresh /\ UNCHANGED refreshes
          /\ \E end \in {"taken", "failed"} : seen' = [seen EXCEPT ![r] = end]
      BY <1>3 DEF RefreshSucceeds, RefreshFailsHere, serverVars
    <2>2. seen'[r] # "nothing" /\ \A q \in Request : q # r => seen'[q] = seen[q]
      BY <2>1 DEF SystemInv, ClientTypeOK
    <2> QED
      BY <2>1, <2>2, NullAssumption DEF OnlyTheFlight, Outstanding
  <1> QED
    BY <1>1, <1>2, <1>3, RefreshSteps

\* Calls that are rejected together share one refresh, whatever fails.
THEOREM RefreshesAreShared == Spec => []OneRefreshAtATime
  <1>1. Init => OnlyTheFlight
    BY NullAssumption DEF Init, ServerInit, Unsent, OnlyTheFlight, Outstanding
  <1>2. OnlyTheFlight => OneRefreshAtATime
    <2> SUFFICES ASSUME OnlyTheFlight
                 PROVE  Cardinality({r \in Request : Outstanding(r)}) <= 1
      BY DEF OneRefreshAtATime, Outstanding
    <2> DEFINE out == {r \in Request : Outstanding(r)}
    <2>1. out \in SUBSET {flight}
      BY DEF OnlyTheFlight
    <2> HIDE DEF out
    <2>2. IsFiniteSet({flight}) /\ Cardinality({flight}) = 1
      BY FS_Singleton
    <2>3. IsFiniteSet(out) /\ Cardinality(out) <= Cardinality({flight})
      BY <2>1, <2>2, FS_Subset
    <2> QED
      BY <2>2, <2>3 DEF out
  <1>3. SystemInv /\ OnlyTheFlight /\ [Next]_vars => (SystemInv /\ OnlyTheFlight)'
    BY SystemStep, OnlyTheFlightStep
  <1> QED
    BY <1>1, <1>2, <1>3, SystemInit, PTL DEF Spec

-----------------------------------------------------------------------------
(***************************************************************************)
(* No loop of refreshes: a call that has started one never starts another. *)
(***************************************************************************)
SentRefreshes == {r \in Request : refreshes[r].stage # "unsent"}

StillMayRefresh(call) ==
    call.stage = "idle" \/ (call.stage \in {"sent", "rejected"} /\ ~call.attempted)

Spent == {c \in Call : ~StillMayRefresh(calls[c])}

EachSpentOne == Cardinality(SentRefreshes) <= Cardinality(Spent)

LEMMA Finite ==
    ASSUME NEW R \in SUBSET Request, NEW C \in SUBSET Call
    PROVE  /\ IsFiniteSet(R) /\ Cardinality(R) \in Nat
           /\ IsFiniteSet(C) /\ Cardinality(C) \in Nat
  <1>1. IsFiniteSet(R) /\ IsFiniteSet(C)
    BY FinitenessAssumption, FS_Subset
  <1> QED
    BY <1>1, FS_CardinalityType

\* A call that has spent its refresh does not get another one.
LEMMA SpentCallsMove ==
    ASSUME SystemInv, NEW c \in Call, CallStep(c)
    PROVE  \E state : Moved(c, state) /\ (~StillMayRefresh(calls[c]) => ~StillMayRefresh(state))
  <1>1. CASE StartCall(c)
    <2>1. StillMayRefresh(Idle)
      BY DEF Idle, StillMayRefresh
    <2> QED
      BY <1>1, <2>1 DEF StartCall
  <1>2. CASE AnswerCall(c)
    <2>1. ~StillMayRefresh(Settled)
      BY DEF Settled, StillMayRefresh
    <2>2. ~StillMayRefresh(calls[c]) => ~StillMayRefresh(Rejected(calls[c].attempted))
      BY <1>2 DEF AnswerCall, Rejected, StillMayRefresh
    <2> QED
      BY <1>2, <2>1, <2>2 DEF AnswerCall
  <1>3. CASE DropCall(c) \/ GiveUp(c)
    BY <1>3 DEF DropCall, GiveUp, Settled, StillMayRefresh
  <1>4. CASE JoinRefresh(c) \/ StartRefresh(c)
    BY <1>4 DEF JoinRefresh, StartRefresh, Waiting, StillMayRefresh
  <1> QED
    BY <1>1, <1>2, <1>3, <1>4 DEF CallStep

LEMMA SpentStaysSpent ==
    ASSUME SystemInv, [Next]_vars
    PROVE  Spent \subseteq Spent'
  <1> SUFFICES ASSUME NEW c \in Call, ~StillMayRefresh(calls[c])
               PROVE  ~StillMayRefresh(calls'[c])
    BY DEF Spent
  <1>1. ASSUME NEW d \in Call, CallStep(d)
        PROVE  ~StillMayRefresh(calls'[c])
    BY <1>1, SpentCallsMove DEF Moved, SystemInv, ClientTypeOK
  <1>2. ASSUME NEW r \in Request, RefreshSucceeds(r) \/ RefreshFailsHere(r)
        PROVE  ~StillMayRefresh(calls'[c])
    <2>1. ~StillMayRefresh(Settled) /\ \A access : ~StillMayRefresh(Sent(access, TRUE))
      BY DEF StillMayRefresh, Settled, Sent
    <2> QED
      BY <1>2, <2>1 DEF RefreshSucceeds, RefreshFailsHere, WaitersBecome
  <1>3. \/ UNCHANGED calls
        \/ \E d \in Call : CallStep(d)
        \/ \E r \in Request : RefreshSucceeds(r) \/ RefreshFailsHere(r)
    BY DEF Next, ServeRefresh, ServeLogin, AccessExpires, RefreshTokenExpires, FormStep,
           SubmitLogin, LoginSucceeds, LoginFails, SubmitLogout, ServeLogout, LogoutEnds,
           NoticeCleared, clientVars, vars
  <1> QED
    BY <1>1, <1>2, <1>3

LEMMA EachSpentOneStep ==
    ASSUME SystemInv, EachSpentOne, [Next]_vars
    PROVE  EachSpentOne'
  <1>1. /\ SentRefreshes \in SUBSET Request /\ SentRefreshes' \in SUBSET Request
        /\ Spent \in SUBSET Call /\ Spent' \in SUBSET Call
    BY DEF SentRefreshes, Spent
  <1>2. /\ Cardinality(SentRefreshes) \in Nat /\ IsFiniteSet(SentRefreshes)
        /\ Cardinality(Spent) \in Nat /\ IsFiniteSet(Spent)
        /\ Cardinality(Spent') \in Nat /\ IsFiniteSet(Spent')
    BY <1>1, Finite
  <1>3. CASE SentRefreshes' = SentRefreshes
    <2>1. Cardinality(Spent) <= Cardinality(Spent')
      BY <1>2, SpentStaysSpent, FS_Subset
    <2> QED
      BY <1>2, <1>3, <2>1 DEF EachSpentOne
  <1>4. ASSUME NEW c \in Call, StartRefresh(c)
        PROVE  EachSpentOne'
    <2>1. PICK r \in Request : PresentToken(r, held.refresh)
      BY <1>4, StartRefreshPresents DEF SystemInv
    <2>2. SentRefreshes' = SentRefreshes \cup {r}
      BY <2>1 DEF PresentToken, SentRefreshes, SystemInv, ServerInv, ServerTypeOK
    <2>3. c \notin Spent
      BY <1>4 DEF StartRefresh, MayRefresh, Spent, StillMayRefresh
    <2>4. c \in Spent'
      BY <1>4 DEF StartRefresh, Moved, Waiting, Spent, StillMayRefresh, SystemInv, ClientTypeOK
    <2>5. Spent \cup {c} \in SUBSET Spent'
      BY <2>4, SpentStaysSpent
    <2>6. Cardinality(Spent \cup {c}) = Cardinality(Spent) + 1
      BY <1>2, <2>3, FS_AddElement
    <2>7. Cardinality(Spent \cup {c}) <= Cardinality(Spent')
      BY <1>2, <2>5, FS_Subset
    <2>8. Cardinality(SentRefreshes') <= Cardinality(SentRefreshes) + 1
      <3>1. \/ Cardinality(SentRefreshes \cup {r}) = Cardinality(SentRefreshes)
            \/ Cardinality(SentRefreshes \cup {r}) = Cardinality(SentRefreshes) + 1
        BY <1>2, FS_AddElement
      <3> QED
        BY <1>2, <2>2, <3>1
    <2>9. Cardinality(SentRefreshes') \in Nat
      BY <1>1, Finite
    <2> QED
      BY <1>2, <2>6, <2>7, <2>8, <2>9 DEF EachSpentOne
  <1>5. SentRefreshes' = SentRefreshes \/ \E c \in Call : StartRefresh(c)
    BY RefreshSteps DEF ServerMoves, RefreshSucceeds, RefreshFailsHere, serverVars, SentRefreshes
  <1> QED
    BY <1>3, <1>4, <1>5

LEMMA EachSpentOneHolds == Spec => []EachSpentOne
  <1>1. Init => EachSpentOne
    <2> SUFFICES ASSUME Init PROVE EachSpentOne
      OBVIOUS
    <2>1. SentRefreshes = {}
      BY DEF Init, ServerInit, Unsent, SentRefreshes
    <2>2. Spent = {}
      BY DEF Init, Idle, Spent, StillMayRefresh
    <2> QED
      BY <2>1, <2>2, FS_EmptySet DEF EachSpentOne
  <1>2. SystemInv /\ EachSpentOne /\ [Next]_vars => (SystemInv /\ EachSpentOne)'
    BY SystemStep, EachSpentOneStep
  <1> QED
    BY <1>1, <1>2, SystemInit, PTL DEF Spec

\* There are never more refreshes than calls, however many 401 come.
THEOREM RefreshesDoNotLoop == Spec => []RefreshesBounded
  <1>1. EachSpentOne => RefreshesBounded
    <2> SUFFICES ASSUME EachSpentOne PROVE RefreshesBounded
      OBVIOUS
    <2> DEFINE started == {c \in Call : calls[c] # Idle}
    <2>1. Spent \in SUBSET started /\ started \in SUBSET Call /\ Spent \in SUBSET Call
            /\ SentRefreshes \in SUBSET Request
      BY DEF Spent, StillMayRefresh, Idle, SentRefreshes
    <2> HIDE DEF started
    <2>2. /\ Cardinality(SentRefreshes) \in Nat
          /\ Cardinality(Spent) \in Nat
          /\ Cardinality(started) \in Nat /\ IsFiniteSet(started)
      BY <2>1, Finite
    <2>3. Cardinality(Spent) <= Cardinality(started)
      BY <2>1, <2>2, FS_Subset
    <2>4. Cardinality(SentRefreshes) <= Cardinality(started)
      BY <2>2, <2>3 DEF EachSpentOne
    <2> QED
      BY <2>4 DEF started, SentRefreshes, RefreshesBounded
  <1> QED
    BY <1>1, EachSpentOneHolds, PTL

-----------------------------------------------------------------------------
(***************************************************************************)
(* The token in the storage works.  A new token is a secret between the    *)
(* server and the answer that carries it until the client takes it; up to  *)
(* then no request of the client can name it.                              *)
(***************************************************************************)
Undelivered(r) == refreshes[r].stage = "granted" /\ seen[r] # "taken"

LoginGranted == loginFlight.stage = "granted"

Unheard(t) ==
    /\ t \in stored
    /\ held.refresh # t
    /\ logoutFlight # t
    /\ \A r \in Request : refreshes[r].stage # "unsent" => refreshes[r].token # t

TokensKnown ==
    /\ held.refresh # NoToken => ~IsNew(held.refresh)
    /\ logoutFlight # NoToken => ~IsNew(logoutFlight)

SecretsKept ==
    /\ \A r \in Request : Undelivered(r) => Unheard(refreshes[r].new)
    /\ LoginGranted => Unheard(loginFlight.token)
    /\ \A r, s \in Request :
          Undelivered(r) /\ Undelivered(s) /\ r # s => refreshes[r].new # refreshes[s].new
    /\ \A r \in Request :
          Undelivered(r) /\ LoginGranted => loginFlight.token # refreshes[r].new

TakenWereGranted == \A r \in Request : seen[r] = "taken" => refreshes[r].stage = "granted"

TokenInv == TokensKnown /\ SecretsKept /\ TakenWereGranted /\ HeldTokenWorks

\* A token that is generated now is none of those in use.
LEMMA NewIsUnheard ==
    ASSUME SystemInv, TokenInv, NEW t \in Token, IsNew(t)
    PROVE  /\ held.refresh # t /\ logoutFlight # t /\ t \notin stored
           /\ \A r \in Request : refreshes[r].stage # "unsent" => refreshes[r].token # t
           /\ \A r \in Request : Undelivered(r) => refreshes[r].new # t
           /\ LoginGranted => loginFlight.token # t
  <1>1. held.refresh # t /\ logoutFlight # t
    BY NullAssumption DEF TokenInv, TokensKnown
  <1>2. t \notin stored
    BY DEF SystemInv, ServerInv, ServerTypeOK
  <1>3. \A r \in Request : refreshes[r].stage # "unsent" => refreshes[r].token # t
    BY RefreshForm DEF SystemInv, ServerInv, RefreshesTracked, RefreshTracked
  <1>4. /\ \A r \in Request : Undelivered(r) => refreshes[r].new \in stored
        /\ LoginGranted => loginFlight.token \in stored
    BY DEF TokenInv, SecretsKept, Unheard
  <1> QED
    BY <1>1, <1>2, <1>3, <1>4

\* Tokens may be dropped, answers may be lost.
LEMMA ForgettingKeeps ==
    ASSUME SystemInv, TokenInv, UNCHANGED <<stored, issued, refreshes>>,
           held' \in {held, Cleared},
           logoutFlight' = logoutFlight \/ (logoutFlight' = NoToken /\ held' = Cleared),
           loginFlight' = loginFlight \/ loginFlight'.stage # "granted",
           \A r \in Request : seen'[r] = "taken" <=> seen[r] = "taken"
    PROVE  TokenInv'
  <1>1. Cleared.refresh = NoToken
    BY DEF Cleared, Tokens
  <1>2. \A t \in stored : t # NoToken
    BY StoredTokens, NullAssumption DEF SystemInv, ServerInv
  <1>3. \A t : Unheard(t) => Unheard(t)'
    BY <1>1, <1>2 DEF Unheard
  <1>4. \A r \in Request : Undelivered(r)' <=> Undelivered(r)
    BY DEF Undelivered
  <1>5. LoginGranted' => LoginGranted /\ loginFlight' = loginFlight
    BY DEF LoginGranted
  <1>6. SecretsKept'
    BY <1>3, <1>4, <1>5 DEF TokenInv, SecretsKept
  <1>7. TokensKnown' /\ TakenWereGranted'
    BY <1>1 DEF TokenInv, TokensKnown, TakenWereGranted, IsNew
  <1>8. HeldTokenWorks'
    <2> SUFFICES ASSUME held'.refresh # NoToken
                 PROVE  held.refresh \in stored \/ Surrendered(held.refresh)'
      BY <1>1 DEF HeldTokenWorks
    <2>1. held' = held /\ logoutFlight' = logoutFlight
      BY <1>1
    <2>2. held.refresh \in stored \/ Surrendered(held.refresh)
      BY <2>1 DEF TokenInv, HeldTokenWorks
    <2> QED
      BY <2>1, <2>2 DEF Surrendered
  <1> QED
    BY <1>6, <1>7, <1>8 DEF TokenInv

\* A request moves and nothing is granted.
LEMMA MovingKeeps ==
    ASSUME SystemInv, TokenInv, NEW r \in Request, NEW q,
           refreshes' = [refreshes EXCEPT ![r] = q],
           refreshes[r].stage # "granted", q.stage # "granted",
           q.token = held.refresh \/ (refreshes[r].stage # "unsent" /\ q.token = refreshes[r].token),
           UNCHANGED <<stored, issued, held, logoutFlight, loginFlight, seen>>
    PROVE  TokenInv'
  <1>1. refreshes'[r] = q /\ \A s \in Request : s # r => refreshes'[s] = refreshes[s]
    BY DEF SystemInv, ServerInv, ServerTypeOK
  <1>2. \A t : Unheard(t) => Unheard(t)'
    BY <1>1 DEF Unheard
  <1>3. \A s \in Request :
           (Undelivered(s)' <=> Undelivered(s)) /\ (Undelivered(s) => refreshes'[s] = refreshes[s])
    BY <1>1 DEF Undelivered
  <1>4. SecretsKept'
    BY <1>2, <1>3 DEF TokenInv, SecretsKept, LoginGranted
  <1>5. TokensKnown'
    BY DEF TokenInv, TokensKnown, IsNew
  <1>6. TakenWereGranted'
    BY <1>1 DEF TokenInv, TakenWereGranted
  <1>7. HeldTokenWorks'
    BY <1>1 DEF TokenInv, HeldTokenWorks, Surrendered
  <1> QED
    BY <1>4, <1>5, <1>6, <1>7 DEF TokenInv

LEMMA StartKeeps ==
    ASSUME SystemInv, TokenInv, NEW c \in Call, StartRefresh(c)
    PROVE  TokenInv'
  <1>1. PICK r \in Request : PresentToken(r, held.refresh)
    BY StartRefreshPresents DEF SystemInv
  <1> DEFINE q == [stage |-> "presented", token |-> held.refresh]
  <1>2. /\ refreshes' = [refreshes EXCEPT ![r] = q]
        /\ refreshes[r].stage # "granted"
        /\ UNCHANGED <<stored, issued>>
    BY <1>1 DEF PresentToken, Unsent
  <1>3. q.stage # "granted" /\ q.token = held.refresh
    OBVIOUS
  <1>4. UNCHANGED <<held, logoutFlight, loginFlight, seen>>
    BY DEF StartRefresh
  <1> HIDE DEF q
  <1> QED
    BY <1>2, <1>3, <1>4, MovingKeeps

\* The client takes what the refresh has granted.
LEMMA TakingKeeps ==
    ASSUME SystemInv, TokenInv, OnlyTheFlight, NEW r \in Request, RefreshSucceeds(r)
    PROVE  TokenInv'
  <1>1. /\ refreshes[r].stage = "granted"
        /\ held'.refresh = refreshes[r].new
        /\ UNCHANGED <<stored, issued, refreshes, logoutFlight, loginFlight>>
    BY DEF RefreshSucceeds, Refreshed, Tokens, serverVars
  <1>2. Undelivered(r)
    BY <1>1 DEF RefreshSucceeds, OnlyTheFlight, Outstanding, Undelivered
  <1>3. seen'[r] = "taken" /\ \A s \in Request : s # r => seen'[s] = seen[s]
    BY DEF RefreshSucceeds, SystemInv, ClientTypeOK
  <1>4. \A s \in Request : Undelivered(s)' <=> Undelivered(s) /\ s # r
    BY <1>1, <1>3 DEF Undelivered
  <1>5. \A t : Unheard(t) /\ t # refreshes[r].new => Unheard(t)'
    BY <1>1 DEF Unheard
  <1>6. SecretsKept'
    BY <1>1, <1>2, <1>4, <1>5 DEF TokenInv, SecretsKept, LoginGranted
  <1>7. refreshes[r].new \in stored
    BY <1>2 DEF TokenInv, SecretsKept, Unheard
  <1>8. ~IsNew(refreshes[r].new)
    BY <1>7, StoredTokens DEF SystemInv, ServerInv
  <1>9. TokensKnown'
    BY <1>1, <1>8 DEF TokenInv, TokensKnown, IsNew
  <1>10. TakenWereGranted'
    BY <1>1, <1>3 DEF TokenInv, TakenWereGranted
  <1>11. HeldTokenWorks'
    BY <1>1, <1>7 DEF HeldTokenWorks
  <1> QED
    BY <1>6, <1>9, <1>10, <1>11 DEF TokenInv

LEMMA LoginServedKeeps ==
    ASSUME SystemInv, TokenInv, NEW u \in User, NEW t \in Token, ServeLogin(u, t)
    PROVE  TokenInv'
  <1>1. /\ IsNew(t)
        /\ issued' = [issued EXCEPT ![t] = FirstToken(u, t)]
        /\ stored' = stored \cup {t}
        /\ loginFlight' = [stage |-> "granted", token |-> t]
        /\ UNCHANGED <<refreshes, held, logoutFlight, seen>>
    BY DEF ServeLogin, registerUser, loginUser, OpenSession
  <1>2. \A x \in Token : ~IsNew(x) => ~IsNew(x)'
    BY <1>1 DEF IsNew, FirstToken, SystemInv, ServerInv, ServerTypeOK
  <1>3. \A x : Unheard(x) => Unheard(x)'
    BY <1>1 DEF Unheard
  <1>4. Unheard(t)'
    BY <1>1, NewIsUnheard DEF Unheard
  <1>5. \A r \in Request : Undelivered(r)' <=> Undelivered(r)
    BY <1>1 DEF Undelivered
  <1>6. loginFlight'.token = t
    BY <1>1
  <1>7. SecretsKept'
    BY <1>1, <1>3, <1>4, <1>5, <1>6, NewIsUnheard DEF TokenInv, SecretsKept
  <1>8. TokensKnown'
    BY <1>1, <1>2 DEF TokenInv, TokensKnown, SystemInv, ClientTypeOK
  <1>9. TakenWereGranted' /\ HeldTokenWorks'
    BY <1>1 DEF TokenInv, TakenWereGranted, HeldTokenWorks, Surrendered
  <1> QED
    BY <1>7, <1>8, <1>9 DEF TokenInv

LEMMA LoginTakenKeeps ==
    ASSUME SystemInv, TokenInv, LoginSucceeds
    PROVE  TokenInv'
  <1>1. /\ LoginGranted
        /\ held'.refresh = loginFlight.token
        /\ ~LoginGranted'
        /\ UNCHANGED <<stored, issued, refreshes, logoutFlight, seen>>
    BY DEF LoginSucceeds, LoginGranted, Tokens, Unsubmitted, serverVars
  <1>2. \A r \in Request : Undelivered(r)' <=> Undelivered(r)
    BY <1>1 DEF Undelivered
  <1>3. \A t : Unheard(t) /\ t # loginFlight.token => Unheard(t)'
    BY <1>1 DEF Unheard
  <1>4. SecretsKept'
    BY <1>1, <1>2, <1>3 DEF TokenInv, SecretsKept
  <1>5. loginFlight.token \in stored
    BY <1>1 DEF TokenInv, SecretsKept, Unheard
  <1>6. ~IsNew(loginFlight.token)
    BY <1>5, StoredTokens DEF SystemInv, ServerInv
  <1>7. TokensKnown' /\ TakenWereGranted'
    BY <1>1, <1>6 DEF TokenInv, TokensKnown, TakenWereGranted, IsNew
  <1>8. HeldTokenWorks'
    BY <1>1, <1>5 DEF HeldTokenWorks
  <1> QED
    BY <1>4, <1>7, <1>8 DEF TokenInv

LEMMA LogoutSubmittedKeeps ==
    ASSUME SystemInv, TokenInv, SubmitLogout
    PROVE  TokenInv'
  <1>1. /\ logoutFlight' = held.refresh
        /\ UNCHANGED <<stored, issued, refreshes, held, loginFlight, seen>>
    BY DEF SubmitLogout, serverVars
  <1>2. \A t : Unheard(t) => Unheard(t)'
    BY <1>1 DEF Unheard
  <1>3. \A r \in Request : Undelivered(r)' <=> Undelivered(r)
    BY <1>1 DEF Undelivered
  <1>4. SecretsKept'
    BY <1>1, <1>2, <1>3 DEF TokenInv, SecretsKept, LoginGranted
  <1>5. TokensKnown' /\ TakenWereGranted'
    BY <1>1 DEF TokenInv, TokensKnown, TakenWereGranted, IsNew
  <1>6. HeldTokenWorks'
    BY <1>1 DEF HeldTokenWorks, Surrendered
  <1> QED
    BY <1>4, <1>5, <1>6 DEF TokenInv

LEMMA LogoutServedKeeps ==
    ASSUME SystemInv, TokenInv, ServeLogout
    PROVE  TokenInv'
  <1>1. /\ stored' = stored \ {logoutFlight}
        /\ UNCHANGED <<issued, refreshes, held, logoutFlight, loginFlight, seen>>
    BY DEF ServeLogout, logoutUser, clientVars
  <1>2. \A t : Unheard(t) => Unheard(t)'
    BY <1>1 DEF Unheard
  <1>3. \A r \in Request : Undelivered(r)' <=> Undelivered(r)
    BY <1>1 DEF Undelivered
  <1>4. SecretsKept'
    BY <1>1, <1>2, <1>3 DEF TokenInv, SecretsKept, LoginGranted
  <1>5. TokensKnown' /\ TakenWereGranted'
    BY <1>1 DEF TokenInv, TokensKnown, TakenWereGranted, IsNew
  <1>6. HeldTokenWorks'
    BY <1>1 DEF TokenInv, HeldTokenWorks, Surrendered
  <1> QED
    BY <1>4, <1>5, <1>6 DEF TokenInv

\* The rotation makes a new secret and gives up the token it was asked with.
LEMMA RotationKeeps ==
    ASSUME SystemInv, TokenInv, NEW r \in Request, NEW new \in Token, IsNew(new),
           refreshes[r].stage = "found",
           stored' = Swapped(refreshes[r].token, new),
           issued' = [issued EXCEPT ![new] = Replacement(refreshes[r].token, new)],
           refreshes' = [refreshes EXCEPT ![r] = Granted(refreshes[r].token, new)],
           UNCHANGED clientVars
    PROVE  TokenInv'
  <1> DEFINE old == refreshes[r].token
  <1>1. /\ refreshes'[r] = Granted(old, new)
        /\ \A s \in Request : s # r => refreshes'[s] = refreshes[s]
    BY DEF SystemInv, ServerInv, ServerTypeOK
  <1>2. /\ Granted(old, new).stage = "granted" /\ Granted(old, new).token = old
        /\ Granted(old, new).new = new
    BY DEF Granted
  <1>3. stored' = (stored \ {old}) \cup {new}
    BY DEF Swapped
  <1>4. \A x \in Token : ~IsNew(x) => ~IsNew(x)'
    BY DEF IsNew, SystemInv, ServerInv, ServerTypeOK
  <1>5. UNCHANGED <<held, logoutFlight, loginFlight, seen>>
    BY DEF clientVars
  <1> HIDE DEF old
  <1>6. old = refreshes[r].token
    BY DEF old
  <1>7. \A t : Unheard(t) => Unheard(t)'
    BY <1>1, <1>2, <1>3, <1>5, <1>6 DEF Unheard
  <1>8. old # new
    BY <1>6, NewIsUnheard
  <1>9. Unheard(new)'
    BY <1>1, <1>2, <1>3, <1>5, <1>6, <1>8, NewIsUnheard DEF Unheard
  <1>10. seen[r] # "taken"
    BY DEF TokenInv, TakenWereGranted
  <1>11. \A s \in Request : s # r =>
            (Undelivered(s)' <=> Undelivered(s)) /\ refreshes'[s].new = refreshes[s].new
    BY <1>1, <1>5 DEF Undelivered
  <1>12. refreshes'[r].new = new
    BY <1>1, <1>2
  <1>13. SecretsKept'
    <2>1. \A s \in Request : Undelivered(s)' =>
             \/ s = r /\ refreshes'[s].new = new
             \/ /\ s # r /\ Undelivered(s) /\ refreshes'[s].new = refreshes[s].new
                /\ Unheard(refreshes[s].new) /\ refreshes[s].new # new
      BY <1>11, <1>12, NewIsUnheard DEF TokenInv, SecretsKept
    <2>2. \A s \in Request : Undelivered(s)' => Unheard(refreshes[s].new)'
      BY <1>7, <1>9, <2>1
    <2>3. LoginGranted' => /\ LoginGranted /\ loginFlight' = loginFlight
                           /\ Unheard(loginFlight.token) /\ loginFlight.token # new
      BY <1>5, NewIsUnheard DEF TokenInv, SecretsKept, LoginGranted
    <2>4. LoginGranted' => Unheard(loginFlight.token)'
      BY <1>7, <2>3
    <2>5. \A p, s \in Request :
             Undelivered(p)' /\ Undelivered(s)' /\ p # s => refreshes'[p].new # refreshes'[s].new
      BY <2>1 DEF TokenInv, SecretsKept
    <2>6. \A s \in Request : Undelivered(s)' /\ LoginGranted' => loginFlight'.token # refreshes'[s].new
      BY <2>1, <2>3 DEF TokenInv, SecretsKept
    <2> QED
      BY <2>2, <2>4, <2>5, <2>6 DEF SecretsKept
  <1>14. TokensKnown'
    BY <1>4, <1>5 DEF TokenInv, TokensKnown, SystemInv, ClientTypeOK
  <1>15. TakenWereGranted'
    BY <1>1, <1>2, <1>5 DEF TokenInv, TakenWereGranted
  <1>16. HeldTokenWorks'
    <2> SUFFICES ASSUME held.refresh # NoToken
                 PROVE  held.refresh \in stored' \/ Surrendered(held.refresh)'
      BY <1>5 DEF HeldTokenWorks
    <2>1. CASE held.refresh = old
      BY <1>1, <1>2, <1>5, <1>10, <2>1 DEF Surrendered
    <2>2. CASE held.refresh # old /\ held.refresh \in stored
      BY <1>3, <2>2
    <2>3. CASE Surrendered(held.refresh)
      BY <1>1, <1>5, <2>3 DEF Surrendered
    <2> QED
      BY <2>1, <2>2, <2>3 DEF TokenInv, HeldTokenWorks
  <1> QED
    BY <1>13, <1>14, <1>15, <1>16 DEF TokenInv

LEMMA ServedRefreshKeeps ==
    ASSUME SystemInv, TokenInv, NEW r \in Request, ServeRefresh(r)
    PROVE  TokenInv'
  <1>1. UNCHANGED clientVars /\ UNCHANGED <<held, logoutFlight, loginFlight, seen>>
    BY DEF ServeRefresh, clientVars
  <1>2. CASE \E new \in Token :
                /\ rotateRefreshToken(r)
                /\ IsNew(new)
                /\ stored' = Swapped(refreshes[r].token, new)
                /\ issued' = [issued EXCEPT ![new] = Replacement(refreshes[r].token, new)]
                /\ refreshes' = [refreshes EXCEPT ![r] = Granted(refreshes[r].token, new)]
    BY <1>1, <1>2, RotationKeeps DEF rotateRefreshToken
  <1>3. CASE \E q : /\ refreshes' = [refreshes EXCEPT ![r] = q]
                    /\ q.stage \in {"found", "refused"} /\ q.token = refreshes[r].token
                    /\ refreshes[r].stage \in {"presented", "found"}
                    /\ UNCHANGED <<stored, issued>>
    BY <1>1, <1>3, MovingKeeps
  <1>4. CASE findRefreshToken(r) \/ RefreshFails(r)
    BY <1>3, <1>4 DEF findRefreshToken, RefreshFails, Refused
  <1>5. CASE rotateRefreshToken(r)
    BY <1>2, <1>3, <1>5 DEF rotateRefreshToken, Refused
  <1> QED
    BY <1>4, <1>5 DEF ServeRefresh

LEMMA TokenInvStep ==
    ASSUME SystemInv, OnlyTheFlight, TokenInv, [Next]_vars
    PROVE  TokenInv'
  <1>1. ASSUME NEW c \in Call, CallStep(c)
        PROVE  TokenInv'
    <2>1. CASE StartRefresh(c)
      BY <2>1, StartKeeps
    <2>2. CASE ~StartRefresh(c)
      <3>1. /\ UNCHANGED <<stored, issued, refreshes, logoutFlight, loginFlight, seen>>
            /\ held' \in {held, Cleared}
        BY <1>1, <2>2 DEF CallStep, StartCall, AnswerCall, DropCall, GiveUp, JoinRefresh, serverVars
      <3> QED
        BY <3>1, ForgettingKeeps
    <2> QED
      BY <2>1, <2>2
  <1>2. ASSUME NEW r \in Request, RefreshFailsHere(r)
        PROVE  TokenInv'
    <2>1. /\ UNCHANGED <<stored, issued, refreshes, logoutFlight, loginFlight>>
          /\ held' \in {held, Cleared}
          /\ flight = r /\ seen' = [seen EXCEPT ![r] = "failed"]
      BY <1>2 DEF RefreshFailsHere, serverVars
    <2>2. \A s \in Request : seen'[s] = "taken" <=> seen[s] = "taken"
      BY <2>1 DEF OnlyTheFlight, Outstanding, SystemInv, ClientTypeOK
    <2> QED
      BY <2>1, <2>2, ForgettingKeeps
  <1>3. ASSUME NEW t \in Token, AccessExpires(t) \/ RefreshTokenExpires(t)
        PROVE  TokenInv'
    <2>1. UNCHANGED <<stored, issued, refreshes, held, logoutFlight, loginFlight, seen>>
      BY <1>3 DEF AccessExpires, RefreshTokenExpires, Expire, serverVars, clientVars
    <2> QED
      BY <2>1, ForgettingKeeps
  <1>4. ASSUME FormStep
        PROVE  TokenInv'
    <2>1. CASE SubmitLogin \/ LoginFails \/ NoticeCleared
      <3>1. /\ UNCHANGED <<stored, issued, refreshes, held, logoutFlight, seen>>
            /\ loginFlight' = loginFlight \/ loginFlight'.stage # "granted"
        BY <2>1 DEF SubmitLogin, LoginFails, NoticeCleared, Unsubmitted, serverVars
      <3> QED
        BY <3>1, ForgettingKeeps
    <2>2. CASE LogoutEnds
      <3>1. /\ UNCHANGED <<stored, issued, refreshes, loginFlight, seen>>
            /\ held' = Cleared /\ logoutFlight' = NoToken
        BY <2>2 DEF LogoutEnds, AfterLogout, serverVars
      <3> QED
        BY <3>1, ForgettingKeeps
    <2> QED
      BY <1>4, <2>1, <2>2, LoginTakenKeeps, LogoutSubmittedKeeps, LogoutServedKeeps DEF FormStep
  <1>5. CASE UNCHANGED vars
    <2>1. UNCHANGED <<stored, issued, refreshes, held, logoutFlight, loginFlight, seen>>
      BY <1>5 DEF vars, serverVars, clientVars
    <2> QED
      BY <2>1, ForgettingKeeps
  <1> QED
    BY <1>1, <1>2, <1>3, <1>4, <1>5, TakingKeeps, LoginServedKeeps, ServedRefreshKeeps DEF Next

LEMMA TokenInvHolds == Spec => [](SystemInv /\ OnlyTheFlight /\ TokenInv)
  <1>1. Init => OnlyTheFlight /\ TokenInv
    <2> SUFFICES ASSUME Init PROVE OnlyTheFlight /\ TokenInv
      OBVIOUS
    <2>1. /\ \A r \in Request : refreshes[r].stage = "unsent" /\ seen[r] = "nothing"
          /\ held.refresh = NoToken /\ logoutFlight = NoToken /\ loginFlight.stage = "none"
          /\ flight = NoRefresh
      BY DEF Init, ServerInit, Unsent, Cleared, Tokens, Unsubmitted
    <2>2. OnlyTheFlight
      BY <2>1, NullAssumption DEF OnlyTheFlight, Outstanding
    <2>3. TokenInv
      BY <2>1 DEF TokenInv, TokensKnown, SecretsKept, Undelivered, LoginGranted,
                  TakenWereGranted, HeldTokenWorks
    <2> QED
      BY <2>2, <2>3
  <1>2. /\ SystemInv /\ OnlyTheFlight /\ TokenInv /\ [Next]_vars
        => (SystemInv /\ OnlyTheFlight /\ TokenInv)'
    BY SystemStep, OnlyTheFlightStep, TokenInvStep
  <1> QED
    BY <1>1, <1>2, SystemInit, PTL DEF Spec

\* The refresh token in the storage works unless the client has handed it in.
THEOREM HeldTokensWork == Spec => []HeldTokenWorks
  <1>1. TokenInv => HeldTokenWorks
    BY DEF TokenInv
  <1> QED
    BY <1>1, TokenInvHolds, PTL

-----------------------------------------------------------------------------
(***************************************************************************)
(* Every call goes on.  That it settles is a temporal property under       *)
(* fairness; what it rests on is not: a step of a call brings it nearer to *)
(* its end, and as long as it has not ended there is a step it can take.   *)
(***************************************************************************)
\* The steps a call has before it at most.
StepsLeft(call) ==
    CASE call.stage = "idle" -> 6
      [] call.stage = "sent" -> IF call.attempted THEN 2 ELSE 5
      [] call.stage = "rejected" -> IF call.attempted THEN 1 ELSE 4
      [] call.stage = "waiting" -> 3
      [] call.stage = "settled" -> 0

\* Every change of a call leaves it fewer steps.
CallsAdvance ==
    [][\A c \in Call : calls'[c] # calls[c] => StepsLeft(calls'[c]) < StepsLeft(calls[c])]_vars

\* A call that waits has a refresh to wait for, a refused one a way to go on.
NoCallStuck ==
    \A c \in Call :
        /\ calls[c] = Waiting => Outstanding(flight) /\ flight \in Request
        /\ calls[c].stage = "rejected" =>
              \/ ~MayRefresh(c) \/ held.refresh = NoToken \/ CanShare
              \/ ~IsNew(held.refresh) /\ \E r \in Request : refreshes[r] = Unsent

LEMMA StepsOfStates ==
  /\ StepsLeft(Idle) = 6 /\ StepsLeft(Waiting) = 3 /\ StepsLeft(Settled) = 0
  /\ \A access : StepsLeft(Sent(access, FALSE)) = 5 /\ StepsLeft(Sent(access, TRUE)) = 2
  /\ \A attempted \in BOOLEAN :
        StepsLeft(Rejected(attempted)) = IF attempted THEN 1 ELSE 4
  BY DEF StepsLeft, Idle, Waiting, Settled, Sent, Rejected

LEMMA CallStepAdvances ==
  ASSUME ClientTypeOK, NEW c \in Call, CallStep(c)
  PROVE  \E state : Moved(c, state) /\ StepsLeft(state) < StepsLeft(calls[c])
  <1>1. CASE StartCall(c)
    <2>1. Moved(c, Sent(held.access, FALSE)) /\ calls[c] = Idle
      BY <1>1 DEF StartCall
    <2>2. PICK state : Moved(c, state) /\ StepsLeft(state) = 5
      BY <2>1, StepsOfStates
    <2>3. StepsLeft(state) < StepsLeft(calls[c])
      BY <2>1, <2>2, StepsOfStates
    <2> QED
      BY <2>2, <2>3
  <1>2. CASE AnswerCall(c)
    <2>1. calls[c].stage = "sent" /\ calls[c].attempted \in BOOLEAN
      BY <1>2, CallForms DEF AnswerCall
    <2>2. StepsLeft(calls[c]) = IF calls[c].attempted THEN 2 ELSE 5
      BY <2>1 DEF StepsLeft
    <2>3. /\ StepsLeft(Settled) < StepsLeft(calls[c])
          /\ StepsLeft(Rejected(calls[c].attempted)) < StepsLeft(calls[c])
      BY <2>1, <2>2, StepsOfStates
    <2> QED
      BY <1>2, <2>3 DEF AnswerCall
  <1>3. CASE DropCall(c) \/ GiveUp(c)
    <2>1. Moved(c, Settled) /\ calls[c].stage \in {"sent", "rejected", "waiting"}
      BY <1>3 DEF DropCall, GiveUp
    <2>2. StepsLeft(calls[c]) \in {1, 2, 3, 4, 5}
      BY <2>1 DEF StepsLeft
    <2>3. StepsLeft(Settled) < StepsLeft(calls[c])
      BY <2>2, StepsOfStates
    <2> QED
      BY <2>1, <2>3
  <1>4. CASE JoinRefresh(c) \/ StartRefresh(c)
    <2>1. Moved(c, Waiting) /\ calls[c].stage = "rejected" /\ ~calls[c].attempted
      BY <1>4 DEF JoinRefresh, StartRefresh, MayRefresh
    <2>2. StepsLeft(calls[c]) = 4
      BY <2>1 DEF StepsLeft
    <2>3. StepsLeft(Waiting) < StepsLeft(calls[c])
      BY <2>2, StepsOfStates
    <2> QED
      BY <2>1, <2>3
  <1> QED
    BY <1>1, <1>2, <1>3, <1>4 DEF CallStep

\* A call only goes forward: it is sent, refused, waits for a refresh, is sent
\* once more and ends, and none of the steps is ever taken back, by the end of a
\* refresh it shares neither (api-auth-hooks.ts: the mark on the context of a
\* call that has been sent again).
THEOREM CallsOnlyAdvance == Spec => CallsAdvance
  <1>1. ASSUME ClientTypeOK, [Next]_vars
        PROVE  \A c \in Call :
                   calls'[c] # calls[c] => StepsLeft(calls'[c]) < StepsLeft(calls[c])
    <2>. SUFFICES ASSUME NEW c \in Call, calls'[c] # calls[c]
                  PROVE  StepsLeft(calls'[c]) < StepsLeft(calls[c])
      OBVIOUS
    <2>1. ASSUME NEW d \in Call, CallStep(d)
          PROVE  StepsLeft(calls'[c]) < StepsLeft(calls[c])
      <3>1. PICK state : Moved(d, state) /\ StepsLeft(state) < StepsLeft(calls[d])
        BY <1>1, <2>1, CallStepAdvances
      <3>2. d = c /\ calls'[c] = state
        BY <1>1, <3>1 DEF Moved, ClientTypeOK
      <3> QED
        BY <3>1, <3>2
    <2>2. ASSUME NEW r \in Request, RefreshSucceeds(r) \/ RefreshFailsHere(r)
          PROVE  StepsLeft(calls'[c]) < StepsLeft(calls[c])
      <3>1. calls[c] = Waiting /\ \/ calls'[c] = Settled
                                  \/ \E access : calls'[c] = Sent(access, TRUE)
        BY <1>1, <2>2 DEF RefreshSucceeds, RefreshFailsHere, WaitersBecome
      <3>2. StepsLeft(calls[c]) = 3 /\ StepsLeft(calls'[c]) \in {0, 2}
        BY <3>1, StepsOfStates
      <3> QED
        BY <3>2
    <2>3. \/ UNCHANGED calls
          \/ \E d \in Call : CallStep(d)
          \/ \E r \in Request : RefreshSucceeds(r) \/ RefreshFailsHere(r)
      BY <1>1 DEF Next, ServeRefresh, ServeLogin, AccessExpires, RefreshTokenExpires, FormStep,
             SubmitLogin, LoginSucceeds, LoginFails, SubmitLogout, ServeLogout, LogoutEnds,
             NoticeCleared, clientVars, vars
    <2> QED
      BY <1>1, <2>1, <2>2, <2>3
  <1> QED
    BY <1>1, ClientTypesCorrect, PTL DEF Spec, CallsAdvance

\* No call is stuck: one that waits, waits for a refresh that is under way and
\* whose end the client has not seen, which may time out; and one that was
\* refused can give up, join a refresh or start one with a token the server has
\* issued (api-auth-hooks.ts: refreshingPromise is reset when the refresh ends).
\* The requests of the model suffice for that if there is one for every call.
THEOREM NoCallIsStuck ==
    Cardinality(Call) <= Cardinality(Request) => (Spec => []NoCallStuck)
  <1> SUFFICES ASSUME Cardinality(Call) <= Cardinality(Request)
               PROVE  Spec => []NoCallStuck
    OBVIOUS
  <1>1. ASSUME SystemInv, OnlyTheFlight, TokenInv, EachSpentOne
        PROVE  NoCallStuck
    <2>1. ClientTypeOK /\ ServerTypeOK
      BY <1>1 DEF SystemInv, ServerInv
    <2>2. ASSUME NEW c \in Call, calls[c] = Waiting
          PROVE  Outstanding(flight) /\ flight \in Request
      BY <1>1, <2>1, <2>2 DEF ClientTypeOK, OnlyTheFlight
    <2>3. ASSUME NEW c \in Call, calls[c].stage = "rejected", MayRefresh(c),
                 held.refresh # NoToken
          PROVE  ~IsNew(held.refresh) /\ \E r \in Request : refreshes[r] = Unsent
      <3>1. c \notin Spent
        BY <2>3 DEF Spent, StillMayRefresh, MayRefresh
      <3>2. /\ Spent \in SUBSET Call /\ SentRefreshes \in SUBSET Request
            /\ Spent \cup {c} \in SUBSET Call
        BY DEF Spent, SentRefreshes
      <3>3. /\ IsFiniteSet(Spent) /\ IsFiniteSet(Call) /\ IsFiniteSet(Request)
            /\ Cardinality(Spent) \in Nat /\ Cardinality(SentRefreshes) \in Nat
            /\ Cardinality(Call) \in Nat /\ Cardinality(Request) \in Nat
        BY <3>2, Finite
      <3>4. Cardinality(Spent \cup {c}) = Cardinality(Spent) + 1
        BY <3>1, <3>3, FS_AddElement
      <3>5. Cardinality(Spent \cup {c}) <= Cardinality(Call)
        BY <3>2, <3>3, FS_Subset
      <3>6. Cardinality(SentRefreshes) <= Cardinality(Spent)
        BY <1>1 DEF EachSpentOne
      <3>7. Cardinality(SentRefreshes) # Cardinality(Request)
        BY <3>3, <3>4, <3>5, <3>6
      <3>8. PICK r \in Request : r \notin SentRefreshes
        BY <3>2, <3>7
      <3>9. refreshes[r] = Unsent
        BY <2>1, <3>8 DEF SentRefreshes, ServerTypeOK, RefreshState, Unsent
      <3> QED
        BY <1>1, <2>3, <3>9 DEF TokenInv, TokensKnown
    <2> QED
      BY <2>2, <2>3 DEF NoCallStuck
  <1> QED
    BY <1>1, TokenInvHolds, EachSpentOneHolds, PTL

=============================================================================
