----------------------------- MODULE AuthClient ----------------------------
(***************************************************************************)
(* The browser side of authentication (web: lib/api-auth-hooks.ts,         *)
(* lib/token-storage.ts, lib/auth-api.ts, contexts/auth-context.tsx)       *)
(* together with the server of AuthSessions.                               *)
(*                                                                         *)
(* Tokens live in the memory of a tab, so a tab is a client of its own.    *)
(* JavaScript runs one task at a time: what happens from one answer of the *)
(* network to the next await of the network is one step, with everything   *)
(* the settled promise wakes up.  The access and the refresh token of one  *)
(* answer have the same name here.                                         *)
(***************************************************************************)
EXTENDS AuthSessions, FiniteSets

CONSTANTS
    Call,     \* API calls of the pages
    NoToken,  \* null in the token storage
    NoRefresh \* null in refreshingPromise

ASSUME NullAssumption == NoToken \notin Token /\ NoRefresh \notin Request

ASSUME FinitenessAssumption == IsFiniteSet(Call) /\ IsFiniteSet(Request)

VARIABLES
    held,         \* the token storage
    signedIn,     \* AuthProvider: state.type is authenticated
    staleAccess,  \* access tokens past their expiry
    calls,        \* progress of every API call
    flight,       \* refreshingPromise: the refresh it stands for
    loginFlight,  \* progress of the login form
    logoutFlight, \* the token a pending logout carries
    seen          \* history: how each refresh ended for the client

clientVars == <<held, signedIn, staleAccess, calls, flight, loginFlight,
                logoutFlight, seen>>

vars == <<serverVars, clientVars>>

-----------------------------------------------------------------------------
Tokens(access, refresh) == [access |-> access, refresh |-> refresh]

Cleared == Tokens(NoToken, NoToken)

\* The value isAuthenticated of the context.
IsAuthenticated == signedIn /\ held.access # NoToken

Idle == [stage |-> "idle"]

Sent(access, attempted) ==
    [stage |-> "sent", access |-> access, attempted |-> attempted]

Rejected(attempted) == [stage |-> "rejected", attempted |-> attempted]

Waiting == [stage |-> "waiting"]

Settled == [stage |-> "settled"]

Moved(c, state) == calls' = [calls EXCEPT ![c] = state]

-----------------------------------------------------------------------------
(***************************************************************************)
(* API calls up to their answer (apiClient, addAuthHeader, authMiddleware).*)
(***************************************************************************)
StartCall(c) ==
    /\ calls[c] = Idle
    /\ IsAuthenticated
    /\ Moved(c, Sent(held.access, FALSE))
    /\ UNCHANGED <<serverVars, held, signedIn, staleAccess, flight, loginFlight,
                   logoutFlight, seen>>

AccessAccepted(t) == t # NoToken /\ t \notin staleAccess

\* authMiddleware looks at the access token only.
AnswerCall(c) ==
    /\ calls[c].stage = "sent"
    /\ Moved(c, IF AccessAccepted(calls[c].access) THEN Settled
                ELSE Rejected(calls[c].attempted))
    /\ UNCHANGED <<serverVars, held, signedIn, staleAccess, flight, loginFlight,
                   logoutFlight, seen>>

\* The network fails or the caller aborts; nobody clears the tokens then.
DropCall(c) ==
    /\ calls[c].stage \in {"sent", "rejected", "waiting"}
    /\ Moved(c, Settled)
    /\ UNCHANGED <<serverVars, held, signedIn, staleAccess, flight, loginFlight,
                   logoutFlight, seen>>

AccessExpires(t) ==
    /\ ~IsNew(t)
    /\ t \notin staleAccess
    /\ staleAccess' = staleAccess \cup {t}
    /\ UNCHANGED <<serverVars, held, signedIn, calls, flight, loginFlight,
                   logoutFlight, seen>>

-----------------------------------------------------------------------------
(***************************************************************************)
(* handleUnauthorizedResponse up to performRefresh.                        *)
(***************************************************************************)
\* Plausible slip: the mark is not put on the context of the call.
MayRefresh_Unmarked(c) == TRUE

MayRefresh(c) == ~calls[c].attempted

\* The call has had its refresh, or there is nothing to refresh with.
GiveUp(c) ==
    /\ calls[c].stage = "rejected"
    /\ \/ ~MayRefresh(c) /\ UNCHANGED held
       \/ MayRefresh(c) /\ held.refresh = NoToken /\ held' = Cleared
    /\ Moved(c, Settled)
    /\ UNCHANGED <<serverVars, signedIn, staleAccess, flight, loginFlight,
                   logoutFlight, seen>>

\* Plausible slip: every call starts a refresh of its own.
CanShare_Never == FALSE

\* refreshingPromise is not null.
CanShare == flight # NoRefresh

JoinRefresh(c) ==
    /\ calls[c].stage = "rejected"
    /\ MayRefresh(c)
    /\ held.refresh # NoToken
    /\ CanShare
    /\ Moved(c, Waiting)
    /\ UNCHANGED <<serverVars, held, signedIn, staleAccess, flight, loginFlight,
                   logoutFlight, seen>>

StartRefresh(c) ==
    /\ calls[c].stage = "rejected"
    /\ MayRefresh(c)
    /\ held.refresh # NoToken
    /\ ~CanShare
    /\ \E r \in Request : PresentToken(r, held.refresh) /\ flight' = r
    /\ Moved(c, Waiting)
    /\ UNCHANGED <<held, signedIn, staleAccess, loginFlight, logoutFlight, seen>>

-----------------------------------------------------------------------------
(***************************************************************************)
(* The refresh settles, and with it every call that waits for it.          *)
(***************************************************************************)
\* Plausible slip: the new refresh token of the answer is overlooked.
Refreshed_OldRefreshToken(r) == Tokens(refreshes[r].new, refreshes[r].token)

Refreshed(r) == Tokens(refreshes[r].new, refreshes[r].new)

WaitersBecome(state) ==
    calls' = [c \in Call |-> IF calls[c] = Waiting THEN state ELSE calls[c]]

\* setTokens; the waiting calls are sent again with the new access token.
RefreshSucceeds(r) ==
    /\ flight = r
    /\ refreshes[r].stage = "granted"
    /\ held' = Refreshed(r)
    /\ flight' = NoRefresh
    /\ seen' = [seen EXCEPT ![r] = "taken"]
    /\ WaitersBecome(Sent(Refreshed(r).access, TRUE))
    /\ UNCHANGED <<serverVars, signedIn, staleAccess, loginFlight, logoutFlight>>

\* Plausible slip: the refresh has no timeout.
CanTimeOut_Never(r) == FALSE

\* REFRESH_TIMEOUT_MS is over, the network has failed or the answer is useless;
\* the server may still be at it or have swapped the tokens already.
CanTimeOut(r) == TRUE

\* The callers that still wait clear the tokens; aborted ones do not.
RefreshFailsHere(r) ==
    /\ flight = r
    /\ refreshes[r].stage = "refused" \/ CanTimeOut(r)
    /\ flight' = NoRefresh
    /\ held' = IF \E c \in Call : calls[c] = Waiting THEN Cleared ELSE held
    /\ seen' = [seen EXCEPT ![r] = "failed"]
    /\ WaitersBecome(Settled)
    /\ UNCHANGED <<serverVars, signedIn, staleAccess, loginFlight, logoutFlight>>

-----------------------------------------------------------------------------
(***************************************************************************)
(* Login and logout.                                                       *)
(***************************************************************************)
Unsubmitted == [stage |-> "none"]

\* The login page turns away whoever is authenticated.
SubmitLogin ==
    /\ ~IsAuthenticated
    /\ loginFlight = Unsubmitted
    /\ loginFlight' = [stage |-> "sent"]
    /\ UNCHANGED <<serverVars, held, signedIn, staleAccess, calls, flight,
                   logoutFlight, seen>>

ServeLogin(u, t) ==
    /\ loginFlight = [stage |-> "sent"]
    /\ registerUser(u, t) \/ loginUser(u, t)
    /\ loginFlight' = [stage |-> "granted", token |-> t]
    /\ UNCHANGED <<held, signedIn, staleAccess, calls, flight, logoutFlight, seen>>

\* postAuth, then login of the context.
LoginSucceeds ==
    /\ loginFlight.stage = "granted"
    /\ held' = Tokens(loginFlight.token, loginFlight.token)
    /\ signedIn' = TRUE
    /\ loginFlight' = Unsubmitted
    /\ UNCHANGED <<serverVars, staleAccess, calls, flight, logoutFlight, seen>>

LoginFails ==
    /\ loginFlight # Unsubmitted
    /\ loginFlight' = Unsubmitted
    /\ UNCHANGED <<serverVars, held, signedIn, staleAccess, calls, flight,
                   logoutFlight, seen>>

SubmitLogout ==
    /\ IsAuthenticated
    /\ logoutFlight = NoToken
    /\ logoutFlight' = held.refresh
    /\ UNCHANGED <<serverVars, held, signedIn, staleAccess, calls, flight,
                   loginFlight, seen>>

ServeLogout ==
    /\ logoutFlight # NoToken
    /\ logoutUser(logoutFlight)
    /\ UNCHANGED clientVars

AfterLogout == Cleared

\* Whatever the server says, or says nothing.
LogoutEnds ==
    /\ logoutFlight # NoToken
    /\ logoutFlight' = NoToken
    /\ held' = AfterLogout
    /\ signedIn' = FALSE
    /\ UNCHANGED <<serverVars, staleAccess, calls, flight, loginFlight, seen>>

\* The effect of AuthProvider on an access token that has gone.
NoticeCleared ==
    /\ signedIn
    /\ held.access = NoToken
    /\ signedIn' = FALSE
    /\ UNCHANGED <<serverVars, held, staleAccess, calls, flight, loginFlight,
                   logoutFlight, seen>>

-----------------------------------------------------------------------------
\* The steps of the server that no client step contains.
ServeRefresh(r) ==
    /\ findRefreshToken(r) \/ rotateRefreshToken(r) \/ RefreshFails(r)
    /\ UNCHANGED clientVars

RefreshTokenExpires(t) == Expire(t) /\ UNCHANGED clientVars

Init ==
    /\ ServerInit
    /\ held = Cleared
    /\ signedIn = FALSE
    /\ staleAccess = {}
    /\ calls = [c \in Call |-> Idle]
    /\ flight = NoRefresh
    /\ loginFlight = Unsubmitted
    /\ logoutFlight = NoToken
    /\ seen = [r \in Request |-> "nothing"]

CallStep(c) ==
    StartCall(c) \/ AnswerCall(c) \/ DropCall(c) \/ GiveUp(c) \/ JoinRefresh(c)
      \/ StartRefresh(c)

FormStep ==
    SubmitLogin \/ LoginSucceeds \/ LoginFails \/ SubmitLogout \/ ServeLogout
      \/ LogoutEnds \/ NoticeCleared

Next ==
    \/ \E c \in Call : CallStep(c)
    \/ \E r \in Request : RefreshSucceeds(r) \/ RefreshFailsHere(r) \/ ServeRefresh(r)
    \/ \E u \in User, t \in Token : ServeLogin(u, t)
    \/ \E t \in Token : AccessExpires(t) \/ RefreshTokenExpires(t)
    \/ FormStep

\* The server or the timeout of ky (10 s) answers every call, its answer is
\* handled, and the refresh has a timeout.  Nothing is asked of the server's
\* refreshes or of the user.
Fairness ==
    /\ \A c \in Call :
          WF_vars(AnswerCall(c)) /\ WF_vars(GiveUp(c) \/ JoinRefresh(c) \/ StartRefresh(c))
    /\ \A r \in Request : WF_vars(RefreshFailsHere(r))

Spec == Init /\ [][Next]_vars /\ Fairness

-----------------------------------------------------------------------------
(***************************************************************************)
(* Properties.                                                             *)
(***************************************************************************)
CallState ==
    {Idle, Waiting, Settled}
      \cup [stage : {"sent"}, access : Token \cup {NoToken}, attempted : BOOLEAN]
      \cup [stage : {"rejected"}, attempted : BOOLEAN]

\* Types; the two tokens of the storage come and go together, and a call only
\* waits while a refresh is under way.
ClientTypeOK ==
    /\ held \in [access : Token \cup {NoToken}, refresh : Token \cup {NoToken}]
    /\ held.access = NoToken <=> held.refresh = NoToken
    /\ signedIn \in BOOLEAN
    /\ staleAccess \subseteq Token
    /\ calls \in [Call -> CallState]
    /\ flight \in Request \cup {NoRefresh}
    /\ loginFlight \in {Unsubmitted, [stage |-> "sent"]}
                         \cup [stage : {"granted"}, token : Token]
    /\ logoutFlight \in Token \cup {NoToken}
    /\ seen \in [Request -> {"nothing", "taken", "failed"}]
    /\ \A c \in Call : calls[c] = Waiting => flight # NoRefresh

\* Calls that are rejected together share a refresh: a second one is only sent
\* when the first has ended for the client.
OneRefreshAtATime ==
    Cardinality({r \in Request : refreshes[r].stage # "unsent" /\ seen[r] = "nothing"}) <= 1

\* The refresh token in the storage works on the server, unless the client
\* itself has handed it in: to a logout under way, or to a refresh whose answer
\* it has not seen.
Surrendered(t) ==
    \/ logoutFlight = t
    \/ \E r \in Request : refreshes[r].stage = "granted" /\ refreshes[r].token = t
                         /\ seen[r] # "taken"

HeldTokenWorks ==
    held.refresh # NoToken => held.refresh \in stored \/ Surrendered(held.refresh)

\* 401 answers cannot drive the client into a loop of refreshes: a call causes
\* one at most, however often it is answered 401.
RefreshesBounded ==
    Cardinality({r \in Request : refreshes[r].stage # "unsent"})
      <= Cardinality({c \in Call : calls[c] # Idle})

\* Every call is settled in the end, even if the server never answers a refresh.
EveryCallSettles == \A c \in Call : (calls[c] # Idle) ~> (calls[c] = Settled)

=============================================================================
