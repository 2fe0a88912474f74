-------------------------- MODULE OrganizationGate --------------------------
(***************************************************************************)
(* Where the web client takes a person: to the login, to the form that     *)
(* makes a first organization, or to the application.  The routes          *)
(* (routes/login.tsx, routes/app/route.tsx,                                *)
(* routes/onboarding/organization.tsx) decide with the state of            *)
(* contexts/organization-membership-context.tsx, which is fetched anew for *)
(* every login, after the form has been sent, and on request.              *)
(*                                                                         *)
(* A call is sent with the token that is stored at that time, which is not *)
(* always that of the account: a refresh stores the new tokens of whom it  *)
(* was started for, whoever has logged in since.  The server looks at the  *)
(* call later, and its answer arrives still later, or never.               *)
(***************************************************************************)
EXTENDS Naturals, Sequences, FiniteSets, FiniteSetsExt

CONSTANTS
    Account,    \* the users
    MaxCalls,   \* bound on the calls of an instance
    Nobody      \* nobody, or nothing yet

ASSUME GateAssumption ==
    /\ MaxCalls \in Nat
    /\ Nobody \notin Account /\ Nobody \notin BOOLEAN

VARIABLES
    account,    \* user of useAuth()
    route,      \* the path
    state,      \* OrganizationMembershipState
    wanted,     \* the call whose id is requestIdRef.current, 0 if none has it
    ranFor,     \* isAuthenticated when the effect of the provider has last run
    calls,      \* the calls sent, with what the server has said
    stored,     \* the user of the tokens in lib/token-storage.ts
    refreshing, \* the user of the refresh under way, Nobody if none is
    belongs,    \* server: the users with an organization
    created     \* history: the users whose form has succeeded here and who
                \* have belonged to an organization ever since

tokens == <<stored, refreshing>>

client == <<account, route, state, wanted, ranFor>>

gateVars == <<client, calls, tokens, belongs, created>>

-----------------------------------------------------------------------------
isAuthenticated == account # Nobody

\* The effect of the provider has not seen this login or logout.
EffectDue == ranFor # isAuthenticated

Ready(owner, has) == [type |-> "ready", owner |-> owner, has |-> has]

Loading == [type |-> "loading", owner |-> Nobody, has |-> FALSE]

Failed == [type |-> "error", owner |-> Nobody, has |-> FALSE]

hasOrganization == state.type = "ready" /\ state.has

HasNone == state.type = "ready" /\ ~state.has

\* With the token that is stored, if any.
Call(kind, form) ==
    [kind |-> kind, user |-> stored, form |-> form, has |-> Nobody, done |-> FALSE]

\* fetchOrganizations of a render with a user: `form' if the form awaits it.
Fetch(sent, form) ==
    /\ calls' = Append(sent, Call("list", form))
    /\ wanted' = Len(calls')
    /\ state' = Loading

\* fetchOrganizations of a render without a user.
ForgetOrganizations ==
    /\ wanted' = 0
    /\ state' = Ready(Nobody, FALSE)
    /\ UNCHANGED calls

\* Calls that are still to come: the effect's, and one for every form.
Reserved == (IF EffectDue THEN 1 ELSE 0)
            + Quantify(DOMAIN calls, LAMBDA i : calls[i].kind = "create" /\ ~calls[i].done)

Room(n) == Len(calls) + Reserved + n <= MaxCalls

-----------------------------------------------------------------------------
(***************************************************************************)
(* The provider and the routes.                                            *)
(***************************************************************************)

\* Plausible slip: the effect runs for the first render only.
MustRun_Once == ranFor = Nobody

MustRun == EffectDue

RunEffect ==
    /\ MustRun
    /\ ranFor' = isAuthenticated
    /\ IF isAuthenticated THEN Fetch(calls, FALSE) ELSE ForgetOrganizations
    /\ UNCHANGED <<account, route, tokens, belongs, created>>

\* <Navigate> of the route that is rendered.
Destination ==
    CASE ~isAuthenticated -> "login"
      [] isAuthenticated /\ route = "login" -> "app"
      [] isAuthenticated /\ route = "app" /\ HasNone -> "onboarding"
      [] isAuthenticated /\ route = "onboarding" /\ hasOrganization -> "app"
      [] OTHER -> route

Redirect ==
    /\ route # Destination
    /\ route' = Destination
    /\ UNCHANGED <<account, state, wanted, ranFor, calls, tokens, belongs, created>>

-----------------------------------------------------------------------------
(***************************************************************************)
(* The person.  A login or logout takes a call to the server, longer than  *)
(* the effect of the one before.                                           *)
(***************************************************************************)
LogIn(user) ==
    /\ route = "login" /\ ~isAuthenticated
    /\ ~EffectDue
    /\ Room(1)
    /\ account' = user
    /\ stored' = user
    /\ route' = "app"
    /\ UNCHANGED <<state, wanted, ranFor, calls, refreshing, belongs, created>>

\* clearTokens, and whoever was logged in is not any more.
ForgetTokens ==
    /\ stored' = Nobody
    /\ account' = Nobody

LogOut ==
    /\ isAuthenticated
    /\ ~EffectDue
    /\ ForgetTokens
    /\ UNCHANGED <<route, state, wanted, ranFor, calls, refreshing, belongs, created>>

\* The button of the error state.
Retry ==
    /\ isAuthenticated /\ ~EffectDue
    /\ route \in {"app", "onboarding"} /\ state.type = "error"
    /\ Room(1)
    /\ Fetch(calls, FALSE)
    /\ UNCHANGED <<account, route, ranFor, tokens, belongs, created>>

\* The form of the onboarding page, disabled while it submits.  A fetch takes
\* the page away, so that the form on screen has sent what came after the last.
SubmitForm ==
    /\ isAuthenticated /\ ~EffectDue
    /\ route = "onboarding" /\ HasNone
    /\ \A i \in DOMAIN calls : calls[i].kind = "create" /\ ~calls[i].done => i < wanted
    /\ Room(2)
    /\ calls' = Append(calls, Call("create", TRUE))
    /\ UNCHANGED <<client, tokens, belongs, created>>

-----------------------------------------------------------------------------
(***************************************************************************)
(* The refresh of the tokens, one at a time: some call of the tab, not     *)
(* always one of those here, has been refused.  Logging out does not end   *)
(* it.  SessionClient has its calls one by one.                            *)
(***************************************************************************)

\* The token is read before the refresh is sent.
StartRefresh ==
    /\ stored # Nobody /\ refreshing = Nobody
    /\ refreshing' = stored
    /\ UNCHANGED <<client, calls, stored, belongs, created>>

\* What it answers is stored, and the calls that have waited are sent again.
RefreshSucceeds ==
    /\ refreshing # Nobody
    /\ stored' = refreshing
    /\ refreshing' = Nobody
    /\ \E again \in SUBSET {i \in DOMAIN calls : calls[i].has = Nobody /\ ~calls[i].done} :
           calls' = [i \in DOMAIN calls |->
                        [calls[i] EXCEPT !.user = IF i \in again THEN refreshing ELSE @]]
    /\ UNCHANGED <<client, belongs, created>>

\* A call that waits for it clears the tokens, whosever they are by now, unless
\* its caller has given it up.
RefreshFails ==
    /\ refreshing # Nobody
    /\ refreshing' = Nobody
    /\ ForgetTokens \/ UNCHANGED <<account, stored>>
    /\ UNCHANGED <<route, state, wanted, ranFor, calls, belongs, created>>

-----------------------------------------------------------------------------
(***************************************************************************)
(* The server, and the answers.                                            *)
(***************************************************************************)
Serve(i) ==
    /\ i \in DOMAIN calls
    /\ calls[i].user # Nobody
    /\ calls[i].has = Nobody
    /\ belongs' = IF calls[i].kind = "create" THEN belongs \cup {calls[i].user} ELSE belongs
    /\ calls' = [calls EXCEPT ![i].has = calls[i].user \in belongs']
    /\ UNCHANGED <<client, tokens, created>>

\* Somebody accepts an invitation in another tab.
JoinElsewhere(user) ==
    /\ user \notin belongs
    /\ belongs' = belongs \cup {user}
    /\ UNCHANGED <<client, calls, tokens, created>>

\* Somebody is removed from the only organization they belong to.
LeaveElsewhere(user) ==
    /\ user \in belongs
    /\ belongs' = belongs \ {user}
    /\ created' = created \ {user}
    /\ UNCHANGED <<client, calls, tokens>>

Over == [kind |-> "list", user |-> Nobody, form |-> FALSE, has |-> Nobody, done |-> TRUE]

\* Nobody hears of a list again that is over; the server may still get a form.
Settled(i) ==
    [calls EXCEPT ![i] = IF @.kind = "list" THEN Over ELSE [@ EXCEPT !.done = TRUE]]

\* Plausible slip: whatever arrives is shown.
Expected_Any(i) == TRUE

Expected(i) == wanted = i

\* The end of fetchOrganizations, which throws nothing, and of the form.
ListArrives(i, outcome) ==
    /\ calls[i].kind = "list"
    /\ state' = IF Expected(i) THEN outcome ELSE state
    /\ route' = IF calls[i].form THEN "app" ELSE route
    /\ calls' = Settled(i)
    /\ UNCHANGED <<account, wanted, ranFor, tokens, belongs, created>>

\* The form goes on with the refetch of the render that was submitted.
FormSucceeds(i) ==
    /\ calls[i].kind = "create"
    /\ created' = (created \cup {calls[i].user}) \cap belongs
    /\ Fetch(Settled(i), TRUE)
    /\ UNCHANGED <<account, route, ranFor, tokens, belongs>>

FormFails(i) ==
    /\ calls[i].kind = "create"
    /\ calls' = Settled(i)
    /\ UNCHANGED <<client, tokens, belongs, created>>

TakeAnswer(i) ==
    /\ i \in DOMAIN calls /\ ~calls[i].done
    /\ \/ /\ calls[i].has # Nobody
          /\ ListArrives(i, Ready(calls[i].user, calls[i].has)) \/ FormSucceeds(i)
       \/ ListArrives(i, Failed) \/ FormFails(i)

-----------------------------------------------------------------------------
GateInit ==
    /\ account = Nobody
    /\ route \in {"login", "app", "onboarding"}
    /\ state = Loading
    /\ wanted = 0
    /\ ranFor = Nobody
    /\ calls = <<>>
    /\ stored = Nobody
    /\ refreshing = Nobody
    /\ belongs \in SUBSET Account
    /\ created = {}

GateNext ==
    \/ RunEffect \/ Redirect
    \/ \E user \in Account : LogIn(user) \/ JoinElsewhere(user) \/ LeaveElsewhere(user)
    \/ LogOut \/ Retry \/ SubmitForm
    \/ StartRefresh \/ RefreshSucceeds \/ RefreshFails
    \/ \E i \in 1 .. MaxCalls : Serve(i) \/ TakeAnswer(i)

\* React runs effects and renders redirections; a call is answered or times out.
GateFairness ==
    /\ WF_gateVars(RunEffect) /\ WF_gateVars(Redirect)
    /\ \A i \in 1 .. MaxCalls : WF_gateVars(TakeAnswer(i))

GateSpec == GateInit /\ [][GateNext]_gateVars /\ GateFairness

-----------------------------------------------------------------------------
(***************************************************************************)
(* Properties.                                                             *)
(***************************************************************************)

\* What the routes show a person, once the effect of the login has run, rests
\* on their own organizations, never on those of the one before, whose answer
\* may come late.  And it is not older than the own form: whoever has made an
\* organization here, and has not been removed since, is not asked to make one.
\* Only the tab must still hold their tokens: a refresh that was started before
\* the login can store those of the one before in the place of theirs.
OwnOrganizationsOnly ==
    isAuthenticated /\ ~EffectDue /\ stored = account /\ state.type = "ready" =>
        /\ state.owner = account
        /\ account \in created => hasOrganization

\* A person who waits gets somewhere: to the login without an account, else to
\* the application or the form, whichever their organizations say, or to a
\* message that they could not be fetched.
GateSettles ==
    []<>(/\ route = Destination
         /\ isAuthenticated => state.type # "loading"
         /\ ~EffectDue)

=============================================================================
