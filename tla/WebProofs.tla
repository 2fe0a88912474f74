------------------------------ MODULE WebProofs ------------------------------
(***************************************************************************)
(* Proofs about the pages of the web client:                               *)
(*   PART 1  OrganizationGate: the routes decide on the organizations of   *)
(*           the person at the tab.                                        *)
(*   PART 2  TicketList: what is on display answers the last request.      *)
(*   PART 3  Both: nobody waits in vain.                                   *)
(***************************************************************************)
EXTENDS OrganizationGate, TicketList, SequenceTheorems, TLAPS

-----------------------------------------------------------------------------
(***************************************************************************)
(* PART 1.  OrganizationGate.                                              *)
(*                                                                         *)
(* What the routes read is right only between a run of the effect and the  *)
(* next login or logout, and only because the call that is waited for was  *)
(* sent in that time, with a token that is still theirs.  The invariant    *)
(* says so of the call and of the state; between a login and the effect it *)
(* claims nothing.  A late refresh that has stored the tokens of another   *)
(* person ends what it claims until the next login: no refresh can bring   *)
(* those of the person at the tab back.  For the own form the history has  *)
(* only who belongs to an organization, so that a list the server looks at *)
(* says that they have one.                                                *)
(***************************************************************************)
Person == Account \cup {Nobody}

CallRecord ==
    [kind : {"list", "create"}, user : Person, form : BOOLEAN,
     has : BOOLEAN \cup {Nobody}, done : BOOLEAN]

StateRecord == [type : {"ready", "loading", "error"}, owner : Person, has : BOOLEAN]

GateTypeOK ==
    /\ account \in Person
    /\ ranFor \in BOOLEAN \cup {Nobody}
    /\ state \in StateRecord
    /\ wanted \in Nat
    /\ calls \in Seq(CallRecord)
    /\ stored \in Person
    /\ refreshing \in Person
    /\ belongs \subseteq Account
    /\ created \subseteq belongs

\* Once the tokens are another person's no refresh brings back those of the
\* person at the tab.
LostTokens == account # Nobody /\ stored # account => refreshing # account

Awaited == ranFor = TRUE /\ account # Nobody => wanted \in DOMAIN calls

OfThePerson ==
    ranFor = TRUE /\ account # Nobody /\ stored = account =>
        /\ ~calls[wanted].done =>
               /\ calls[wanted].user = account
               /\ calls[wanted].has # Nobody /\ account \in created => calls[wanted].has = TRUE
        /\ state.type = "ready" => state.owner = account
        /\ state.type = "ready" /\ account \in created => state.has = TRUE

GateInv == GateTypeOK /\ LostTokens /\ Awaited /\ OfThePerson

\* As many calls as in `calls'.
AsMany(s) == s \in Seq(CallRecord) /\ Len(s) = Len(calls)

\* A call that is over leaves the others alone.
LEMMA SettledCalls ==
  ASSUME GateTypeOK, GateAssumption, NEW i \in DOMAIN calls
  PROVE  /\ AsMany(Settled(i))
         /\ DOMAIN Settled(i) = DOMAIN calls
         /\ Settled(i)[i].done = TRUE
         /\ \A j \in DOMAIN calls : j # i => Settled(i)[j] = calls[j]
  <1>1. calls \in Seq(CallRecord) /\ calls[i] \in CallRecord
    BY DEF GateTypeOK
  <1>2. Over \in CallRecord /\ Over.done = TRUE
    BY DEF Over, CallRecord, Person
  <1>3. /\ [calls[i] EXCEPT !.done = TRUE] \in CallRecord
        /\ [calls[i] EXCEPT !.done = TRUE].done = TRUE
    BY <1>1 DEF CallRecord
  <1>4. PICK over \in CallRecord : over.done = TRUE /\ Settled(i) = [calls EXCEPT ![i] = over]
    <2>1. CASE calls[i].kind = "list"
      BY <1>2, <2>1 DEF Settled
    <2>2. CASE calls[i].kind # "list"
      BY <1>3, <2>2 DEF Settled
    <2>3. QED BY <2>1, <2>2
  <1>5. QED BY <1>1, <1>4 DEF AsMany

\* What a call adds to the calls of the server.
LEMMA CallType ==
  ASSUME GateTypeOK, NEW kind \in {"list", "create"}, NEW form \in BOOLEAN
  PROVE  /\ Call(kind, form) \in CallRecord
         /\ Call(kind, form).kind = kind
         /\ Call(kind, form).user = stored
         /\ Call(kind, form).has = Nobody
         /\ Call(kind, form).done = FALSE
  BY DEF GateTypeOK, Call, CallRecord

\* A call that is sent is the last one.
LEMMA SentIsLast ==
  ASSUME GateTypeOK, NEW s, AsMany(s), NEW kind \in {"list", "create"}, NEW form \in BOOLEAN,
         calls' = Append(s, Call(kind, form))
  PROVE  /\ calls' \in Seq(CallRecord)
         /\ Len(calls') \in Nat /\ Len(calls') \in DOMAIN calls'
         /\ calls'[Len(calls')] = Call(kind, form)
         /\ \A j \in DOMAIN calls : j \in DOMAIN calls' /\ calls'[j] = s[j]
  <1>1. Call(kind, form) \in CallRecord
    BY CallType
  <1>2. s \in Seq(CallRecord) /\ Len(s) = Len(calls) /\ calls \in Seq(CallRecord)
    BY DEF AsMany, GateTypeOK
  <1>3. QED BY <1>1, <1>2

\* A fetch starts anew: the call that is waited for has the stored token.
LEMMA FetchKept ==
  ASSUME GateTypeOK, LostTokens, GateAssumption,
         NEW s, AsMany(s), NEW form \in BOOLEAN, Fetch(s, form),
         UNCHANGED <<account, stored, refreshing>>,
         belongs' \subseteq Account, created' \subseteq belongs',
         ranFor' \in BOOLEAN \cup {Nobody}
  PROVE  GateInv'
  <1>1. /\ calls' = Append(s, Call("list", form))
        /\ wanted' = Len(calls')
        /\ state' = Loading
    BY DEF Fetch
  <1>2. /\ calls' \in Seq(CallRecord)
        /\ wanted' \in Nat /\ wanted' \in DOMAIN calls'
        /\ calls'[wanted'] = Call("list", form)
    BY <1>1, SentIsLast
  <1>3. calls'[wanted'].user = stored /\ calls'[wanted'].has = Nobody
    BY <1>2, CallType
  <1>4. state' \in StateRecord /\ state'.type = "loading"
    BY <1>1 DEF Loading, StateRecord, Person
  <1>5. GateTypeOK' /\ LostTokens'
    BY <1>2, <1>4 DEF GateTypeOK, LostTokens
  <1>6. Awaited'
    BY <1>2 DEF Awaited
  <1>7. OfThePerson'
    BY <1>3, <1>4 DEF OfThePerson
  <1>8. QED BY <1>5, <1>6, <1>7 DEF GateInv

\* The effect has seen a person, or nobody; a login or logout is not yet due.
LEMMA NotDue ==
  ASSUME GateTypeOK, GateAssumption
  PROVE  /\ ~EffectDue => \/ ranFor = TRUE /\ account # Nobody
                          \/ ranFor = FALSE /\ account = Nobody
         /\ isAuthenticated \in BOOLEAN
  <1>1. CASE account = Nobody
    BY <1>1 DEF EffectDue, isAuthenticated
  <1>2. CASE account # Nobody
    BY <1>2 DEF EffectDue, isAuthenticated
  <1>3. QED BY <1>1, <1>2

\* When the effect has run it fetches for the person, or forgets for nobody.
LEMMA RunEffectKept ==
  ASSUME GateInv, GateAssumption, RunEffect
  PROVE  GateInv'
  <1>1. GateTypeOK /\ LostTokens
    BY DEF GateInv
  <1>2. /\ ranFor' = isAuthenticated
        /\ UNCHANGED <<account, stored, refreshing, belongs, created>>
        /\ IF isAuthenticated THEN Fetch(calls, FALSE) ELSE ForgetOrganizations
    BY DEF RunEffect, tokens
  <1>3. ranFor' \in BOOLEAN
    BY <1>1, <1>2, NotDue
  <1>4. CASE isAuthenticated
    <2>1. AsMany(calls)
      BY <1>1 DEF AsMany, GateTypeOK
    <2>2. Fetch(calls, FALSE) /\ belongs' \subseteq Account /\ created' \subseteq belongs'
      BY <1>1, <1>2, <1>4 DEF GateTypeOK
    <2>3. QED BY <1>1, <1>2, <1>3, <2>1, <2>2, FetchKept
  <1>5. CASE ~isAuthenticated
    <2>1. /\ account' = Nobody
          /\ wanted' = 0 /\ calls' = calls
          /\ state' = Ready(Nobody, FALSE)
      BY <1>2, <1>5 DEF isAuthenticated, ForgetOrganizations
    <2>2. state' \in StateRecord
      BY <2>1 DEF Ready, StateRecord, Person
    <2>3. GateTypeOK'
      BY <1>1, <1>2, <1>3, <2>1, <2>2 DEF GateTypeOK
    <2>4. LostTokens' /\ Awaited' /\ OfThePerson'
      BY <2>1 DEF LostTokens, Awaited, OfThePerson
    <2>5. QED BY <2>3, <2>4 DEF GateInv
  <1>6. QED BY <1>4, <1>5

\* A login makes the effect due, and the invariant claims nothing.
LEMMA LogInKept ==
  ASSUME GateInv, GateAssumption, NEW user \in Account, LogIn(user)
  PROVE  GateInv'
  <1>1. /\ account = Nobody /\ ~EffectDue
        /\ account' = user /\ stored' = user
        /\ UNCHANGED <<state, wanted, ranFor, calls, refreshing, belongs, created>>
    BY DEF LogIn, isAuthenticated
  <1>2. GateTypeOK
    BY DEF GateInv
  <1>3. ranFor' = FALSE
    BY <1>1, <1>2, NotDue
  <1>4. GateTypeOK'
    BY <1>1, <1>2 DEF GateTypeOK, Person
  <1>5. LostTokens'
    BY <1>1 DEF LostTokens
  <1>6. Awaited' /\ OfThePerson'
    BY <1>3 DEF Awaited, OfThePerson
  <1>7. QED BY <1>4, <1>5, <1>6 DEF GateInv

\* So does a logout, and the end of a refresh that has failed.
LEMMA ForgottenKept ==
  ASSUME GateInv, GateAssumption, ForgetTokens, refreshing' \in Person,
         UNCHANGED <<state, wanted, ranFor, calls, belongs, created>>
  PROVE  GateInv'
  <1>1. GateTypeOK /\ stored' = Nobody /\ account' = Nobody
    BY DEF GateInv, ForgetTokens
  <1>2. GateTypeOK'
    BY <1>1 DEF GateTypeOK, Person
  <1>3. LostTokens' /\ Awaited' /\ OfThePerson'
    BY <1>1 DEF LostTokens, Awaited, OfThePerson
  <1>4. QED BY <1>2, <1>3 DEF GateInv

\* The button and the form.
LEMMA RetryKept ==
  ASSUME GateInv, GateAssumption, Retry
  PROVE  GateInv'
  <1>1. GateTypeOK /\ LostTokens
    BY DEF GateInv
  <1>2. AsMany(calls)
    BY <1>1 DEF AsMany, GateTypeOK
  <1>3. /\ Fetch(calls, FALSE)
        /\ UNCHANGED <<account, stored, refreshing, belongs, created, ranFor>>
    BY DEF Retry, tokens
  <1>4. /\ belongs' \subseteq Account /\ created' \subseteq belongs'
        /\ ranFor' \in BOOLEAN \cup {Nobody}
    BY <1>1, <1>3 DEF GateTypeOK
  <1>5. QED BY <1>1, <1>2, <1>3, <1>4, FetchKept

LEMMA SubmitFormKept ==
  ASSUME GateInv, GateAssumption, SubmitForm
  PROVE  GateInv'
  <1>1. GateTypeOK /\ LostTokens /\ Awaited /\ OfThePerson
    BY DEF GateInv
  <1>2. /\ calls' = Append(calls, Call("create", TRUE))
        /\ UNCHANGED <<account, state, wanted, ranFor, stored, refreshing, belongs, created>>
    BY DEF SubmitForm, client, tokens
  <1>3. AsMany(calls)
    BY <1>1 DEF AsMany, GateTypeOK
  <1>4. /\ calls' \in Seq(CallRecord)
        /\ \A j \in DOMAIN calls : j \in DOMAIN calls' /\ calls'[j] = calls[j]
    BY <1>1, <1>2, <1>3, SentIsLast
  <1>5. GateTypeOK' /\ LostTokens'
    BY <1>1, <1>2, <1>4 DEF GateTypeOK, LostTokens
  <1>6. Awaited' /\ OfThePerson'
    BY <1>1, <1>2, <1>4 DEF Awaited, OfThePerson
  <1>7. QED BY <1>5, <1>6 DEF GateInv

\* The refresh takes the user of the tokens along.
LEMMA StartRefreshKept ==
  ASSUME GateInv, StartRefresh
  PROVE  GateInv'
  <1>1. GateTypeOK /\ LostTokens /\ Awaited /\ OfThePerson
    BY DEF GateInv
  <1>2. /\ refreshing' = stored
        /\ UNCHANGED <<account, state, wanted, ranFor, calls, stored, belongs, created>>
    BY DEF StartRefresh, client
  <1>3. GateTypeOK' /\ LostTokens'
    BY <1>1, <1>2 DEF GateTypeOK, LostTokens
  <1>4. Awaited' /\ OfThePerson'
    BY <1>1, <1>2 DEF Awaited, OfThePerson
  <1>5. QED BY <1>3, <1>4 DEF GateInv

\* What is stored is the refresh's, and so is the token of what is sent again.
\* It is the account's only if the account's was stored before.
LEMMA RefreshSucceedsKept ==
  ASSUME GateInv, GateAssumption, RefreshSucceeds
  PROVE  GateInv'
  <1>1. GateTypeOK /\ LostTokens /\ Awaited /\ OfThePerson
    BY DEF GateInv
  <1>2. PICK again \in SUBSET {i \in DOMAIN calls : calls[i].has = Nobody /\ ~calls[i].done} :
            calls' = [i \in DOMAIN calls |->
                         [calls[i] EXCEPT !.user = IF i \in again THEN refreshing ELSE @]]
    BY DEF RefreshSucceeds
  <1>3. /\ stored' = refreshing /\ refreshing # Nobody /\ refreshing' = Nobody
        /\ UNCHANGED <<account, state, wanted, ranFor, belongs, created>>
    BY DEF RefreshSucceeds, client
  <1>4. calls \in Seq(CallRecord) /\ refreshing \in Person
    BY <1>1 DEF GateTypeOK
  <1>5. ASSUME NEW j \in DOMAIN calls
        PROVE  /\ calls'[j] \in CallRecord
               /\ calls'[j].done = calls[j].done
               /\ calls'[j].has = calls[j].has
               /\ calls'[j].user \in {calls[j].user, refreshing}
    <2>1. calls[j] \in CallRecord
      BY <1>4
    <2>2. PICK user \in Person :
              /\ user \in {calls[j].user, refreshing}
              /\ calls'[j] = [calls[j] EXCEPT !.user = user]
      <3>1. CASE j \in again
        BY <1>2, <1>4, <3>1
      <3>2. CASE j \notin again
        BY <1>2, <2>1, <3>2 DEF CallRecord
      <3>3. QED BY <3>1, <3>2
    <2>3. QED BY <2>1, <2>2 DEF CallRecord
  <1>6. DOMAIN calls' = DOMAIN calls /\ calls' \in Seq(CallRecord)
    <2>1. DOMAIN calls' = DOMAIN calls
      BY <1>2
    <2>2. DOMAIN calls = 1 .. Len(calls) /\ Len(calls) \in Nat
      BY <1>4
    <2>3. calls' = [j \in 1 .. Len(calls) |-> calls'[j]]
      BY <1>2, <2>2
    <2>4. \A j \in 1 .. Len(calls) : calls'[j] \in CallRecord
      BY <1>5, <2>2
    <2>5. QED BY <2>1, <2>2, <2>3, <2>4
  <1>7. GateTypeOK'
    BY <1>1, <1>3, <1>4, <1>6 DEF GateTypeOK, Person
  <1>8. LostTokens' /\ Awaited'
    BY <1>1, <1>3, <1>6 DEF LostTokens, Awaited
  <1>9. OfThePerson'
    <2>1. SUFFICES ASSUME ranFor = TRUE, account # Nobody, refreshing = account
                   PROVE  OfThePerson'
      BY <1>3 DEF OfThePerson
    <2>2. stored = account /\ wanted \in DOMAIN calls
      BY <1>1, <2>1 DEF LostTokens, Awaited
    <2>3. /\ calls'[wanted].done = calls[wanted].done
          /\ calls'[wanted].has = calls[wanted].has
          /\ calls'[wanted].user \in {calls[wanted].user, account}
      BY <1>5, <2>1, <2>2
    <2>4. QED BY <1>1, <1>3, <2>1, <2>2, <2>3 DEF OfThePerson
  <1>10. QED BY <1>7, <1>8, <1>9 DEF GateInv

LEMMA RefreshFailsKept ==
  ASSUME GateInv, GateAssumption, RefreshFails
  PROVE  GateInv'
  <1>1. /\ refreshing' = Nobody
        /\ UNCHANGED <<state, wanted, ranFor, calls, belongs, created>>
    BY DEF RefreshFails
  <1>2. CASE ForgetTokens
    BY <1>1, <1>2, ForgottenKept DEF Person
  <1>3. CASE UNCHANGED <<account, stored>>
    <2>1. GateTypeOK /\ LostTokens /\ Awaited /\ OfThePerson
      BY DEF GateInv
    <2>2. GateTypeOK' /\ LostTokens'
      BY <1>1, <1>3, <2>1 DEF GateTypeOK, LostTokens, Person
    <2>3. Awaited' /\ OfThePerson'
      BY <1>1, <1>3, <2>1 DEF Awaited, OfThePerson
    <2>4. QED BY <2>2, <2>3 DEF GateInv
  <1>4. QED BY <1>2, <1>3 DEF RefreshFails

\* The server looks at a call.
LEMMA ServeKept ==
  ASSUME GateInv, GateAssumption, NEW i, Serve(i)
  PROVE  GateInv'
  <1>1. GateTypeOK /\ LostTokens /\ Awaited /\ OfThePerson
    BY DEF GateInv
  <1>2. /\ i \in DOMAIN calls
        /\ calls[i].user # Nobody
        /\ belongs' = IF calls[i].kind = "create" THEN belongs \cup {calls[i].user}
                      ELSE belongs
        /\ calls' = [calls EXCEPT ![i].has = calls[i].user \in belongs']
        /\ UNCHANGED <<account, state, wanted, ranFor, stored, refreshing, created>>
    BY DEF Serve, client, tokens
  <1>3. calls \in Seq(CallRecord) /\ calls[i] \in CallRecord
    BY <1>1, <1>2 DEF GateTypeOK
  <1>4. calls[i].user \in Account
    BY <1>2, <1>3 DEF CallRecord, Person
  <1>5. PICK answer \in BOOLEAN : answer = (calls[i].user \in belongs')
    <2>1. (calls[i].user \in belongs') = TRUE \/ (calls[i].user \in belongs') = FALSE
      OBVIOUS
    <2>2. QED BY <2>1, Zenon
  <1>6. calls' = [calls EXCEPT ![i].has = answer]
    BY <1>2, <1>5
  <1>7. belongs \subseteq belongs' /\ belongs' \subseteq Account
    BY <1>1, <1>2, <1>4 DEF GateTypeOK
  <1>8. /\ calls' \in Seq(CallRecord)
        /\ DOMAIN calls' = DOMAIN calls
        /\ calls'[i].done = calls[i].done
        /\ calls'[i].user = calls[i].user
        /\ calls'[i].has = answer
        /\ \A j \in DOMAIN calls : j # i => calls'[j] = calls[j]
    <2>1. [calls[i] EXCEPT !.has = answer] \in CallRecord
      BY <1>3, Zenon DEF CallRecord
    <2>2. calls' = [calls EXCEPT ![i] = [calls[i] EXCEPT !.has = answer]]
      BY <1>6
    <2>3. calls'[i] = [calls[i] EXCEPT !.has = answer]
      BY <1>2, <1>3, <2>2
    <2>4. /\ calls'[i].done = calls[i].done
          /\ calls'[i].user = calls[i].user
          /\ calls'[i].has = answer
      BY <1>3, <2>3 DEF CallRecord
    <2>5. /\ calls' \in Seq(CallRecord)
          /\ DOMAIN calls' = DOMAIN calls
          /\ \A j \in DOMAIN calls : j # i => calls'[j] = calls[j]
      BY <1>2, <1>3, <2>1, <2>2
    <2>6. QED BY <2>4, <2>5
  <1>9. GateTypeOK' /\ LostTokens' /\ Awaited'
    BY <1>1, <1>2, <1>7, <1>8 DEF GateTypeOK, LostTokens, Awaited
  <1>10. OfThePerson'
    <2>1. SUFFICES ASSUME ranFor = TRUE, account # Nobody, stored = account
                   PROVE  OfThePerson'
      BY <1>2 DEF OfThePerson
    <2>2. wanted \in DOMAIN calls
      BY <1>1, <2>1 DEF Awaited
    <2>3. CASE wanted # i
      BY <1>1, <1>2, <1>8, <2>1, <2>2, <2>3 DEF OfThePerson
    <2>4. CASE wanted = i
      <3>1. ~calls[wanted].done => calls[i].user = account
        BY <1>1, <2>1, <2>4 DEF OfThePerson
      <3>2. ~calls[wanted].done /\ account \in created => answer = TRUE
        BY <1>1, <1>5, <1>7, <3>1 DEF GateTypeOK
      <3>3. QED BY <1>1, <1>2, <1>8, <2>1, <2>4, <3>1, <3>2 DEF OfThePerson
    <2>5. QED BY <2>3, <2>4
  <1>11. QED BY <1>9, <1>10 DEF GateInv

\* Steps that touch neither the calls nor the tokens, and add nobody to those
\* whose form has succeeded.
LEMMA ElsewhereKept ==
  ASSUME GateInv,
         UNCHANGED <<account, state, wanted, ranFor, calls, stored, refreshing>>,
         belongs' \subseteq Account, created' \subseteq belongs', created' \subseteq created
  PROVE  GateInv'
  <1>1. GateTypeOK /\ LostTokens /\ Awaited /\ OfThePerson
    BY DEF GateInv
  <1>2. GateTypeOK' /\ LostTokens' /\ Awaited'
    BY <1>1 DEF GateTypeOK, LostTokens, Awaited
  <1>3. OfThePerson'
    BY <1>1 DEF OfThePerson
  <1>4. QED BY <1>2, <1>3 DEF GateInv

\* The answer with the organizations, if it is the one that is waited for.
LEMMA ListArrivesKept ==
  ASSUME GateInv, GateAssumption, NEW i \in DOMAIN calls, NEW outcome,
         ListArrives(i, outcome), ~calls[i].done,
         \/ outcome = Failed
         \/ calls[i].has # Nobody /\ outcome = Ready(calls[i].user, calls[i].has)
  PROVE  GateInv'
  <1>1. GateTypeOK /\ LostTokens /\ Awaited /\ OfThePerson
    BY DEF GateInv
  <1>2. /\ state' = IF wanted = i THEN outcome ELSE state
        /\ calls' = Settled(i)
        /\ UNCHANGED <<account, wanted, ranFor, stored, refreshing, belongs, created>>
    BY DEF ListArrives, Expected, tokens
  <1>3. /\ calls' \in Seq(CallRecord)
        /\ DOMAIN calls' = DOMAIN calls
        /\ calls'[i].done = TRUE
        /\ \A j \in DOMAIN calls : j # i => calls'[j] = calls[j]
    BY <1>1, <1>2, SettledCalls DEF AsMany
  <1>4. calls[i] \in CallRecord
    BY <1>1 DEF GateTypeOK
  <1>5. /\ outcome \in StateRecord
        /\ outcome.type = "ready" => /\ calls[i].has # Nobody
                                     /\ outcome.owner = calls[i].user
                                     /\ outcome.has = calls[i].has
    <2>1. CASE outcome = Failed
      BY <2>1 DEF Failed, StateRecord, Person
    <2>2. CASE calls[i].has # Nobody /\ outcome = Ready(calls[i].user, calls[i].has)
      <3>1. calls[i].user \in Person /\ calls[i].has \in BOOLEAN
        BY <1>4, <2>2 DEF CallRecord
      <3>2. QED BY <2>2, <3>1 DEF Ready, StateRecord
    <2>3. QED BY <2>1, <2>2
  <1>6. GateTypeOK' /\ LostTokens' /\ Awaited'
    BY <1>1, <1>2, <1>3, <1>5 DEF GateTypeOK, LostTokens, Awaited
  <1>7. OfThePerson'
    <2>1. CASE wanted = i
      BY <1>1, <1>2, <1>3, <1>5, <2>1 DEF OfThePerson
    <2>2. CASE wanted # i
      BY <1>1, <1>2, <1>3, <2>2 DEF OfThePerson, Awaited
    <2>3. QED BY <2>1, <2>2
  <1>8. QED BY <1>6, <1>7 DEF GateInv

\* The form has succeeded, and the state of the person is fetched anew.
LEMMA FormSucceedsKept ==
  ASSUME GateInv, GateAssumption, NEW i \in DOMAIN calls, FormSucceeds(i)
  PROVE  GateInv'
  <1>1. GateTypeOK /\ LostTokens
    BY DEF GateInv
  <1>2. /\ created' = (created \cup {calls[i].user}) \cap belongs
        /\ Fetch(Settled(i), TRUE)
        /\ UNCHANGED <<account, ranFor, stored, refreshing, belongs>>
    BY DEF FormSucceeds, tokens
  <1>3. AsMany(Settled(i))
    BY <1>1, SettledCalls
  <1>4. /\ belongs' \subseteq Account /\ created' \subseteq belongs'
        /\ ranFor' \in BOOLEAN \cup {Nobody}
    BY <1>1, <1>2 DEF GateTypeOK
  <1>5. QED BY <1>1, <1>2, <1>3, <1>4, FetchKept

LEMMA FormFailsKept ==
  ASSUME GateInv, GateAssumption, NEW i \in DOMAIN calls, FormFails(i)
  PROVE  GateInv'
  <1>1. GateTypeOK /\ LostTokens /\ Awaited /\ OfThePerson
    BY DEF GateInv
  <1>2. /\ calls' = Settled(i)
        /\ UNCHANGED <<account, state, wanted, ranFor, stored, refreshing, belongs, created>>
    BY DEF FormFails, client, tokens
  <1>3. /\ calls' \in Seq(CallRecord)
        /\ DOMAIN calls' = DOMAIN calls
        /\ calls'[i].done = TRUE
        /\ \A j \in DOMAIN calls : j # i => calls'[j] = calls[j]
    BY <1>1, <1>2, SettledCalls DEF AsMany
  <1>4. GateTypeOK' /\ LostTokens' /\ Awaited'
    BY <1>1, <1>2, <1>3 DEF GateTypeOK, LostTokens, Awaited
  <1>5. OfThePerson'
    <2>1. CASE wanted = i
      BY <1>1, <1>2, <1>3, <2>1 DEF OfThePerson
    <2>2. CASE wanted # i
      BY <1>1, <1>2, <1>3, <2>2 DEF OfThePerson, Awaited
    <2>3. QED BY <2>1, <2>2
  <1>6. QED BY <1>4, <1>5 DEF GateInv

LEMMA AnswerKept ==
  ASSUME GateInv, GateAssumption, NEW i, TakeAnswer(i)
  PROVE  GateInv'
  <1>1. i \in DOMAIN calls /\ ~calls[i].done
    BY DEF TakeAnswer
  <1>2. CASE calls[i].has # Nobody /\ ListArrives(i, Ready(calls[i].user, calls[i].has))
    BY <1>1, <1>2, ListArrivesKept
  <1>3. CASE FormSucceeds(i)
    BY <1>1, <1>3, FormSucceedsKept
  <1>4. CASE ListArrives(i, Failed)
    BY <1>1, <1>4, ListArrivesKept
  <1>5. CASE FormFails(i)
    BY <1>1, <1>5, FormFailsKept
  <1>6. QED BY <1>2, <1>3, <1>4, <1>5 DEF TakeAnswer

LEMMA GateInvKept == GateInv /\ [GateNext]_gateVars => GateInv'
  <1>. SUFFICES ASSUME GateInv, [GateNext]_gateVars PROVE GateInv'
    OBVIOUS
  <1>. USE GateAssumption
  <1>1. GateTypeOK
    BY DEF GateInv
  <1>2. CASE RunEffect
    BY <1>2, RunEffectKept
  <1>3. CASE Redirect
    BY <1>1, <1>3, ElsewhereKept DEF Redirect, GateTypeOK, tokens
  <1>4. ASSUME NEW user \in Account, LogIn(user) PROVE GateInv'
    BY <1>4, LogInKept
  <1>5. ASSUME NEW user \in Account, JoinElsewhere(user) \/ LeaveElsewhere(user) PROVE GateInv'
    <2>1. UNCHANGED <<account, state, wanted, ranFor, calls, stored, refreshing>>
      BY <1>5 DEF JoinElsewhere, LeaveElsewhere, client, tokens
    <2>2. belongs' \subseteq Account /\ created' \subseteq belongs' /\ created' \subseteq created
      BY <1>1, <1>5 DEF JoinElsewhere, LeaveElsewhere, GateTypeOK
    <2>3. QED BY <2>1, <2>2, ElsewhereKept
  <1>6. CASE LogOut
    BY <1>1, <1>6, ForgottenKept DEF LogOut, GateTypeOK
  <1>7. CASE Retry \/ SubmitForm
    BY <1>7, RetryKept, SubmitFormKept
  <1>8. CASE StartRefresh \/ RefreshSucceeds \/ RefreshFails
    BY <1>8, StartRefreshKept, RefreshSucceedsKept, RefreshFailsKept
  <1>9. ASSUME NEW i \in 1 .. MaxCalls, Serve(i) \/ TakeAnswer(i) PROVE GateInv'
    BY <1>9, ServeKept, AnswerKept
  <1>10. CASE UNCHANGED gateVars
    BY <1>1, <1>10, ElsewhereKept DEF gateVars, client, tokens, GateTypeOK
  <1>11. QED BY <1>2, <1>3, <1>4, <1>5, <1>6, <1>7, <1>8, <1>9, <1>10 DEF GateNext

LEMMA GateInvHolds == GateSpec => []GateInv
  <1>1. ASSUME GateInit PROVE GateInv
    <2>1. /\ account = Nobody /\ ranFor = Nobody /\ wanted = 0
          /\ state = Loading /\ calls = <<>>
          /\ stored = Nobody /\ refreshing = Nobody
          /\ belongs \subseteq Account /\ created = {}
      BY <1>1 DEF GateInit
    <2>2. calls \in Seq(CallRecord)
      BY <2>1, EmptySeq
    <2>3. GateTypeOK
      BY <2>1, <2>2 DEF GateTypeOK, Person, Loading, StateRecord
    <2>4. LostTokens /\ Awaited /\ OfThePerson
      BY <2>1 DEF LostTokens, Awaited, OfThePerson
    <2>5. QED BY <2>3, <2>4 DEF GateInv
  <1>2. QED BY <1>1, GateInvKept, PTL DEF GateSpec

\* Once the effect of the login has run, and as long as the tokens in the tab
\* are still those of the login, the routes decide on the organizations of the
\* person at the tab, and whoever has made one here and has not been removed is
\* not asked to make another (organization-membership-context.tsx: the id of
\* the last request, and the refetch that the form waits for;
\* api-auth-hooks.ts: whose token a call is sent with, and sent again with).
THEOREM OwnOrganizationsDecide == GateSpec => []OwnOrganizationsOnly
  <1>1. ASSUME GateInv PROVE OwnOrganizationsOnly
    <2>1. SUFFICES ASSUME isAuthenticated, ~EffectDue, stored = account, state.type = "ready"
                   PROVE  /\ state.owner = account
                          /\ account \in created => hasOrganization
      BY DEF OwnOrganizationsOnly
    <2>2. GateTypeOK /\ OfThePerson
      BY <1>1 DEF GateInv
    <2>3. ranFor = TRUE /\ account # Nobody
      BY <2>1, <2>2, NotDue, GateAssumption DEF isAuthenticated
    <2>4. QED BY <2>1, <2>2, <2>3 DEF OfThePerson, hasOrganization
  <1>2. QED BY <1>1, GateInvHolds, PTL

-----------------------------------------------------------------------------
(***************************************************************************)
(* PART 2.  TicketList.                                                    *)
(*                                                                         *)
(* The keys of two requests may be the same, so what tells the answers     *)
(* apart is the cancellation: at most the last request is not cancelled,   *)
(* and it is not as long as the effects have last run for an enabled list. *)
(* The invariant ties what the hook holds to that request, and so to the   *)
(* values the effects have last run with (`ran'), not to those of the      *)
(* render: in between, the page may ask for something else already.        *)
(***************************************************************************)
Key == [filter : Filter, page : Nat, retry : Nat]

Sent == [key : Key, cancelled : BOOLEAN, settled : BOOLEAN]

Rendered == [page : Nat, filter : Filter, enabled : BOOLEAN, key : Key]

ListTypeOK ==
    /\ page \in Nat /\ filter \in Filter /\ enabled \in BOOLEAN
    /\ requestedPage \in Nat /\ retryKey \in Nat
    /\ result \in [request : Nat, totalPages : Nat] \cup {None}
    /\ error \in Nat \cup {None}
    /\ isFetching \in BOOLEAN
    /\ ran \in Rendered \cup {NotRun}
    /\ requests \in Seq(Sent)

EarlierAreCancelled ==
    \A i \in 1 .. Len(requests) : i # Latest => requests[i].cancelled = TRUE

HeldIsLatest ==
    ran.enabled = TRUE =>
        /\ Len(requests) # 0
        /\ requests[Latest].cancelled = FALSE
        /\ requests[Latest].settled = FALSE => isFetching = TRUE /\ error = None
        /\ requests[Latest].settled = TRUE =>
               /\ isFetching = FALSE
               /\ \/ error = None /\ result # None /\ result.request = Latest
                  \/ error = Latest /\ result = None

NothingHeld ==
    ran.enabled # TRUE =>
        /\ \A i \in 1 .. Len(requests) : requests[i].cancelled = TRUE
        /\ error = None /\ result = None

ListInv == ListTypeOK /\ EarlierAreCancelled /\ HeldIsLatest /\ NothingHeld

\* Cancelling keeps the requests, and leaves none that is wanted.
LEMMA CancelledType ==
  ASSUME ListTypeOK
  PROVE  /\ Cancelled(requests) \in Seq(Sent)
         /\ Len(Cancelled(requests)) = Len(requests)
         /\ \A i \in 1 .. Len(requests) : Cancelled(requests)[i].cancelled = TRUE
  <1>1. requests \in Seq(Sent) /\ DOMAIN requests = 1 .. Len(requests) /\ Len(requests) \in Nat
    BY DEF ListTypeOK
  <1>2. ASSUME NEW i \in 1 .. Len(requests)
        PROVE  /\ [requests[i] EXCEPT !.cancelled = TRUE] \in Sent
               /\ [requests[i] EXCEPT !.cancelled = TRUE].cancelled = TRUE
    <2>1. requests[i] \in Sent
      BY <1>1, <1>2
    <2>2. QED BY <2>1 DEF Sent
  <1>3. Cancelled(requests) = [i \in 1 .. Len(requests) |-> [requests[i] EXCEPT !.cancelled = TRUE]]
    BY <1>1 DEF Cancelled
  <1>4. Cancelled(requests) \in Seq(Sent) /\ Len(Cancelled(requests)) = Len(requests)
    BY <1>1, <1>2, <1>3
  <1>5. QED BY <1>2, <1>3, <1>4

\* What the caller or the person asks for leaves alone what the hook holds.
LEMMA AskedKept ==
  ASSUME ListInv,
         page' \in Nat, filter' \in Filter, enabled' \in BOOLEAN,
         requestedPage' \in Nat, retryKey' \in Nat,
         UNCHANGED <<held, ran, requests>>
  PROVE  ListInv'
  <1>1. ListTypeOK'
    BY DEF ListInv, ListTypeOK, held, NotRun
  <1>2. EarlierAreCancelled' /\ HeldIsLatest' /\ NothingHeld'
    BY DEF ListInv, EarlierAreCancelled, HeldIsLatest, NothingHeld, Latest, held
  <1>3. QED BY <1>1, <1>2 DEF ListInv

LEMMA NotRunIsDisabled ==
  ASSUME TicketListAssumption
  PROVE  NotRun.enabled # TRUE
  BY DEF TicketListAssumption, NotRun

\* A page that is mounted anew holds nothing, and no effect has run.
LEMMA OtherOrganizationKept ==
  ASSUME ListInv, TicketListAssumption, OtherOrganization
  PROVE  ListInv'
  <1>1. ListTypeOK
    BY DEF ListInv
  <1>2. /\ filter' \in Filter /\ page' = 1 /\ requestedPage' = 1 /\ retryKey' = 0
        /\ result' = None /\ error' = None /\ isFetching' = enabled
        /\ ran' = NotRun /\ requests' = Cancelled(requests) /\ enabled' = enabled
    BY DEF OtherOrganization
  <1>3. /\ requests' \in Seq(Sent) /\ Len(requests') = Len(requests)
        /\ \A i \in 1 .. Len(requests) : requests'[i].cancelled = TRUE
    BY <1>1, <1>2, CancelledType
  <1>4. ListTypeOK'
    BY <1>1, <1>2, <1>3 DEF ListTypeOK, NotRun
  <1>5. ran'.enabled # TRUE
    BY <1>2, NotRunIsDisabled
  <1>6. EarlierAreCancelled' /\ HeldIsLatest' /\ NothingHeld'
    BY <1>2, <1>3, <1>5 DEF EarlierAreCancelled, HeldIsLatest, NothingHeld
  <1>7. QED BY <1>4, <1>6 DEF ListInv

\* The effects start a request, stop them all, or have nothing to do: then they
\* have last run for the same key.
LEMMA RunEffectsKept ==
  ASSUME ListInv, TicketListAssumption, RunEffects
  PROVE  ListInv'
  <1>1. ListTypeOK
    BY DEF ListInv
  <1>2. requestKey \in Key /\ Render \in Rendered /\ Render.enabled = enabled
    BY <1>1 DEF ListTypeOK, requestKey, Key, Render, Rendered
  <1>3. /\ ran' = Render /\ filter' = filter /\ enabled' = enabled /\ retryKey' = retryKey
        /\ page' = PageAfterFilter /\ SetRequestedPage
    BY DEF RunEffects
  <1>4. /\ page' \in Nat /\ requestedPage' \in Nat /\ ran' \in Rendered
        /\ ran'.enabled = enabled
    BY <1>1, <1>2, <1>3 DEF ListTypeOK, PageAfterFilter, SetRequestedPage
  <1>5. /\ Cancelled(requests) \in Seq(Sent)
        /\ Len(Cancelled(requests)) = Len(requests)
        /\ \A i \in 1 .. Len(requests) : Cancelled(requests)[i].cancelled = TRUE
    BY <1>1, CancelledType
  <1>6. CASE enabled = TRUE /\ StartFetch
    <2> DEFINE new == [key |-> requestKey, cancelled |-> FALSE, settled |-> FALSE]
    <2>1. /\ requests' = Append(Cancelled(requests), new)
          /\ isFetching' = TRUE /\ error' = None /\ result' = result
      BY <1>6 DEF StartFetch
    <2>2. new \in Sent /\ new.cancelled = FALSE /\ new.settled = FALSE
      BY <1>2 DEF Sent
    <2>3. /\ requests' \in Seq(Sent) /\ Len(requests') = Len(requests) + 1
          /\ Len(requests) \in Nat
          /\ requests'[Len(requests')] = new
          /\ \A i \in 1 .. Len(requests) : requests'[i] = Cancelled(requests)[i]
      <3>. HIDE DEF new
      <3>1. Len(requests) \in Nat
        BY <1>1 DEF ListTypeOK
      <3>2. QED BY <1>5, <2>1, <2>2, <3>1
    <2>. HIDE DEF new
    <2>4. ListTypeOK'
      BY <1>1, <1>3, <1>4, <2>1, <2>3 DEF ListTypeOK
    <2>5. EarlierAreCancelled'
      <3>1. \A i \in 1 .. Len(requests') : i # Len(requests') => i \in 1 .. Len(requests)
        BY <2>3
      <3>2. QED BY <1>5, <2>3, <3>1 DEF EarlierAreCancelled, Latest
    <2>6. HeldIsLatest'
      BY <2>1, <2>2, <2>3 DEF HeldIsLatest, Latest
    <2>7. NothingHeld'
      BY <1>4, <1>6 DEF NothingHeld
    <2>8. QED BY <2>4, <2>5, <2>6, <2>7 DEF ListInv
  <1>7. CASE enabled = FALSE /\ StopFetching
    <2>1. /\ requests' = Cancelled(requests)
          /\ isFetching' = FALSE /\ error' = None /\ result' = None
      BY <1>7 DEF StopFetching
    <2>2. ListTypeOK'
      BY <1>1, <1>3, <1>4, <1>5, <2>1 DEF ListTypeOK
    <2>3. EarlierAreCancelled' /\ NothingHeld'
      BY <1>5, <2>1 DEF EarlierAreCancelled, NothingHeld
    <2>4. HeldIsLatest'
      BY <1>4, <1>7 DEF HeldIsLatest
    <2>5. QED BY <2>2, <2>3, <2>4 DEF ListInv
  <1>8. CASE ~MustFetch /\ UNCHANGED <<held, requests>>
    <2>1. ran'.enabled = ran.enabled
      BY <1>4, <1>8 DEF MustFetch
    <2>2. ListTypeOK'
      BY <1>1, <1>3, <1>4, <1>8 DEF ListTypeOK, held
    <2>3. EarlierAreCancelled' /\ HeldIsLatest' /\ NothingHeld'
      BY <1>8, <2>1 DEF ListInv, EarlierAreCancelled, HeldIsLatest, NothingHeld, Latest, held
    <2>4. QED BY <2>2, <2>3 DEF ListInv
  <1>9. enabled = TRUE \/ enabled = FALSE
    BY <1>1 DEF ListTypeOK
  <1>10. \/ MustFetch /\ enabled /\ StartFetch
         \/ MustFetch /\ ~enabled /\ StopFetching
         \/ ~MustFetch /\ UNCHANGED <<held, requests>>
    BY DEF RunEffects
  <1>11. QED BY <1>6, <1>7, <1>8, <1>9, <1>10

\* A settled request is the same request.
LEMMA SettleType ==
  ASSUME ListInv, NEW i, Settle(i)
  PROVE  /\ i \in 1 .. Len(requests) /\ requests[i].settled = FALSE
         /\ requests' \in Seq(Sent)
         /\ Len(requests') = Len(requests)
         /\ requests'[i].settled = TRUE /\ requests'[i].cancelled = requests[i].cancelled
         /\ \A j \in 1 .. Len(requests) : j # i => requests'[j] = requests[j]
         /\ EarlierAreCancelled'
  <1>1. requests \in Seq(Sent) /\ EarlierAreCancelled
    BY DEF ListInv, ListTypeOK
  <1>2. /\ i \in 1 .. Len(requests) /\ ~requests[i].settled
        /\ requests' = [requests EXCEPT ![i].settled = TRUE]
    BY <1>1 DEF Settle
  <1>3. requests[i] \in Sent
    BY <1>1, <1>2
  <1>4. requests[i].settled \in BOOLEAN
    BY <1>3 DEF Sent
  <1>5. requests[i].settled = FALSE
    BY <1>2, <1>4
  <1>6. PICK over \in Sent : /\ over = [requests[i] EXCEPT !.settled = TRUE]
                             /\ over.settled = TRUE
                             /\ over.cancelled = requests[i].cancelled
    <2>1. /\ [requests[i] EXCEPT !.settled = TRUE] \in Sent
          /\ [requests[i] EXCEPT !.settled = TRUE].settled = TRUE
          /\ [requests[i] EXCEPT !.settled = TRUE].cancelled = requests[i].cancelled
      BY <1>3 DEF Sent
    <2>2. QED BY <2>1, Zenon
  <1>7. requests' = [requests EXCEPT ![i] = over]
    BY <1>2, <1>6
  <1>8. /\ requests' \in Seq(Sent) /\ Len(requests') = Len(requests)
        /\ requests'[i] = over
        /\ \A j \in 1 .. Len(requests) : j # i => requests'[j] = requests[j]
    <2>1. requests' \in Seq(Sent) /\ Len(requests') = Len(requests)
      <3>1. requests \in Seq(Sent) /\ i \in 1 .. Len(requests)
        BY <1>1, <1>2
      <3>2. QED BY <1>7, <3>1
    <2>2. i \in DOMAIN requests /\ DOMAIN requests = 1 .. Len(requests)
      BY <1>1, <1>2
    <2>3. requests'[i] = over
      BY <1>7, <2>2, Zenon
    <2>4. \A j \in 1 .. Len(requests) : j # i => requests'[j] = requests[j]
      BY <1>7, <2>2
    <2>5. QED BY <2>1, <2>3, <2>4
  <1>9. EarlierAreCancelled'
    <2>1. \A j \in 1 .. Len(requests) : requests'[j].cancelled = requests[j].cancelled
      BY <1>6, <1>8
    <2>2. QED BY <1>1, <1>8, <2>1 DEF EarlierAreCancelled, Latest
  <1>10. QED BY <1>2, <1>5, <1>6, <1>8, <1>9

\* A request that is not cancelled is the last, and what is held waits for it.
LEMMA WantedIsLatest ==
  ASSUME ListInv, NEW i, Settle(i), Wanted(i)
  PROVE  /\ i = Latest /\ ran.enabled = TRUE
         /\ requests'[Latest].settled = TRUE /\ requests'[Latest].cancelled = FALSE
         /\ error = None
  <1>1. /\ i \in 1 .. Len(requests) /\ requests[i].settled = FALSE
        /\ requests'[i].settled = TRUE /\ requests'[i].cancelled = requests[i].cancelled
    BY SettleType
  <1>2. ~requests[i].cancelled
    BY DEF Wanted
  <1>3. i = Latest
    BY <1>1, <1>2 DEF ListInv, EarlierAreCancelled
  <1>4. ran.enabled = TRUE
    BY <1>1, <1>2 DEF ListInv, NothingHeld
  <1>5. requests[Latest].cancelled = FALSE /\ error = None
    BY <1>1, <1>3, <1>4 DEF ListInv, HeldIsLatest
  <1>6. QED BY <1>1, <1>3, <1>4, <1>5

\* Any other answer changes nothing that is held.
LEMMA OthersKept ==
  ASSUME ListInv, NEW i, Settle(i), ~Wanted(i), UNCHANGED held
  PROVE  ListInv'
  <1>1. /\ i \in 1 .. Len(requests)
        /\ requests' \in Seq(Sent)
        /\ Len(requests') = Len(requests)
        /\ requests'[i].cancelled = requests[i].cancelled
        /\ \A j \in 1 .. Len(requests) : j # i => requests'[j] = requests[j]
        /\ EarlierAreCancelled'
    BY SettleType
  <1>2. UNCHANGED <<caller, asked, held, ran>>
    BY DEF Settle
  <1>3. requests[i].cancelled # FALSE
    BY DEF Wanted
  <1>4. ListTypeOK'
    BY <1>1, <1>2 DEF ListInv, ListTypeOK, caller, asked, held, NotRun
  <1>5. HeldIsLatest'
    <2>1. SUFFICES ASSUME ran.enabled = TRUE PROVE HeldIsLatest'
      BY <1>2 DEF HeldIsLatest
    <2>2. Len(requests) # 0 /\ requests[Latest].cancelled = FALSE
      BY <2>1 DEF ListInv, HeldIsLatest
    <2>3. Latest \in 1 .. Len(requests) /\ Latest # i
      <3>1. Latest # i
        BY <1>3, <2>2
      <3>2. Len(requests) \in Nat
        BY DEF ListInv, ListTypeOK
      <3>3. QED BY <2>2, <3>1, <3>2 DEF Latest
    <2>4. requests'[Latest'] = requests[Latest] /\ Latest' = Latest
      BY <1>1, <2>3 DEF Latest
    <2>5. QED BY <1>1, <1>2, <2>4 DEF ListInv, HeldIsLatest, held
  <1>6. NothingHeld'
    <2>1. \A j \in 1 .. Len(requests) : requests'[j].cancelled = requests[j].cancelled
      BY <1>1
    <2>2. QED BY <1>1, <1>2, <2>1 DEF ListInv, NothingHeld, held
  <1>7. QED BY <1>1, <1>4, <1>5, <1>6 DEF ListInv

\* The answer that is waited for is held, with its tickets or as an error.
LEMMA LatestKept ==
  ASSUME ListInv, TicketListAssumption, NEW i, Settle(i), Wanted(i),
         isFetching' = (isFetching /\ ~Wanted(i)),
         \/ /\ error' = error
            /\ \E n \in 0 .. Pages : result' = [request |-> i, totalPages |-> n]
         \/ error' = i /\ result' = None
  PROVE  ListInv'
  <1>1. /\ i \in 1 .. Len(requests)
        /\ requests' \in Seq(Sent)
        /\ Len(requests') = Len(requests)
        /\ EarlierAreCancelled'
    BY SettleType
  <1>2. /\ i = Latest /\ ran.enabled = TRUE
        /\ requests'[Latest].settled = TRUE /\ requests'[Latest].cancelled = FALSE
        /\ error = None
    BY WantedIsLatest
  <1>3. UNCHANGED <<caller, asked, ran>> /\ isFetching' = FALSE
    BY DEF Settle
  <1>4. i \in Nat /\ Latest' = Latest
    BY <1>1 DEF Latest, ListInv, ListTypeOK
  <1>5. \/ /\ error' = None /\ result' # None /\ result'.request = Latest
           /\ result' \in [request : Nat, totalPages : Nat]
        \/ error' = Latest /\ result' = None
    <2>1. ASSUME NEW n \in 0 .. Pages
          PROVE  /\ [request |-> i, totalPages |-> n] \in [request : Nat, totalPages : Nat]
                 /\ [request |-> i, totalPages |-> n] # None
                 /\ [request |-> i, totalPages |-> n].request = i
      BY <1>4 DEF TicketListAssumption
    <2>2. QED BY <1>2, <2>1
  <1>6. ListTypeOK'
    BY <1>1, <1>2, <1>3, <1>4, <1>5 DEF ListInv, ListTypeOK, caller, asked, NotRun
  <1>7. HeldIsLatest'
    BY <1>1, <1>2, <1>3, <1>4, <1>5 DEF HeldIsLatest
  <1>8. NothingHeld'
    BY <1>2, <1>3 DEF NothingHeld
  <1>9. QED BY <1>1, <1>6, <1>7, <1>8 DEF ListInv

LEMMA SucceedKept ==
  ASSUME ListInv, TicketListAssumption, NEW i, Succeed(i)
  PROVE  ListInv'
  <1>1. /\ Settle(i)
        /\ \E n \in 0 .. Pages :
               result' = IF Wanted(i) THEN [request |-> i, totalPages |-> n] ELSE result
        /\ isFetching' = (isFetching /\ ~Wanted(i))
        /\ error' = error
    BY DEF Succeed
  <1>2. CASE Wanted(i)
    <2>1. \E n \in 0 .. Pages : result' = [request |-> i, totalPages |-> n]
      BY <1>1, <1>2
    <2>2. QED BY <1>1, <1>2, <2>1, LatestKept
  <1>3. CASE ~Wanted(i)
    <2>1. isFetching' = isFetching
      BY <1>1, <1>3 DEF ListInv, ListTypeOK
    <2>2. UNCHANGED held
      BY <1>1, <1>3, <2>1 DEF held
    <2>3. QED BY <1>1, <1>3, <2>2, OthersKept
  <1>4. QED BY <1>2, <1>3

LEMMA FailKept ==
  ASSUME ListInv, TicketListAssumption, NEW i, Fail(i)
  PROVE  ListInv'
  <1>1. /\ Settle(i)
        /\ result' = IF Wanted(i) THEN None ELSE result
        /\ error' = IF Wanted(i) THEN i ELSE error
        /\ isFetching' = (isFetching /\ ~Wanted(i))
    BY DEF Fail
  <1>2. CASE Wanted(i)
    BY <1>1, <1>2, LatestKept
  <1>3. CASE ~Wanted(i)
    <2>1. isFetching' = isFetching
      BY <1>1, <1>3 DEF ListInv, ListTypeOK
    <2>2. UNCHANGED held
      BY <1>1, <1>3, <2>1 DEF held
    <2>3. QED BY <1>1, <1>3, <2>2, OthersKept
  <1>4. QED BY <1>2, <1>3

LEMMA ListInvKept == ListInv /\ [Next]_vars => ListInv'
  <1>. SUFFICES ASSUME ListInv, [Next]_vars PROVE ListInv'
    OBVIOUS
  <1>. USE TicketListAssumption
  <1>1. ListTypeOK
    BY DEF ListInv
  <1>2. CASE ChangePage
    <2>1. /\ currentResult # None
          /\ page' \in {requestedPage - 1, requestedPage + 1} \cap 1 .. currentResult.totalPages
          /\ UNCHANGED <<filter, enabled, asked, held, ran, requests>>
      BY <1>2 DEF ChangePage, HasData
    <2>2. currentResult = result /\ result # None
      BY <2>1 DEF currentResult
    <2>3. currentResult.totalPages \in Nat
      BY <1>1, <2>2 DEF ListTypeOK
    <2>4. page' \in Nat
      BY <2>1, <2>3
    <2>5. QED BY <1>1, <2>1, <2>4, AskedKept DEF ListTypeOK, asked
  <1>3. CASE ChangeFilter
    BY <1>1, <1>3, AskedKept DEF ChangeFilter, ListTypeOK, asked
  <1>4. CASE ChangeEnabled
    <2>1. /\ enabled' = ~enabled /\ enabled \in BOOLEAN
          /\ UNCHANGED <<page, filter, asked, held, ran, requests>>
      BY <1>1, <1>4 DEF ChangeEnabled, ListTypeOK
    <2>2. enabled' \in BOOLEAN
      BY <2>1
    <2>3. /\ page' \in Nat /\ filter' \in Filter
          /\ requestedPage' \in Nat /\ retryKey' \in Nat
          /\ UNCHANGED <<held, ran, requests>>
      BY <1>1, <2>1 DEF ListTypeOK, asked
    <2>4. QED BY <2>2, <2>3, AskedKept
  <1>5. CASE refetch
    BY <1>1, <1>5, AskedKept DEF refetch, ListTypeOK, caller
  <1>6. CASE OtherOrganization
    BY <1>6, OtherOrganizationKept
  <1>7. CASE RunEffects
    BY <1>7, RunEffectsKept
  <1>8. ASSUME NEW i \in 1 .. MaxRequests, Succeed(i) \/ Fail(i) PROVE ListInv'
    BY <1>8, SucceedKept, FailKept
  <1>9. CASE UNCHANGED vars
    BY <1>1, <1>9, AskedKept DEF vars, caller, asked, ListTypeOK
  <1>10. QED BY <1>2, <1>3, <1>4, <1>5, <1>6, <1>7, <1>8, <1>9 DEF Next

LEMMA ListInvInit == Init => ListInv
  <1> SUFFICES ASSUME Init PROVE ListInv
    OBVIOUS
  <1>1. /\ page = 1 /\ filter \in Filter /\ enabled \in BOOLEAN /\ requestedPage = 1
        /\ retryKey = 0 /\ result = None /\ error = None /\ isFetching = enabled
        /\ ran = NotRun /\ requests = <<>>
    BY DEF Init
  <1>2. requests \in Seq(Sent) /\ Len(requests) = 0
    BY <1>1, EmptySeq
  <1>3. ListTypeOK
    BY <1>1, <1>2 DEF ListTypeOK
  <1>4. ran.enabled # TRUE
    BY <1>1, NotRunIsDisabled, TicketListAssumption
  <1>5. EarlierAreCancelled
    BY <1>2 DEF EarlierAreCancelled
  <1>6. HeldIsLatest
    BY <1>4 DEF HeldIsLatest
  <1>7. NothingHeld
    BY <1>1, <1>2 DEF NothingHeld
  <1>8. QED BY <1>3, <1>5, <1>6, <1>7 DEF ListInv

\* Once the effects have run and the list is not loading, what is on display
\* belongs to the last request that was sent: tickets, or an error without
\* tickets; a list that is disabled has neither (use-tickets.ts: the clean-up
\* of the effect aborts the request before it, whatever it asked for).
THEOREM DisplayAnswersTheLast == Spec => []ShownIsAsked
  <1>1. ASSUME ListInv PROVE ShownIsAsked
    <2>1. SUFFICES ASSUME ~EffectsDue, ~isLoading
                   PROVE  CASE ~enabled -> error = None /\ currentResult = None
                            [] enabled /\ error # None ->
                                   error = Latest /\ currentResult = None
                            [] OTHER -> currentResult.request = Latest
      BY DEF ShownIsAsked
    <2>2. ListTypeOK /\ HeldIsLatest /\ NothingHeld
      BY <1>1 DEF ListInv
    <2>3. ran.enabled = enabled
      BY <2>1 DEF EffectsDue, Render
    <2>4. result = None => currentResult = None
      BY DEF currentResult
    <2>5. CASE enabled = FALSE
      BY <2>2, <2>3, <2>4, <2>5 DEF NothingHeld
    <2>6. CASE enabled = TRUE /\ error # None
      <3>1. requests[Latest].settled \in BOOLEAN
        <4>1. Latest \in 1 .. Len(requests)
          BY <2>2, <2>3, <2>6 DEF HeldIsLatest, ListTypeOK, Latest
        <4>2. requests[Latest] \in Sent
          BY <2>2, <4>1 DEF ListTypeOK
        <4>3. QED BY <4>2 DEF Sent
      <3>2. error = Latest /\ result = None
        BY <2>2, <2>3, <2>6, <3>1 DEF HeldIsLatest
      <3>3. QED BY <2>4, <2>6, <3>2
    <2>7. CASE enabled = TRUE /\ error = None
      <3>1. isFetching # TRUE /\ currentResult # None
        BY <2>1, <2>7 DEF isLoading
      <3>2. requests[Latest].settled \in BOOLEAN
        <4>1. Latest \in 1 .. Len(requests)
          BY <2>2, <2>3, <2>7 DEF HeldIsLatest, ListTypeOK, Latest
        <4>2. requests[Latest] \in Sent
          BY <2>2, <4>1 DEF ListTypeOK
        <4>3. QED BY <4>2 DEF Sent
      <3>3. requests[Latest].settled = TRUE
        BY <2>2, <2>3, <2>7, <3>1, <3>2 DEF HeldIsLatest
      <3>4. currentResult = result
        BY <3>1 DEF currentResult
      <3>5. result # None
        BY <2>4, <3>1
      <3>6. result.request = Latest
        BY <2>2, <2>3, <2>7, <3>3, <3>5 DEF HeldIsLatest
      <3>7. QED BY <2>7, <3>4, <3>6
    <2>8. QED BY <2>2, <2>5, <2>6, <2>7 DEF ListTypeOK
  <1>2. QED BY <1>1, ListInvInit, ListInvKept, PTL DEF Spec

-----------------------------------------------------------------------------
(***************************************************************************)
(* PART 3.  Nobody waits in vain.                                          *)
(*                                                                         *)
(* That both pages come to rest is a temporal property under fairness.     *)
(* What it rests on is not: whoever waits, waits for a call that is under  *)
(* way and whose answer ends the waiting, and the steps React takes by     *)
(* itself -- effects, redirections -- are bounded by a number that each of *)
(* them makes smaller.                                                     *)
(***************************************************************************)

\* The request that is awaited was made for what the effects have last seen.
LatestHasKey == ran.enabled = TRUE => Len(requests) # 0 /\ requests[Latest].key = ran.key

\* Once the effects have seen the page of the caller, the hook asks for it.
PageIsRequested == ran.page = page => requestedPage = page

\* A list that loads waits for an answer to what is asked for now.
LoadingIsAnswered ==
    ~EffectsDue =>
        /\ requestedPage = page
        /\ isLoading =>
              /\ Latest \in DOMAIN requests
              /\ requests[Latest].key = requestKey
              /\ Wanted(Latest) /\ ~requests[Latest].settled

\* How often the effects can still run before the person does something.
RendersLeft ==
    IF ~EffectsDue THEN 0 ELSE IF requestedPage = page /\ ~FilterIsNew THEN 1 ELSE 2

\* Every run of the effects leaves fewer to come.
RendersEnd == [][RunEffects => RendersLeft' < RendersLeft]_vars

LEMMA SettleKeepsKeys ==
  ASSUME ListInv, NEW i, Settle(i)
  PROVE  Latest' = Latest /\ \A j \in 1 .. Len(requests) : requests'[j].key = requests[j].key
  <1>1. requests \in Seq(Sent)
    BY DEF ListInv, ListTypeOK
  <1>2. /\ i \in DOMAIN requests /\ DOMAIN requests = 1 .. Len(requests)
        /\ requests' = [requests EXCEPT ![i].settled = TRUE]
    BY <1>1 DEF Settle
  <1>3. requests[i] \in Sent
    BY <1>1, <1>2
  <1>4. [requests[i] EXCEPT !.settled = TRUE].key = requests[i].key
    BY <1>3 DEF Sent
  <1>5. Len(requests') = Len(requests)
    BY SettleType
  <1>6. QED BY <1>2, <1>4, <1>5 DEF Latest

\* The effects ask for the page they have seen, or for the first: either way
\* for the one the caller holds from then on.
LEMMA EffectsRequestPage ==
  ASSUME ListInv, TicketListAssumption, PageIsRequested, RunEffects
  PROVE  /\ requestedPage' = page' /\ ran' = Render /\ ran'.page = page
         /\ filter' = filter /\ ran'.filter = filter /\ ~FilterIsNew'
         /\ ~FilterIsNew => page' = page
         /\ enabled' = enabled /\ retryKey' = retryKey
  <1>1. /\ ran' = Render /\ filter' = filter /\ enabled' = enabled /\ retryKey' = retryKey
        /\ page' = PageAfterFilter /\ SetRequestedPage
    BY DEF RunEffects
  <1>2. ran'.page = page /\ ran'.filter = filter
    BY <1>1 DEF Render
  <1>3. ~FilterIsNew'
    BY <1>1, <1>2 DEF FilterIsNew
  <1>4. CASE FilterIsNew
    BY <1>1, <1>2, <1>3, <1>4 DEF PageAfterFilter, SetRequestedPage
  <1>5. CASE ~FilterIsNew
    BY <1>1, <1>2, <1>3, <1>5 DEF PageAfterFilter, SetRequestedPage, PageIsRequested
  <1>6. QED BY <1>4, <1>5

WaitInv == ListInv /\ LatestHasKey /\ PageIsRequested

LEMMA WaitInvKeptByEffects ==
  ASSUME WaitInv, TicketListAssumption, RunEffects
  PROVE  LatestHasKey' /\ PageIsRequested'
  <1>1. ListInv /\ PageIsRequested /\ LatestHasKey
    BY DEF WaitInv
  <1>2. /\ requestedPage' = page' /\ ran' = Render /\ enabled' = enabled
    BY <1>1, EffectsRequestPage
  <1>3. ran'.key = requestKey /\ ran'.enabled = enabled
    BY <1>2 DEF Render
  <1>4. LatestHasKey'
    <2>1. CASE enabled /\ StartFetch
      <3> DEFINE new == [key |-> requestKey, cancelled |-> FALSE, settled |-> FALSE]
      <3>1. requests' = Append(Cancelled(requests), new)
        BY <2>1 DEF StartFetch
      <3>2. Cancelled(requests) \in Seq(Sent) /\ Len(Cancelled(requests)) \in Nat
        BY <1>1, CancelledType DEF ListInv
      <3>3. new \in Sent /\ new.key = requestKey
        BY <1>1 DEF Sent, requestKey, Key, ListInv, ListTypeOK
      <3> HIDE DEF new
      <3>4. Len(requests') # 0 /\ requests'[Len(requests')] = new
        BY <3>1, <3>2, <3>3
      <3>5. QED BY <1>3, <3>3, <3>4 DEF LatestHasKey, Latest
    <2>2. CASE ~enabled
      BY <1>3, <2>2 DEF LatestHasKey
    <2>3. CASE ~MustFetch /\ UNCHANGED <<held, requests>>
      BY <1>1, <1>3, <2>3 DEF LatestHasKey, MustFetch, Latest
    <2>4. QED BY <2>1, <2>2, <2>3 DEF RunEffects
  <1>5. QED BY <1>2, <1>4 DEF PageIsRequested

LEMMA WaitInvKept == WaitInv /\ [Next]_vars => WaitInv'
  <1>. SUFFICES ASSUME WaitInv, [Next]_vars PROVE LatestHasKey' /\ PageIsRequested'
    BY ListInvKept DEF WaitInv
  <1>. USE TicketListAssumption
  <1>1. ListInv /\ LatestHasKey /\ PageIsRequested /\ ListTypeOK
    BY DEF WaitInv, ListInv
  <1>2. CASE ChangePage
    <2>1. /\ ~EffectsDue
          /\ page' \in {requestedPage - 1, requestedPage + 1}
          /\ UNCHANGED <<filter, enabled, asked, held, ran, requests>>
      BY <1>2 DEF ChangePage, MayAsk
    <2>2. ran.page = page
      BY <2>1 DEF EffectsDue, Render
    <2>3. page' # ran'.page
      BY <1>1, <2>1, <2>2 DEF PageIsRequested, ListTypeOK
    <2>4. QED BY <1>1, <2>1, <2>3 DEF LatestHasKey, PageIsRequested, Latest
  <1>3. CASE ChangeFilter \/ ChangeEnabled \/ refetch
    BY <1>1, <1>3 DEF ChangeFilter, ChangeEnabled, refetch, asked, caller,
                      LatestHasKey, PageIsRequested, Latest
  <1>4. CASE OtherOrganization
    <2>1. page' = 1 /\ requestedPage' = 1 /\ ran' = NotRun
      BY <1>4 DEF OtherOrganization
    <2>2. QED BY <2>1, NotRunIsDisabled DEF LatestHasKey, PageIsRequested
  <1>5. CASE RunEffects
    BY <1>5, WaitInvKeptByEffects
  <1>6. ASSUME NEW i \in 1 .. MaxRequests, Succeed(i) \/ Fail(i)
        PROVE  LatestHasKey' /\ PageIsRequested'
    <2>1. Settle(i) /\ UNCHANGED <<caller, asked, ran>>
      BY <1>6 DEF Succeed, Fail, Settle
    <2>2. /\ Latest' = Latest /\ Len(requests') = Len(requests)
          /\ \A j \in 1 .. Len(requests) : requests'[j].key = requests[j].key
      BY <1>1, <2>1, SettleKeepsKeys, SettleType
    <2>3. Len(requests) # 0 => Latest \in 1 .. Len(requests)
      BY <1>1 DEF ListTypeOK, Latest
    <2>4. LatestHasKey'
      BY <1>1, <2>1, <2>2, <2>3 DEF LatestHasKey
    <2>5. QED BY <1>1, <2>1, <2>4 DEF PageIsRequested, caller, asked
  <1>7. CASE UNCHANGED vars
    BY <1>1, <1>7 DEF vars, caller, asked, LatestHasKey, PageIsRequested, Latest
  <1>8. QED BY <1>2, <1>3, <1>4, <1>5, <1>6, <1>7 DEF Next

LEMMA WaitInvHolds == Spec => []WaitInv
  <1>1. ASSUME Init PROVE WaitInv
    <2>1. ListInv
      BY <1>1, ListInvInit
    <2>2. ran = NotRun /\ page = 1 /\ requestedPage = 1
      BY <1>1 DEF Init
    <2>3. QED BY <2>1, <2>2, NotRunIsDisabled, TicketListAssumption
              DEF WaitInv, LatestHasKey, PageIsRequested
  <1>2. QED BY <1>1, WaitInvKept, PTL DEF Spec

\* A list that loads waits for a request that has been made for what is asked
\* for now, that nobody has aborted and that has not been answered; and the hook
\* asks for the page the caller holds (use-tickets.ts: the effects and isLoading).
\* So no click leaves a spinner behind that no answer will take away.
THEOREM SpinnersAreAnswered == Spec => []LoadingIsAnswered
  <1>1. ASSUME WaitInv PROVE LoadingIsAnswered
    <2>1. SUFFICES ASSUME ~EffectsDue
                   PROVE  /\ requestedPage = page
                          /\ isLoading =>
                                /\ Latest \in DOMAIN requests
                                /\ requests[Latest].key = requestKey
                                /\ Wanted(Latest) /\ ~requests[Latest].settled
      BY DEF LoadingIsAnswered
    <2>2. ran.page = page /\ ran.enabled = enabled /\ ran.key = requestKey
      BY <2>1 DEF EffectsDue, Render
    <2>3. ListTypeOK /\ HeldIsLatest /\ LatestHasKey /\ PageIsRequested
      BY <1>1 DEF WaitInv, ListInv
    <2>4. ASSUME isLoading
          PROVE  /\ Latest \in DOMAIN requests
                 /\ requests[Latest].key = requestKey
                 /\ Wanted(Latest) /\ ~requests[Latest].settled
      <3>1. enabled = TRUE /\ error = None /\ (isFetching = TRUE \/ currentResult = None)
        BY <2>3, <2>4 DEF isLoading, ListTypeOK
      <3>2. /\ Latest \in DOMAIN requests /\ requests[Latest] \in Sent
            /\ requests[Latest].key = requestKey /\ requests[Latest].cancelled = FALSE
        BY <2>2, <2>3, <3>1 DEF LatestHasKey, HeldIsLatest, ListTypeOK, Latest
      <3>3. requests[Latest].settled # TRUE
        <4>1. SUFFICES ASSUME requests[Latest].settled = TRUE PROVE FALSE
          OBVIOUS
        <4>2. isFetching = FALSE /\ result # None /\ result.request = Latest
          <5>1. Latest # None
            BY <2>3, TicketListAssumption DEF TicketListAssumption, ListTypeOK, Latest
          <5>2. QED BY <2>2, <2>3, <3>1, <4>1, <5>1 DEF HeldIsLatest
        <4>3. currentResult = result
          BY <3>2, <4>2 DEF currentResult
        <4>4. QED BY <3>1, <4>2, <4>3
      <3>4. QED BY <3>2, <3>3 DEF Sent, Wanted
    <2>5. QED BY <2>2, <2>3, <2>4 DEF PageIsRequested
  <1>2. QED BY <1>1, WaitInvHolds, PTL

\* The effects run at most twice in a row -- a change of the filter resets the
\* page, and a change of the page is asked for -- and then have seen everything
\* (use-tickets.ts: three effects that set each other's state): they do not
\* drive each other in a circle.
THEOREM EffectsComeToRest == Spec => RendersEnd
  <1>1. ASSUME WaitInv, RunEffects PROVE RendersLeft' < RendersLeft
    <2>1. ListInv /\ PageIsRequested /\ EffectsDue
      BY <1>1 DEF WaitInv, RunEffects
    <2>2. /\ requestedPage' = page' /\ ran' = Render /\ ~FilterIsNew'
          /\ filter' = filter /\ enabled' = enabled /\ retryKey' = retryKey
          /\ ~FilterIsNew => page' = page
      BY <1>1, <2>1, EffectsRequestPage, TicketListAssumption
    <2>3. RendersLeft' \in {0, 1}
      BY <2>2 DEF RendersLeft
    <2>4. CASE requestedPage = page /\ ~FilterIsNew
      <3>1. Render' = Render
        BY <2>2, <2>4 DEF Render, requestKey
      <3>2. RendersLeft' = 0
        BY <2>2, <3>1 DEF RendersLeft, EffectsDue
      <3>3. RendersLeft = 1
        BY <2>1, <2>4 DEF RendersLeft
      <3>4. QED BY <3>2, <3>3
    <2>5. CASE ~(requestedPage = page /\ ~FilterIsNew)
      <3>1. RendersLeft = 2
        BY <2>1, <2>5 DEF RendersLeft
      <3>2. QED BY <2>3, <3>1
    <2>6. QED BY <2>4, <2>5
  <1>2. QED BY <1>1, WaitInvHolds, PTL DEF RendersEnd

\* The call the provider waits for: a list, not answered.
WaitingForList ==
    state.type = "loading" /\ wanted # 0 =>
        wanted \in DOMAIN calls /\ calls[wanted].kind = "list" /\ calls[wanted].done = FALSE

\* Who waits for the organizations waits for a call under way, and for one with
\* their own token while that is the one that is stored.
WaitersAreAnswered ==
    isAuthenticated /\ ~EffectDue /\ state.type = "loading" =>
        /\ wanted \in DOMAIN calls
        /\ calls[wanted].kind = "list" /\ ~calls[wanted].done
        /\ stored = account => calls[wanted].user = account

\* How often the routes can still redirect before something else happens.
RedirectsLeft ==
    IF route = Destination THEN 0
    ELSE IF route = "login" /\ isAuthenticated /\ HasNone THEN 2 ELSE 1

\* Every redirection leaves fewer to come.
RedirectsEnd == [][Redirect => RedirectsLeft' < RedirectsLeft]_gateVars

LEMMA FetchIsAwaited ==
  ASSUME GateTypeOK, NEW s, AsMany(s), NEW form \in BOOLEAN, Fetch(s, form)
  PROVE  WaitingForList'
  <1>1. wanted' \in DOMAIN calls' /\ calls'[wanted'] = Call("list", form)
    BY SentIsLast DEF Fetch
  <1>2. QED BY <1>1, CallType DEF WaitingForList

\* One call that is over leaves the others as they are.
LEMMA OthersGoOn ==
  ASSUME GateTypeOK, GateAssumption, NEW i \in DOMAIN calls, calls' = Settled(i),
         state' = state, wanted' = wanted, wanted # i, WaitingForList
  PROVE  WaitingForList'
  BY SettledCalls DEF WaitingForList

LEMMA ServedGoesOn ==
  ASSUME GateTypeOK, NEW i, Serve(i), WaitingForList
  PROVE  WaitingForList'
  <1>1. calls \in Seq(CallRecord) /\ i \in DOMAIN calls
    BY DEF GateTypeOK, Serve
  <1>2. PICK has : calls' = [calls EXCEPT ![i].has = has]
    BY DEF Serve
  <1>3. DOMAIN calls' = DOMAIN calls
    BY <1>1, <1>2
  <1>4. ASSUME NEW j \in DOMAIN calls
        PROVE  calls'[j].kind = calls[j].kind /\ calls'[j].done = calls[j].done
    <2>1. calls[j] \in CallRecord
      BY <1>1
    <2>2. CASE j = i
      BY <1>1, <1>2, <2>1, <2>2 DEF CallRecord
    <2>3. CASE j # i
      BY <1>1, <1>2, <2>3
    <2>4. QED BY <2>2, <2>3
  <1>5. QED BY <1>3, <1>4 DEF WaitingForList, Serve, client

\* The refresh changes the token of a call, and nothing else.
LEMMA RefreshedGoesOn ==
  ASSUME GateTypeOK, RefreshSucceeds, WaitingForList
  PROVE  WaitingForList'
  <1>1. PICK again :
            calls' = [i \in DOMAIN calls |->
                         [calls[i] EXCEPT !.user = IF i \in again THEN refreshing ELSE @]]
    BY DEF RefreshSucceeds
  <1>2. ASSUME NEW j \in DOMAIN calls
        PROVE  calls'[j].kind = calls[j].kind /\ calls'[j].done = calls[j].done
    <2>1. calls[j] \in CallRecord
      BY DEF GateTypeOK
    <2>2. PICK user : calls'[j] = [calls[j] EXCEPT !.user = user]
      BY <1>1
    <2>3. QED BY <2>1, <2>2 DEF CallRecord
  <1>3. DOMAIN calls' = DOMAIN calls
    BY <1>1
  <1>4. QED BY <1>2, <1>3 DEF WaitingForList, RefreshSucceeds, client

\* An answer ends the waiting if it is the one that is waited for, and leaves
\* it alone if it is not.
LEMMA AnsweredGoesOn ==
  ASSUME GateTypeOK, GateAssumption, NEW i, TakeAnswer(i), WaitingForList
  PROVE  WaitingForList'
  <1>1. i \in DOMAIN calls
    BY DEF TakeAnswer
  <1>2. ASSUME NEW outcome, ListArrives(i, outcome), outcome.type # "loading"
        PROVE  WaitingForList'
    <2>1. /\ state' = IF wanted = i THEN outcome ELSE state
          /\ calls' = Settled(i) /\ wanted' = wanted
      BY <1>2 DEF ListArrives, Expected
    <2>2. CASE wanted = i
      BY <1>2, <2>1, <2>2 DEF WaitingForList
    <2>3. CASE wanted # i
      BY <1>1, <2>1, <2>3, OthersGoOn
    <2>4. QED BY <2>2, <2>3
  <1>3. CASE FormSucceeds(i)
    <2>1. Fetch(Settled(i), TRUE)
      BY <1>3 DEF FormSucceeds
    <2>2. AsMany(Settled(i))
      BY <1>1, SettledCalls
    <2>3. QED BY <2>1, <2>2, FetchIsAwaited
  <1>4. CASE FormFails(i)
    <2>1. /\ calls' = Settled(i) /\ wanted' = wanted /\ state' = state
          /\ calls[i].kind = "create"
      BY <1>4 DEF FormFails, client
    <2>2. CASE wanted = i
      <3>1. wanted # 0
        BY <1>1, <2>2 DEF GateTypeOK
      <3>2. state.type # "loading"
        BY <2>1, <2>2, <3>1 DEF WaitingForList
      <3>3. QED BY <2>1, <3>2 DEF WaitingForList
    <2>3. CASE wanted # i
      BY <1>1, <2>1, <2>3, OthersGoOn
    <2>4. QED BY <2>2, <2>3
  <1>5. Failed.type # "loading" /\ Ready(calls[i].user, calls[i].has).type # "loading"
    BY DEF Failed, Ready
  <1>6. QED BY <1>2, <1>3, <1>4, <1>5 DEF TakeAnswer

LEMMA WaitingKept == GateInv /\ WaitingForList /\ [GateNext]_gateVars => WaitingForList'
  <1>. SUFFICES ASSUME GateInv, WaitingForList, [GateNext]_gateVars PROVE WaitingForList'
    OBVIOUS
  <1>1. GateTypeOK
    BY DEF GateInv
  <1>. USE GateAssumption
  <1>2. AsMany(calls)
    BY <1>1 DEF AsMany, GateTypeOK
  <1>3. CASE RunEffect
    <2>1. CASE isAuthenticated
      BY <1>1, <1>2, <1>3, <2>1, FetchIsAwaited DEF RunEffect
    <2>2. CASE ~isAuthenticated
      BY <1>3, <2>2 DEF RunEffect, ForgetOrganizations, WaitingForList
    <2>3. QED BY <2>1, <2>2
  <1>4. CASE \/ Redirect \/ LogOut \/ StartRefresh \/ RefreshFails
             \/ \E user \in Account :
                    LogIn(user) \/ JoinElsewhere(user) \/ LeaveElsewhere(user)
    BY <1>4 DEF Redirect, LogOut, StartRefresh, RefreshFails, LogIn, JoinElsewhere,
                LeaveElsewhere, client, WaitingForList
  <1>5. CASE Retry
    BY <1>1, <1>2, <1>5, FetchIsAwaited DEF Retry
  <1>6. CASE SubmitForm
    <2>1. calls' = Append(calls, Call("create", TRUE)) /\ wanted' = wanted /\ state' = state
      BY <1>6 DEF SubmitForm, client
    <2>2. \A j \in DOMAIN calls : j \in DOMAIN calls' /\ calls'[j] = calls[j]
      BY <1>1, <1>2, <2>1, SentIsLast
    <2>3. QED BY <2>1, <2>2 DEF WaitingForList
  <1>7. ASSUME NEW i \in 1 .. MaxCalls, Serve(i) \/ TakeAnswer(i) PROVE WaitingForList'
    BY <1>1, <1>7, ServedGoesOn, AnsweredGoesOn
  <1>8. CASE RefreshSucceeds
    BY <1>1, <1>8, RefreshedGoesOn
  <1>9. CASE UNCHANGED gateVars
    BY <1>9 DEF gateVars, client, WaitingForList
  <1>10. QED BY <1>3, <1>4, <1>5, <1>6, <1>7, <1>8, <1>9 DEF GateNext

\* A person who sees the organizations load waits for a call that has not been
\* answered or given up (organization-membership-context.tsx: the loading state
\* is set where a fetch starts, and requestIdRef is overtaken only by another
\* fetch).  Its token is their own as long as the tokens of their login are the
\* ones in the tab (api-auth-hooks.ts: addAuthHeader and performRefresh).
THEOREM WaitersAreHeard == GateSpec => []WaitersAreAnswered
  <1>1. ASSUME GateInit PROVE WaitingForList
    BY <1>1 DEF GateInit, WaitingForList
  <1>2. ASSUME GateInv, WaitingForList PROVE WaitersAreAnswered
    <2>1. SUFFICES ASSUME isAuthenticated, ~EffectDue, state.type = "loading"
                   PROVE  /\ wanted \in DOMAIN calls
                          /\ calls[wanted].kind = "list" /\ ~calls[wanted].done
                          /\ stored = account => calls[wanted].user = account
      BY DEF WaitersAreAnswered
    <2>2. GateTypeOK /\ Awaited /\ OfThePerson
      BY <1>2 DEF GateInv
    <2>3. ranFor = TRUE /\ account # Nobody
      BY <2>1, <2>2, NotDue, GateAssumption DEF isAuthenticated
    <2>4. wanted \in DOMAIN calls
      BY <2>2, <2>3 DEF Awaited
    <2>5. wanted # 0
      BY <2>2, <2>4 DEF GateTypeOK
    <2>6. calls[wanted].kind = "list" /\ calls[wanted].done = FALSE
      BY <1>2, <2>1, <2>5 DEF WaitingForList
    <2>7. stored = account => calls[wanted].user = account
      BY <2>2, <2>3, <2>6 DEF OfThePerson
    <2>8. QED BY <2>4, <2>6, <2>7
  <1>3. QED BY <1>1, <1>2, GateInvHolds, WaitingKept, PTL DEF GateSpec

\* The routes redirect at most twice in a row, from the login by the application
\* to the form, and then stay: the login, the application and the onboarding
\* (routes/login.tsx, routes/app/route.tsx, routes/onboarding/organization.tsx)
\* never send a person back and forth.
THEOREM RedirectionsEnd == GateSpec => RedirectsEnd
  <1>1. ASSUME Redirect PROVE RedirectsLeft' < RedirectsLeft
    <2>1. /\ route # Destination /\ route' = Destination
          /\ isAuthenticated' = isAuthenticated
          /\ HasNone' = HasNone /\ hasOrganization' = hasOrganization
      BY <1>1 DEF Redirect, isAuthenticated, HasNone, hasOrganization
    <2>2. ~(HasNone /\ hasOrganization)
      BY DEF HasNone, hasOrganization
    <2>3. RedirectsLeft' \in {0, 1, 2}
      BY DEF RedirectsLeft
    <2>4. CASE route = "login" /\ isAuthenticated /\ HasNone
      <3>1. RedirectsLeft = 2
        BY <2>1, <2>4 DEF RedirectsLeft
      <3>2. route' = "app"
        BY <2>1, <2>4 DEF Destination
      <3>3. RedirectsLeft' \in {0, 1}
        BY <3>2 DEF RedirectsLeft
      <3>4. QED BY <3>1, <3>3
    <2>5. CASE ~(route = "login" /\ isAuthenticated /\ HasNone)
      <3>1. RedirectsLeft = 1
        BY <2>1, <2>5 DEF RedirectsLeft
      <3>2. Destination' = route'
        BY <2>1, <2>2, <2>5 DEF Destination
      <3>3. RedirectsLeft' = 0
        BY <3>2 DEF RedirectsLeft
      <3>4. QED BY <3>1, <3>3
    <2>6. QED BY <2>4, <2>5
  <1>2. QED BY <1>1, PTL DEF GateSpec, RedirectsEnd

=============================================================================
