# A formal model of Ticket Flow

TLA+ specifications of the parts of Ticket Flow where steps of several people,
requests or timers meet, checked with TLC on small instances and, for the
properties that matter most, proved with TLAPS for instances of any size.

Everything is translated from the source under `src/`. `PROJECT.json` names for
every definition the lines it stands for, for every run its properties, and for
every property a change of the model, of the kind a plausible mistake in the
code would be, that breaks it (the definitions introduced by "Plausible slip").

## The system

Ticket Flow is an issue tracker for organizations: a JSON API (Hono, Prisma,
SQLite, `apps/api`), a single-page client (React, `apps/web`) and shared schemas
(`packages/shared`).

| Component | State | Operations | What is hard | What makes it correct |
| --- | --- | --- | --- | --- |
| Membership and roles | `organization_members`, `audit_logs` | create an organization, change a role, remove a member | the role is read by a middleware, the work is done later in a transaction | an organization keeps an owner; whoever acts is entitled at the commit; the log tells the whole story |
| Invitations | `organization_invitations` | invite, expire, invite again, accept, accept with registration | four operations race for one address; mail and log follow the commit | never member and invited; a link works once; the role granted is the newest one offered |
| Mail queue | an array, a flag, a set of timers in the process | enqueue, send, retry, reset | retry timers wake the worker or meet it awake; everything is lost with the process | one worker; every mail is handled; at most four attempts |
| Tickets | `tickets`, `audit_logs` | create, patch, status, priority, assignee, delete | one operation reads before its transaction, one writes its log entry after it | the history replays to the row; no way back from closed or deleted |
| Comments | `comments`, `audit_logs` | create, edit, delete | rights depend on author and role, and roles change | only authors speak; deletions by authors and admins; complete history |
| Accounts and sessions | `users`, `refresh_tokens` | register, log in, log out, refresh | a refresh looks the token up outside of its transaction | one working token per session; what has ended stays ended |
| Authentication client | two tokens and a promise in a tab | API call, shared refresh, log in, log out | answers, timeouts and aborts in any order | one refresh at a time, no reuse of spent tokens, no endless loop |
| Rate limiter | a map of counters | count, refuse, sweep, forget | the end of a window, entries that outlive it, a chain of two limiters | less than twice the limit in any window length; nobody is refused for an old entry; sweeping is invisible |
| Listings and dashboard | none; they read the tables | five paged listings, the dashboard | rows come and go between two pages, or between a page and its total | what stays in a list is seen by who walks through it; the parts of a dashboard agree |
| Logged values | none | accept or reject the values of an entry | two bounded searches that rely on each other | exactly the bounded trees are let in |
| Web data hooks | the result of a hook, the list of the own organizations | fetch, change page or filter, log in, send a form | effects run after the render, answers arrive out of order, a call carries the tokens that are stored when it is sent | what is shown was asked for last, by the one who is there; the display comes to rest |
| Pending submit | a promise in a ref | execute, reset, unmount, mount anew | the action may throw before there is a promise | never two submissions at once |
| Passwords, rendering, mocks, scripts, CI | | | | not modelled |

Components meet in three ways. The services share the database: a ticket or a
comment depends on the memberships at the time of its transaction. The
controllers call across: an invitation commits, then enqueues a mail, then writes
an audit entry. And the client talks to the API over a network that may lose an
answer after its effect. Inside the client, the routes and pages read what the hooks
hold, and the hooks read what the pages pass in, one render later.

## What a step is

* **A transaction is one step.** SQLite has one writer at a time, and
  `db.$transaction` rolls back when its callback throws, so a transaction takes
  effect as a whole or not at all. `return {success: false}` inside it commits,
  with nothing changed. Every `await` outside a transaction separates two steps.
* **A request is a record with a stage.** The middleware is a step of its own
  (*scoped*), which keeps the role it has read; then the service runs. What the
  code reads before a transaction or writes after it has stages of its own:
  *read*, *committed*, *mailed*.
* **JavaScript is single-threaded.** In the queue and in the client, code from
  one event to the next `await` of the network is one step, including whatever a
  settled promise wakes up in the same task.
* **React renders, then runs effects.** A change of state or of a property is one
  step, the effects it makes due are another, all of them together and with the
  values of their render. Answers may arrive in between; a further click may
  not, since React runs the effects that are due before it handles one.
* **Failure.** A transaction may fail at any time (`TransactionFails`); the
  process may die at any time (`Crash`, or its requests are lost): rows stay,
  the requests and the mail queue go.
* **Input.** The body of a request is chosen by an existential quantifier in the
  action that looks at it, from everything the schemas admit.

Names, texts, hashes and clocks are abstracted: an e-mail address is the person
who owns it, a token a name, an expiry an event that may happen at any time.
The database triggers that protect the last owner are left out: the services
count the owners themselves, and the model shows that this is enough.

## Modules

```
Roles ----> Membership ----> Invitations      MailDelivery <== MailQueue
   |             :               |                                 |
   |             :      OrganizationProofs                  MailQueueProofs
   |             v
   +---> OrganizationRoles ----> Tickets  ----> TicketsProofs
                           ----> Comments ----> CommentsProofs

Sessions <== AuthSessions ----> AuthClient    FixedWindow <== RateLimiter
                                     |                             |
                                 AuthProofs                RateLimiterProofs

PagedReads   Dashboard   PendingSubmit   AuditValues      TicketList   OrganizationGate
     |           |             |              |               |               |
     +----------- StandaloneProofs -----------+               +-- WebProofs --+
```

`---->` is EXTENDS, `<==` is "implements", and so is the dotted line, for each
organization; `MC*` instantiates a module for TLC, and the proofs below a module
EXTEND it.
The modules of the last line stand alone: the listings, the dashboard and what is
let into the log are read-only parts of the API, the others parts of the client.
Modules that share no state and call each other nowhere have an instance in
common: a behaviour is about one part, chosen at the start, while the others
stand still. MCStandalone holds the limiters, the dashboard, the logged values, the
hook of a form and the gate, for their safety; MCWeb holds the list of tickets and
the gate, for what comes to rest.

* **Roles**: the hierarchy of roles and the two decisions taken on it.
* **Membership**: `EnterOrganizationScope` is the middleware,
  `updateOrganizationMemberRole` and `deleteOrganizationMember` the services.
  The state is the rows, the requests and the audit log. `JoinOrganization` is
  an arbitrary accepted invitation.
* **OrganizationRoles** is what tickets and comments see of that, in the one
  organization they are about: the role of each person, of which one may change
  at any time. **Tickets** and **Comments** extend it.
* **Invitations** extends Membership with `organization_invitations`.
  `createOrganizationInvitation` commits, then `enqueueInvitationEmail` and
  `recordInvitationAudit` follow. `acceptOrganizationInvitation` implements
  `JoinOrganization`. `issued` and `accepted` are history variables.
* **MailDelivery** says what the queue promises: a mail taken is pending until
  it is sent, given up after four attempts, or lost. **MailQueue** is
  `invitation-mail-queue.ts` line by line: queue, `isProcessing`, timers. The
  send of an item that is under way survives `resetInvitationMailQueue`.
* **Tickets**: `createTicket` and `recordTicketCreationAuditLog` are two steps,
  and so are `readTicketForAssignee` and `updateTicketAssignee`, as in the code;
  the other operations are one transaction each. After the transaction the
  controller counts the comments of the ticket for its answer (*counting*), and
  may fail at that; every request ends in the status the controller gives the outcome, and
  remembers whether something has failed underneath. The comparison of the old
  status or priority in the UPDATE of `updateTicketStatus` and
  `updateTicketPriority` follows a read in the same transaction; it cannot fail
  and is not in the model. Memberships change arbitrarily (`ChangeMembership`, a
  step of OrganizationRoles).
* **Comments**: one transaction per operation. `updateComment` and
  `deleteComment` do not look at the ticket, so `DeleteTicket` does not stop
  them, here as there.
* **Sessions** is the promise: opened once, ended once. **AuthSessions** is
  `auth-service.ts`: `findRefreshToken` and `rotateRefreshToken` are the two
  steps of a refresh, with an arbitrary client. `issued` records which token
  replaced which. Accounts are never deleted by the code, so the look-up of the
  user between the two steps always succeeds.
* **AuthClient** extends the server with one browser tab. `StartCall`,
  `AnswerCall`, `GiveUp`, `JoinRefresh`, `StartRefresh`, `RefreshSucceeds` and
  `RefreshFailsHere` are `apiClient` and `handleUnauthorizedResponse`; the forms
  and `AuthProvider` are the rest. Tokens are kept in memory only, so tabs do
  not share them.

* **FixedWindow** says what the limiter promises: windows that open with a
  request, let a fixed number in and close by themselves. **RateLimiter** is
  `rate-limiter.ts` with the chain of two limiters of the routes: the Map whose
  entries stay until a request finds it too large, the clock that may tick
  between the two limiters, the restart. `recent` is a history variable: the
  times at which each key has counted a request within the last window length.
* **PagedReads** is all five listings: their order, how a row moves in them,
  what is read in which order and whether in one transaction, the limits of
  `pagination.ts`, and a client that walks from page to page. A row is removed
  from the place it is at (`RowLeaves`), or becomes the first (`RowChanges`).
  `steady` and `left` record what a walk can be expected to find.
* **Dashboard** is the three counting queries in one transaction and the
  arithmetic on their results, for all statuses and priorities, while tickets
  change. `InUse` are the priorities tickets have in an instance.
* **AuditValues** is the schema of a logged value: `getMaxDepth` and
  `hasCircularReference`, as recursive functions, on every graph of the objects.
* **TicketList** is `use-tickets.ts` with a caller and the page around it. The
  caller hears of a reset of the page and passes the new page in, one render
  later (`PageAfterFilter`), which is what the hook's `onPageChange` is for. The
  page of the tickets has no filters yet and does not pass that callback; a page
  with filters has to, or the list never comes to rest on the page it holds.
* **OrganizationGate** is the provider of the own organizations, the three
  routes that decide with it, the form of the first organization, and a server
  that sees a call some time before its answer arrives. A call carries the token
  that is stored when it is sent (`addAuthHeader`), and who that belongs to
  (`stored`) is not always who is logged in (`account`): a refresh takes the user
  of its tokens along (`refreshing`), may succeed after a logout and the next
  login, and then replaces the tokens and sends calls again with them. One that
  fails clears whatever is stored, and with it the login. Memberships come and go
  elsewhere (`JoinElsewhere`, `LeaveElsewhere`). A login or logout takes
  a call to the server and so longer than an effect; `isAuthLoading` is left out,
  since the first look-up of the user finds no token in a new tab. The form's
  button is disabled by what the page on screen has sent; a page comes anew with
  every fetch. That the form of an earlier login can take the person to the
  application and back, which also brings the page anew, would need two calls
  more than an instance has.
* **PendingSubmit** is `use-pending-submit.ts` with an action that resolves,
  rejects or throws, and a component that is unmounted and mounted anew. A new
  mount has fresh refs: a submission left over from an earlier one is still under
  way, and the new hook knows nothing of it and may start its own.

## Runs

| Run | Instance | What it shows |
| --- | --- | --- |
| `membership` | three people, one organization, three requests | `EveryOrganizationHasOwner` and `RemovalsEntitledAtCommit` under races with the middleware; `AuditTrailReplays`: the log replays to the rows |
| `invitations` | three people, one organization, one member request, two invitation requests | `NoInvitationForMember`, `TokenAcceptedOnce`, `JoinsByNewestGrant`; `AuditNamesTheParties`: late entries name the parties; refinement of Membership |
| `mail_queue` | three mails, any number of failures | `OneWorker`, `AttemptsBounded`; `EveryMailHandled` (liveness); refinement of MailDelivery |
| `tickets` | one ticket, two people, three requests | `HistoryReplays`, `ServerErrorsAreFailures`, `MovesForward`, `AssigneesAreMembers` |
| `comments` | one comment, two tickets, two people, three requests | `CommentHistoryComplete`, `OnlyAuthorsSpeak`, `EntitledAtCommit` |
| `auth_sessions` | two people, four tokens, three refreshes | `OneTokenPerSession`, `RotatedOnce`; refinement of Sessions |
| `auth_client` | one tab, two calls, three refreshes, two tokens | `OneRefreshAtATime`, `HeldTokenWorks`, `RefreshesBounded`; `EveryCallSettles` (liveness) |
| `listings` | five listings with five rows and pages of two | `WalksAreComplete`: which walks miss nothing, and when |
| `standalone_parts` | two users, one organization, windows of three, a clock up to eight; a dashboard over two tickets; every graph of four objects; six runs of an action; a tab with two people and four calls | `LessThanTwiceTheLimit`, `RefusalsAreDeserved`, refinement of FixedWindow; `SummariesAgree`; `AcceptsBoundedTrees`; `OneSubmissionAtATime`; `OwnOrganizationsOnly` |
| `web_pages` | two filters, two pages, five requests; a tab with two people and three calls | `ShownIsAsked`; `ListSettles`, `GateSettles` (liveness) |
| `assignee_note` | the instance of `tickets` | `DepartedAssigneesAreResolved` is violated, see below |
| `pending_submit_reset` | six runs of an action | `ResetClears` is violated, see below |

**Why the bounds are enough.** No step touches two tickets, comments or mails in
a way that depends on both, except the order of the mail queue, which needs two
first attempts and a retry between them: three mails. A race needs two requests,
a row to race for needs a third that makes it. Two people are the actor and the
other one, and each goes through every role the properties tell apart. A request
one more than there are calls lets `RefreshesBounded` fail if it can. Bounds are
the sizes of the constants and a few counters; no state constraint cuts
behaviours off.

* `MaxMemberId` limits how many rows of members are ever made: four in
  `membership`, three in `invitations`, which are an owner and somebody who
  joins, is removed and joins again.
* `MaxTime`, of the limiters, is two windows of three milliseconds and two
  more: a burst at the end of one window and at the start of the next fits in.
  Two counters exceed `SweepThreshold`, so that a sweep can happen at any request;
  the limits are two and three, so that either limiter of a chain can be the one
  that refuses.
* `MaxTake` and `MaxSkip`, of the listings, are three and two: five rows make
  three pages of two, and the third is beyond what may be skipped.
* Two tickets of the dashboard make every count zero, one or two. They share one
  priority (`InUse`): priorities are counted the way statuses are, of which there
  are three, and the theorem `DashboardsAddUp` holds for all four of them.
* Two tokens, in `auth_client`, are one that is spent and one that replaces it.
  Two logins and a refresh between them need a third; the proofs of
  AuthProofs hold for any number.
* `MaxRequests`, of the list of tickets, is five: a first request, a filter that
  resets the page, which takes two, and a click or a retry. `MaxCalls` is four for
  what the gate shows: the list, the form and the list it awaits, and a login of
  somebody else in between. It is three for where the gate takes people, which
  does not depend on whose calls these are. `MaxRuns`, of the hook of a form, is six: failed, thrown
  and successful runs, before and after a reset.
* Four objects and two levels, of the logged values, hold a path one too long and
  cycles of every length up to beyond the limit.

A finished request is not used again, so requests bound the length of a behaviour,
and `CHECK_DEADLOCK FALSE` is there because it ends when they are used up.

**What the properties are about.** `HistoryReplays` says: per ticket and field,
every entry starts from the value the one before has left and the last one left
the value of the row, although the entry of an assignment records the value read
*before* the transaction and the entry of the creation may come late or never.
`ServerErrorsAreFailures`: a 500 is given only if something failed underneath,
never as the answer to two requests that met; the conflict of two assignments is
the case the code has to map. `CommentHistoryComplete`: the entries of a comment
are one creation, edits that chain, and a deletion if it is gone.
`HeldTokenWorks`: the refresh token the client holds works unless the client
itself has handed it in and not seen the answer.
`WalksAreComplete` says what a walk over pages is worth: it shows every row that
stays, as long as no row leaves the listing, and, for comments, as long as none
comes between a total and its page, which are read in any order. `ShownIsAsked`:
at rest the list shows what the latest request has brought, even if an earlier
one asked the same.

`OwnOrganizationsOnly` speaks of a person whose tokens are the ones in the tab.
That is an excuse the code needs: a refresh of whoever was there before, if it
succeeds late, puts their tokens in the place of those of the login, and every
list fetched from then on is theirs, until the next login or logout.
`AssigneesAreMembers` is about the commit of an assignment: the transaction looks
the membership up again, so that whoever has left since the first look-up is not
assigned.

## Findings

**A note on assignees** (`domain/ticket.ts:312`). It says that between the check of
the membership in the service and the UPDATE a member may be deleted, that this
race is tolerated for now, and that the next change detects and resolves it.
Neither half is what the code does. The check and the UPDATE are in one
transaction (`ticket-command-service.ts:383-400`), so no removal comes between
them: `AssigneesAreMembers` holds at every commit. And an assignee who leaves after
the commit is not always detected: a request for the person the ticket already
has, which the same comment counts among the changes, succeeds before any look-up
(lines 379-381). `DepartedAssigneesAreResolved` says of every change of the assignee that
succeeds that it leaves a member or nobody in charge, and is violated. Changes of the
status, the priority or the texts do not look at the assignee at all.

**A reset that resets nothing** (`use-pending-submit.ts:56`). `PendingSubmit`
violates `ResetClears`: if the action throws before it returns anything, the
`finally` runs before the promise is stored, so that a promise that is over is
kept as the pending one. Every later `execute` returns it without running the
action, and `reset` does nothing, although its test says that it initialises the
state. The forms of the client do not use the hook yet, and an `async` action does
not throw.

## Fairness

Safety needs none. `MailQueue` assumes that a callback handed to `setImmediate`
or `setTimeout` runs eventually and that a send settles (the mailer at hand
resolves at once); it assumes nothing about resets, crashes or success.
`AuthClient` assumes that a call is answered or times out (10 s in `apiClient`),
that an answer is handled, and that a refresh is over after 30 s
(`REFRESH_TIMEOUT_MS`). The server may leave every refresh unanswered.
`TicketList` assumes that React runs effects that are due and that a request is
answered or fails; `OrganizationGate` assumes that React runs the effect of the
provider and renders redirections, and that a call is answered or fails. Nothing
is assumed about what people do. `ListSettles` and `GateSettles` say that the
display comes to rest again and again, and with a person who may click for ever
they say so for the bounded number of requests of the instance.

## Proofs

| Module | Theorems | Argument |
| --- | --- | --- |
| `OrganizationProofs`, Membership | `TypeCorrect`, `OwnerKept`, `RemovalsAreEntitled`, `AuditTrailIsComplete`, `RolesChangeOneByOne` | Only the removal or demotion of an owner can take an owner away, and both count the owners in the same step. Only a removal makes a row disappear, and it reads both memberships. Entries speak of rows by their ids, so the invariant of the log (`TrailInv`) adds that ids are fresh and unique and that an entry speaks of a row of its own organization; then a write with its entry extends the chain of that row and touches no other. A step writes at most one row, so in the view of one organization it is a step of OrganizationRoles or none: what is proved of tickets and comments, with roles that change at any time, holds beside these services. |
| `OrganizationProofs`, Invitations | `InvitationTypeCorrect`, `NeverMemberAndInvited`, `TokensAreSingleUse`, `JoinsAreByNewestGrant`, `AuditEntriesNameParties`, `InvitationsImplementMembership`, `OwnerKeptWithInvitations`, `AuditTrailWithInvitations`, `RolesChangeOneByOneWithInvitations` | The row of an address always carries the newest grant, and no accepted token is in a row (`GrantsTracked`). An id survives renewals, but all its grants went to one address (`PartiesInv`). Every step is a step of Membership or changes none of its variables, so its theorems carry over. |
| `MailQueueProofs` | `QueueTypeCorrect`, `OneWorkerAtATime`, `RetriesBounded`, `QueueKeepsItsPromise`, `NoMailIsStranded`, `FateIsFinal`, `NobodyIsOvertaken` | `isProcessing` is true exactly while a callback is scheduled or a send is under way, except that the worker may find an emptied queue. A mail is pending as long as it is in the queue, with a timer or under way; what is settled is in none of them, so each event of the queue is a step of MailDelivery (`DeliverySafety`) or none. The other way round, a mail that is not settled is in one of them (`Accounted`), and what stands in the queue has a worker: `NoMailIsStranded`. The items that have not been tried stand in the order their mails were handed over, and only tried ones come back with a timer (`OrderInv`), so nobody is overtaken. |
| `TicketsProofs` | `TicketTypesCorrect`, `TicketsMoveForward`, `MembersAreAssigned`, `TicketHistoryReplays`, `ServerErrorsAreTrue`, `DeletedOneByOne` | Every step is of one of four kinds: it writes neither the row nor the log, makes the ticket, logs the creation late, or writes row and entry together. The invariant (`ReplaysInv`) says that the log replays to the row and that the entry of the creation, while it is still to be written, will fit in front of whatever came first. As no step changes a deleted row, tickets vanish one by one for those who look at comments (`Undeleted`), which is what Comments allows. |
| `CommentsProofs` | `CommentTypesCorrect`, `AuthorsSpeak`, `ActorsAreEntitled`, `CommentHistoriesComplete` | A step either leaves comments and log alone or writes one comment and one entry about it in the same transaction; the last entry of a comment then carries its content. |
| `AuthProofs`, AuthSessions | `ServerTypeCorrect`, `OneTokenEach`, `GrantedOnce`, `ServerImplementsSessions` | Sessions are rooted in tokens that exist, a granted refresh has removed the token it presented for good, and a rotation swaps the only token of a session. A session is live as long as it has a token; login opens, logout with that token ends, everything else stutters. |
| `AuthProofs`, AuthClient | `ClientTypesCorrect`, `OneTokenEachWithClient`, `RefreshesAreShared`, `RefreshesDoNotLoop`, `HeldTokensWork`, `ClientUsesServer`, `GrantedOnceWithClient`, `SessionsWithClient`, `CallsOnlyAdvance`, `NoCallIsStuck` | Every step of the tab is a step of the server or leaves it alone, so the client implements the specification of the server (`ClientUsesServer`), and what is proved of AuthSessions holds. The only refresh that is not over is the one the tab holds (`OnlyTheFlight`), a refresh that is over was asked for by a call that is spent, and a token that was granted stays valid until it is delivered. Each step of a call lowers a measure (`StepsLeft`: at most six steps, and the mark on its context is what keeps a refused call from starting again); a call that waits waits for the flight, which has not ended. That a refused call finds a refresh to start is a matter of counting: the refreshes sent are at most the calls that are spent. |
| `RateLimiterProofs` | `EntriesTyped`, `LimiterImplementsWindows`, `NeverTwiceTheLimit`, `RefusalsAreForAFullLimit` | The sweep removes only entries whose window is over, which count like none; so a request opens a window or is let into one, a refusal and a sweep are invisible, and time closes what it passes. What a key has counted in the last window length belongs to the window that is open or to the one before (`RecentInv`): the open one holds at most the limit, and the one before has lost at least the request that opened it. A counter at its limit has counted that many recent requests, all of them in the open window. |
| `StandaloneProofs`, PendingSubmit | `SubmissionsDoNotOverlap` | Of the runs this mount of the hook has started, one that is under way is the one the ref holds, and the hook is pending exactly then, or is unmounted. A new mount starts with none: the runs left over from an earlier one no longer touch what it shows. |
| `StandaloneProofs`, Dashboard | `DashboardsAddUp` | Every result that is there is the number of rows of the view with that property (`CountsAreOfTheView`). The tickets of the view are split by their status and again by their priority, so both sums are their number, and the own undone ones are some of the undone. |
| `StandaloneProofs`, PagedReads | `WalksShowEverything` | While no row leaves, a row that is listed throughout only moves away from the front. So every such row that the walk has not shown stands behind all that the walk has skipped (`UnseenAreBehind`), and the total, whenever it is read, counts it (`TotalGoesOn`, `TotalBeforePage`); a transaction reads an older list, in which the row stands no further back (`ViewIsOlder`). A page that is admitted is cut by neither limit (`PageHoldsItsRows`). |
| `StandaloneProofs`, AuditValues | `LogAdmitsBoundedTrees` | Going one level down does not change whether the search for the depth will exceed the limit, so it does exactly if a walk of that length leads away from the root (`DeepIsUnbounded`). What the search for a cycle has on its stack is a walk from the root (`OnTheWay`); a node met on it again lies on a cycle, and a cycle can be walked around as often as one likes (`CycleOnTheWay`). |
| `WebProofs`, TicketList | `DisplayAnswersTheLast`, `SpinnersAreAnswered`, `EffectsComeToRest` | At most the request sent last is not cancelled (`EarlierAreCancelled`), and what the hook holds is tied to that request and to the values the effects have last run with (`HeldIsLatest`), which may be those of an earlier render. Effects that are not due have asked for what is wanted now (`LatestHasKey`, `PageIsRequested`), so a loading list has its request; a new filter resets the page and a new page is asked for, which is all the effects can find to do. |
| `WebProofs`, OrganizationGate | `OwnOrganizationsDecide`, `WaitersAreHeard`, `RedirectionsEnd` | Between a run of the effect and the next login or logout there is a call that is awaited (`Awaited`); while the tokens of the login are the ones stored, it was sent, or sent again, with them, and what is held came from such a call (`OfThePerson`). Once they are lost, no refresh brings them back (`LostTokens`), so that they are not found again with a list of somebody else on screen. Between a login and the effect nothing is claimed. Whoever is remembered for having sent the form belongs to an organization, and so has one when the refetch that follows is served. The state is loading only between the start of a fetch and the answer to the latest (`WaitingForList`). From the login a person is taken to the application and from there, at most, to the form. |

The only assumptions are the ones the modules name: sets of roles, values
standing for null that are none of the values they stand beside (`None`,
`Nobody`, `NotRead`, `NoRow`), positive limits, a page no larger than what may be
taken, and finite sets where something is counted: the calls and refreshes of the
tab, the tickets of a dashboard. All theorems hold for any sets of people,
organizations, tickets, comments, mails, tokens, rows, requests and graphs of
objects, for any limits, window lengths and sizes of a page. One theorem has a
hypothesis of its own: `NoCallIsStuck` is about instances with a refresh for every
call, since the code can always send one. The inductive invariants strengthen what
the runs check.

Every safety property of the passing runs is proved. Only model-checked is
liveness (`EveryMailHandled`, `EveryCallSettles`, `ListSettles`, `GateSettles`) and
the half of the refinement of MailDelivery that is about its fairness: neither
fairness nor ENABLED is in reach of the provers. What liveness rests on is proved
as safety, in both halves of the usual argument. Whoever waits, waits for
something that is under way: `NoMailIsStranded`, `NoCallIsStuck`,
`SpinnersAreAnswered`, `WaitersAreHeard`. And nothing goes on for ever without
getting nearer to its end: `RetriesBounded`, `CallsOnlyAdvance`,
`EffectsComeToRest`, `RedirectionsEnd`. `ResetClears` and
`DepartedAssigneesAreResolved`, the findings, are violated.

The schema of a logged value is recursive, as the code is. Its searches are
recursive functions, on the level or on the stack they have reached. The
induction theorems of the library take an operator and cannot be used; so the
functions are shown to satisfy their equations by iterating from the limit
(`Iterates`), and what they return is shown by induction over sets of numbers,
with the least number that is missing (`UpTo`).

## Known behaviour that no property forbids

Met while modelling, contained in the models, and not contradicted by any text
of the repository; listed as hazards in `PROJECT.json`.

* A crash after the commit of an invitation and before its mail leaves an
  invitation nobody knows of; a new one is refused until it expires.
* A refresh under way at a logout can put its tokens into the storage after the
  logout, or over those of the next login; one that fails can clear the tokens
  of the next login. In the second case the tab shows the new user and what the
  server says to the old one, the list of organizations among it.
* Comments of a deleted ticket can still be edited and deleted.
* An inviter who has lost the role since the middleware looked still invites.
* A change of a ticket can be answered 500 although it has been made: the
  comments are counted after the commit.
* A walk through the comments can miss one that stays, if another comes between
  the total and the page; any walk can miss a row if one before it leaves.
* If the last page of the tickets becomes empty, the page shows neither tickets
  nor the pagination to go back with.
* If the answer to the form of the first organization is lost, a second try is
  refused, since the name is taken, until the organizations are fetched anew.

## Not modelled

Formats and validation of strings, password hashing, users as such, signatures,
cookies and headers, rendering, the development mocks, the seed, scripts and CI:
data, presentation or tooling without a protocol. The slug of an organization and
its uniqueness are left out: an organization is its name. The retry of `ky` after
a network error sends the same request again and is left out of AuthClient, as is
the first look-up of the user in `AuthProvider`, which finds no token in a new
tab. The retry on a collision of token hashes is left out because tokens are
unique. Two rows of a listing never have the same time: SQLite does not say in
which order it returns them. The last activities of a dashboard are shown as they
are. The patch of a ticket sets its texts and nothing else, as its schema says.

## Plan

In this order, the most important behaviour first; the first fifteen are done.

1. Membership. 2. Invitations, composed with it and refined to
it. 3. The mail queue. 4. Tickets. 5. Comments. 6. Sessions on the server.
7. The authentication client with that server. 8. The rate limiter and the
windows it implements. 9. The listings, the dashboard, and the hooks and routes
of the client that show them. 10. What is let into the log. 11. Proofs of the
safety properties of 1 to 8. 12. Proofs of those of 9 and 10, for
any number of rows, tickets, requests and objects.

13. OrganizationRoles, which Membership implements for each organization and
from which Tickets and Comments take theirs, and the deletions that Comments sees.

14. The client as a refinement of the server. 15. The safety core of liveness:
who waits has something to wait for, and what goes on ends.

16. Left: the parts that are only partly modelled, which are the entries of the
log that other services write, and the pages that use the hooks.
