------------------------------ MODULE Tickets ------------------------------
(***************************************************************************)
(* The tickets of one organization, their history in the audit log and the *)
(* answers of the API (services/ticket-command-service.ts,                 *)
(* controllers/tickets-controller.ts).                                     *)
(*                                                                         *)
(* A request passes the scope and role middleware first and is served      *)
(* later; memberships change in between, in ways only Membership and       *)
(* Invitations constrain, so here they change arbitrarily.  Most services  *)
(* do all their work in one transaction.  Two do not: the creation writes  *)
(* its audit entry after the commit, and the change of the assignee reads  *)
(* the ticket before its transaction.  The body of a request is looked at  *)
(* by the service only and is chosen there.                                *)
(***************************************************************************)
EXTENDS OrganizationRoles, Sequences

CONSTANTS
    Ticket,      \* ticket ids, each used once
    Text,        \* titles and descriptions
    Priority,    \* priorities
    Request,     \* HTTP requests that write tickets
    NoOne        \* the assignee of an unassigned ticket

ASSUME MemberRoleAssumption == MemberRole \subseteq Role
ASSUME NoOneAssumption == NoOne \notin User

VARIABLES
    tickets,   \* rows of the table tickets, deleted ones included
    history,   \* audit_logs rows with entity type ticket, in insertion order
    requests   \* progress of every request

vars == <<roles, tickets, history, requests>>

IsMember(u) == roles[u] # "none"

-----------------------------------------------------------------------------
(***************************************************************************)
(* Rows and requests.                                                      *)
(***************************************************************************)
Status == {"open", "in-progress", "closed"}

Assignee == User \cup {NoOne}

NoTicket == [exists |-> FALSE]

TicketRow(text, priority, status, assignee) ==
    [exists |-> TRUE, text |-> text, priority |-> priority, status |-> status,
     assignee |-> assignee, deleted |-> FALSE]

\* findTicketById hides deleted rows.
Visible(t) == tickets[t].exists /\ ~tickets[t].deleted

Idle == [stage |-> "idle"]

Scoped(op, actor) == [stage |-> "scoped", op |-> op, actor |-> actor]

\* History: the cause of a refusal, which the status does not tell.
Answered(status, cause) == [stage |-> "answered", status |-> status, cause |-> cause]

Op == {"create", "update", "status", "priority", "assignee", "delete"}

IsPending(r, op) == requests[r].stage = "scoped" /\ requests[r].op = op

\* The middleware of the routes: an admin deletes, a member does the rest.
RequiredRole(op) == IF op = "delete" THEN "admin" ELSE "member"

EnterTicketScope(r) ==
    /\ requests[r] = Idle
    /\ \E op \in Op, actor \in User :
          /\ IsMember(actor)
          /\ HasRole(roles[actor], RequiredRole(op))
          /\ requests' = [requests EXCEPT ![r] = Scoped(op, actor)]
    /\ UNCHANGED <<roles, tickets, history>>

\* Somebody joins, changes role or is removed.
ChangeMembership(u, role) ==
    /\ ChangeRole(u, role)
    /\ UNCHANGED <<tickets, history, requests>>

-----------------------------------------------------------------------------
(***************************************************************************)
(* Answers.  Every controller maps the errors it knows to a status of its  *)
(* own and whatever is left to 500; all but the creation and the deletion  *)
(* count the comments of the ticket after the commit, and fail with 500 if *)
(* that fails.                                                             *)
(***************************************************************************)
mapCreateTicketError == {"validation-error", "user-not-organization-member"}

mapUpdateTicketError == {"ticket-not-found", "validation-error"}

mapUpdateTicketStatusError == {"ticket-not-found", "ticket-conflict", "validation-error"}

mapUpdateTicketPriorityError == {"ticket-not-found", "ticket-conflict", "validation-error"}

\* Plausible slip: copied from the patch, the conflict falls to the default.
mapUpdateTicketAssigneeError_LikePatch ==
    {"ticket-not-found", "user-not-organization-member", "validation-error"}

mapUpdateTicketAssigneeError ==
    {"ticket-not-found", "ticket-conflict", "user-not-organization-member",
     "validation-error"}

mapDeleteTicketError == {"ticket-not-found"}

KnownErrors(op) == CASE op = "create" -> mapCreateTicketError
                     [] op = "update" -> mapUpdateTicketError
                     [] op = "status" -> mapUpdateTicketStatusError
                     [] op = "priority" -> mapUpdateTicketPriorityError
                     [] op = "assignee" -> mapUpdateTicketAssigneeError
                     [] op = "delete" -> mapDeleteTicketError

ErrorStatus(op, error) == CASE error \notin KnownErrors(op) -> 500
                            [] error = "ticket-not-found" -> 404
                            [] error = "ticket-conflict" -> 409
                            [] OTHER -> 400

Answer(r, status) == requests' = [requests EXCEPT ![r] = Answered(status, "none")]

Refuse(r, status, cause) == requests' = [requests EXCEPT ![r] = Answered(status, cause)]

Fail(r, error) == Refuse(r, ErrorStatus(requests[r].op, error), error)

Counting(t) == [stage |-> "counting", ticket |-> t]

\* The service has succeeded, the comments of the ticket are still to be counted.
Succeed(r, t) == requests' = [requests EXCEPT ![r] = Counting(t)]

serializeTicket(r) ==
    /\ requests[r].stage = "counting"
    /\ Answer(r, 200)
    /\ UNCHANGED <<roles, tickets, history>>

CommentCountFails(r) ==
    /\ requests[r].stage = "counting"
    /\ Refuse(r, 500, "comment-count")
    /\ UNCHANGED <<roles, tickets, history>>

-----------------------------------------------------------------------------
(***************************************************************************)
(* Audit entries.  Only the fields an entry mentions are in its domain.    *)
(***************************************************************************)
AuditedField == {"text", "priority", "status", "assignee"}

Values(row, fields) == [field \in fields |-> row[field]]

Entry(t, action, actor, old, new) ==
    [ticket |-> t, action |-> action, actor |-> actor, old |-> old, new |-> new]

\* A change of a row together with its entry, in one transaction.
Change(t, row, action, actor, fields) ==
    /\ tickets' = [tickets EXCEPT ![t] = row]
    /\ history' = Append(history,
          Entry(t, action, actor, Values(tickets[t], fields), Values(row, fields)))

NoChange == UNCHANGED <<tickets, history>>

-----------------------------------------------------------------------------
(***************************************************************************)
(* createTicket                                                            *)
(***************************************************************************)
\* Plausible slip: the assignee is not looked up.
CanBeAssigned_Anybody(assignee) == TRUE

\* assertUserIsOrganizationMember, inside the transaction.
CanBeAssigned(assignee) == assignee # NoOne => IsMember(assignee)

Committed(t, actor, row) ==
    [stage |-> "committed", ticket |-> t, actor |-> actor, row |-> row]

\* The controller skips the check of the creator's own membership.
createTicket(r) ==
    /\ IsPending(r, "create")
    /\ \E t \in Ticket, text \in Text, priority \in Priority, assignee \in Assignee :
          /\ ~tickets[t].exists
          /\ LET row == TicketRow(text, priority, "open", assignee) IN
             \/ /\ CanBeAssigned(assignee)
                /\ tickets' = [tickets EXCEPT ![t] = row]
                /\ requests' = [requests EXCEPT ![r] =
                                   Committed(t, requests[r].actor, row)]
             \/ /\ ~CanBeAssigned(assignee)
                /\ Fail(r, "user-not-organization-member")
                /\ UNCHANGED tickets
    /\ UNCHANGED <<roles, history>>

\* Plausible slip: the entry shows the ticket as it is when the entry is written.
CreatedRow_ReadBack(q) == tickets[q.ticket]

CreatedRow(q) == q.row

\* The entry is written after the commit, or its failure is logged and ignored;
\* the request is answered 201 in both cases.
recordTicketCreationAuditLog(r) ==
    LET q == requests[r]
        entry == Entry(q.ticket, "create", q.actor, <<>>,
                       Values(CreatedRow(q), AuditedField))
    IN
    /\ q.stage = "committed"
    /\ history' \in {history, Append(history, entry)}
    /\ Answer(r, 201)
    /\ UNCHANGED <<roles, tickets>>

-----------------------------------------------------------------------------
(***************************************************************************)
(* updateTicket, updateTicketStatus, updateTicketPriority                  *)
(***************************************************************************)
NotFound(r) == Fail(r, "ticket-not-found") /\ NoChange

\* The API patches title and description only; the entry mentions every field
\* and is written even if nothing changes.
updateTicket(r) ==
    /\ IsPending(r, "update")
    /\ \E t \in Ticket, text \in Text :
          \/ /\ Visible(t)
             /\ Change(t, [tickets[t] EXCEPT !.text = text],
                       "update", requests[r].actor, AuditedField)
             /\ Succeed(r, t)
          \/ ~Visible(t) /\ NotFound(r)
    /\ UNCHANGED roles

\* Plausible slip: a closed ticket may be opened again.
allowedStatusTransitions_Reopen ==
    [from \in Status |-> CASE from = "open" -> {"in-progress", "closed"}
                           [] from = "in-progress" -> {"closed"}
                           [] from = "closed" -> {"in-progress"}]

allowedStatusTransitions ==
    [from \in Status |-> CASE from = "open" -> {"in-progress", "closed"}
                           [] from = "in-progress" -> {"closed"}
                           [] from = "closed" -> {}]

\* The UPDATE compares the status it read with the row; both happen in the same
\* transaction, so the comparison cannot fail.
updateTicketStatus(r) ==
    /\ IsPending(r, "status")
    /\ \E t \in Ticket, status \in Status :
          \/ /\ Visible(t)
             /\ status \in allowedStatusTransitions[tickets[t].status]
             /\ Change(t, [tickets[t] EXCEPT !.status = status],
                       "update_status", requests[r].actor, {"status"})
             /\ Succeed(r, t)
          \/ /\ Visible(t)
             /\ status = tickets[t].status
             /\ Succeed(r, t)
             /\ NoChange
          \/ /\ Visible(t)
             /\ status \notin allowedStatusTransitions[tickets[t].status] \cup {tickets[t].status}
             /\ Fail(r, "validation-error")
             /\ NoChange
          \/ ~Visible(t) /\ NotFound(r)
    /\ UNCHANGED roles

updateTicketPriority(r) ==
    /\ IsPending(r, "priority")
    /\ \E t \in Ticket, priority \in Priority :
          \/ /\ Visible(t)
             /\ priority # tickets[t].priority
             /\ Change(t, [tickets[t] EXCEPT !.priority = priority],
                       "update_priority", requests[r].actor, {"priority"})
             /\ Succeed(r, t)
          \/ /\ Visible(t)
             /\ priority = tickets[t].priority
             /\ Succeed(r, t)
             /\ NoChange
          \/ ~Visible(t) /\ NotFound(r)
    /\ UNCHANGED roles

-----------------------------------------------------------------------------
(***************************************************************************)
(* updateTicketAssignee: the ticket is read before the transaction.        *)
(***************************************************************************)
ReadTicket(actor, t, seen, assignee) ==
    [stage |-> "read", op |-> "assignee", actor |-> actor, ticket |-> t, seen |-> seen,
     assignee |-> assignee]

readTicketForAssignee(r) ==
    /\ IsPending(r, "assignee")
    /\ \E t \in Ticket, assignee \in Assignee :
          \/ /\ Visible(t)
             /\ assignee # tickets[t].assignee
             /\ requests' = [requests EXCEPT ![r] =
                   ReadTicket(requests[r].actor, t, tickets[t].assignee, assignee)]
          \/ /\ Visible(t)
             /\ assignee = tickets[t].assignee
             /\ Succeed(r, t)
          \/ /\ ~Visible(t)
             /\ Fail(r, "ticket-not-found")
    /\ UNCHANGED <<roles, tickets, history>>

\* Plausible slip: the UPDATE has no condition on the assignee.
StillAssigned_Unchecked(q) == TRUE

\* The UPDATE only touches a row that still has the assignee read before.
StillAssigned(q) == tickets[q.ticket].assignee = q.seen

AssigneeOutcome(q) ==
    IF ~CanBeAssigned(q.assignee) THEN "user-not-organization-member"
    ELSE IF ~Visible(q.ticket) THEN "ticket-not-found"
    ELSE IF ~StillAssigned(q) THEN "ticket-conflict"
    ELSE "ok"

\* The entry's old value is the assignee that was read, not the one replaced.
updateTicketAssignee(r) ==
    LET q == requests[r] IN
    /\ q.stage = "read"
    /\ \/ /\ AssigneeOutcome(q) = "ok"
          /\ Succeed(r, q.ticket)
          /\ tickets' = [tickets EXCEPT ![q.ticket].assignee = q.assignee]
          /\ history' = Append(history,
                Entry(q.ticket, "update_assignee", q.actor,
                      [field \in {"assignee"} |-> q.seen],
                      [field \in {"assignee"} |-> q.assignee]))
       \/ /\ AssigneeOutcome(q) # "ok"
          /\ Fail(r, AssigneeOutcome(q))
          /\ NoChange
    /\ UNCHANGED roles

-----------------------------------------------------------------------------
(***************************************************************************)
(* deleteTicket, failures, the specification.                              *)
(***************************************************************************)
Deletable(t) == Visible(t)

SoftDeleted(row) == [row EXCEPT !.deleted = TRUE]

deleteTicket(r) ==
    /\ IsPending(r, "delete")
    /\ \E t \in Ticket :
          \/ /\ Deletable(t)
             /\ tickets' = [tickets EXCEPT ![t] = SoftDeleted(tickets[t])]
             /\ history' = Append(history,
                   Entry(t, "delete", requests[r].actor,
                         Values(tickets[t], AuditedField), <<>>))
             /\ Answer(r, 204)
          \/ ~Deletable(t) /\ NotFound(r)
    /\ UNCHANGED roles

\* The transaction is rolled back (busy database, transaction timeout).
TransactionFails(r) ==
    /\ requests[r].stage \in {"scoped", "read"}
    /\ Fail(r, "unknown-error")
    /\ UNCHANGED <<roles, tickets, history>>

\* The process dies, also between a commit and what follows it; the requests
\* under way are not answered.
Crash ==
    /\ \E r \in Request : requests[r].stage \notin {"idle", "answered"}
    /\ requests' = [r \in Request |->
          IF requests[r].stage \in {"idle", "answered"} THEN requests[r]
          ELSE Answered(0, "crash")]
    /\ UNCHANGED <<roles, tickets, history>>

Init ==
    /\ RolesInit
    /\ tickets = [t \in Ticket |-> NoTicket]
    /\ history = <<>>
    /\ requests = [r \in Request |-> Idle]

Next ==
    \/ \E u \in User, role \in MemberRole \cup {"none"} : ChangeMembership(u, role)
    \/ \E r \in Request : EnterTicketScope(r)
    \/ \E r \in Request : createTicket(r)
    \/ \E r \in Request : recordTicketCreationAuditLog(r)
    \/ \E r \in Request : updateTicket(r)
    \/ \E r \in Request : updateTicketStatus(r)
    \/ \E r \in Request : updateTicketPriority(r)
    \/ \E r \in Request : readTicketForAssignee(r)
    \/ \E r \in Request : updateTicketAssignee(r)
    \/ \E r \in Request : deleteTicket(r)
    \/ \E r \in Request : serializeTicket(r) \/ CommentCountFails(r)
    \/ \E r \in Request : TransactionFails(r)
    \/ Crash

Spec == Init /\ [][Next]_vars

-----------------------------------------------------------------------------
(***************************************************************************)
(* Properties.                                                             *)
(***************************************************************************)
Row == [exists : {TRUE}, text : Text, priority : Priority, status : Status,
        assignee : Assignee, deleted : BOOLEAN]

HttpStatus == {200, 201, 204, 400, 404, 409, 500}

Cause == {"none", "ticket-not-found", "ticket-conflict", "user-not-organization-member",
          "validation-error", "unknown-error", "comment-count", "crash"}

RequestState ==
    {Idle} \cup [stage : {"scoped"}, op : Op, actor : User]
      \cup [stage : {"committed"}, ticket : Ticket, actor : User, row : Row]
      \cup [stage : {"read"}, op : {"assignee"}, actor : User, ticket : Ticket, seen : Assignee,
            assignee : Assignee]
      \cup [stage : {"counting"}, ticket : Ticket]
      \cup [stage : {"answered"}, status : HttpStatus \cup {0}, cause : Cause]

HistoryAction == {"create", "update", "update_status", "update_priority",
                  "update_assignee", "delete"}

\* The values of an entry, of some of the fields.
Snapshot == UNION {[fields -> Text \cup Priority \cup Status \cup Assignee] :
                      fields \in SUBSET AuditedField}

EntryRow == [ticket : Ticket, action : HistoryAction, actor : User,
             old : Snapshot, new : Snapshot]

\* Types; and whatever history and requests refer to is a row of the table,
\* since rows are deleted softly.
TypeOK ==
    /\ roles \in [User -> MemberRole \cup {"none"}]
    /\ tickets \in [Ticket -> {NoTicket} \cup Row]
    /\ history \in Seq(EntryRow)
    /\ \A i \in DOMAIN history : tickets[history[i].ticket].exists
    /\ requests \in [Request -> RequestState]
    /\ \A r \in Request : requests[r].stage \in {"committed", "read"}
                            => tickets[requests[r].ticket].exists

\* The history of a ticket replays, field by field: every entry that mentions a
\* field starts from the value the one before has left, and the last one left
\* the value the row has.  The entry of the creation may be missing and may
\* stand after later changes; wherever it stands, it holds the first value.
Mentions(i, t, field) ==
    /\ history[i].ticket = t
    /\ history[i].action # "create"
    /\ field \in DOMAIN history[i].old

LeavesBehind(i, t, field) ==
    IF history[i].action = "delete" THEN history[i].old[field]
    ELSE history[i].new[field]

HistoryReplays ==
    \A t \in Ticket, field \in AuditedField :
        LET trail == {i \in DOMAIN history : Mentions(i, t, field)}
            creation == {i \in DOMAIN history :
                            history[i].ticket = t /\ history[i].action = "create"}
        IN
        /\ \A i, j \in trail :
              i < j /\ (\A k \in trail : k <= i \/ j <= k)
                => LeavesBehind(i, t, field) = history[j].old[field]
        /\ \A i \in trail :
              (\A k \in trail : k <= i) => LeavesBehind(i, t, field) = tickets[t][field]
        /\ \A c \in creation, i \in trail :
              (\A k \in trail : i <= k) => history[c].new[field] = history[i].old[field]
        /\ trail = {} =>
              \A c \in creation : history[c].new[field] = tickets[t][field]

\* A ticket only moves forward, from open over in progress to closed, and a
\* deleted ticket does not move at all.
Progress == [status \in Status |-> CASE status = "open" -> 0
                                     [] status = "in-progress" -> 1
                                     [] status = "closed" -> 2]

MovesForward ==
    [][\A t \in Ticket : tickets[t].exists =>
          /\ tickets'[t].exists
          /\ Progress[tickets[t].status] <= Progress[tickets'[t].status]
          /\ (tickets[t].deleted => tickets'[t] = tickets[t])]_vars

\* Whoever is newly put in charge of a ticket is a member when the transaction
\* that does it commits, however old the read before it is.  The note at
\* domain/ticket.ts:312 concedes a race here, a removal between the look-up of
\* the member and the UPDATE; the look-up and the UPDATE are in one transaction
\* (ticket-command-service.ts:383), so the code does not have it.
NewlyAssigned(t) ==
    /\ tickets'[t].exists
    /\ tickets'[t].assignee # NoOne
    /\ tickets[t].exists => tickets'[t].assignee # tickets[t].assignee

AssigneesAreMembers ==
    [][\A t \in Ticket : NewlyAssigned(t) => IsMember(tickets'[t].assignee)]_vars

\* What the same note says of the consequence: that the assignee of a ticket is
\* no member is detected and resolved at the next change (of the assignee, which
\* includes, as the note begins, a change to the same person).  The code answers
\* a request for the assignee the ticket already has before any look-up.
AssignmentSucceeds(r) ==
    /\ requests[r].stage \in {"scoped", "read"}
    /\ requests[r].op = "assignee"
    /\ requests'[r].stage = "counting"

DepartedAssigneesAreResolved ==
    [][\A r \in Request : AssignmentSucceeds(r) =>
          LET assignee == tickets'[requests'[r].ticket].assignee IN
          assignee # NoOne => IsMember(assignee)]_vars

\* Nobody is told that the server failed when it has not: every refusal a
\* service can come to, also in a race, is known to the controller that
\* answers it, and 500 is left to failed transactions and to a comment count
\* that fails after the commit (tickets-controller.ts:609 and the like).
ServerErrorsAreFailures ==
    \A r \in Request :
        requests[r].stage = "answered" /\ requests[r].status = 500
            => requests[r].cause \in {"unknown-error", "comment-count"}

=============================================================================
