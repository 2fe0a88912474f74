--------------------------- MODULE TicketsProofs ---------------------------
(***************************************************************************)
(* Proofs about Tickets, for any sets of people, tickets, texts and        *)
(* requests.                                                               *)
(***************************************************************************)
EXTENDS Tickets, TLAPS

-----------------------------------------------------------------------------
(***************************************************************************)
(* Requests.                                                               *)
(***************************************************************************)
LEMMA RequestForms ==
    ASSUME TypeOK, NEW r \in Request
    PROVE  /\ requests[r].stage = "scoped" =>
                 requests[r].op \in Op /\ requests[r].actor \in User
           /\ requests[r].stage = "committed" =>
                 /\ requests[r].ticket \in Ticket /\ requests[r].actor \in User
                 /\ requests[r].row \in Row
           /\ requests[r].stage = "read" =>
                 /\ requests[r].ticket \in Ticket /\ requests[r].actor \in User
                 /\ requests[r].seen \in Assignee /\ requests[r].assignee \in Assignee
  BY DEF TypeOK, RequestState, Idle

\* What becomes of the requests when one of them goes on.
GoesOn(r, q) ==
    /\ requests' \in [Request -> RequestState]
    /\ requests'[r] = q
    /\ \A s \in Request : s # r => requests'[s] = requests[s]

LEMMA SetRequest ==
    ASSUME TypeOK, NEW r \in Request, NEW q \in RequestState,
           requests' = [requests EXCEPT ![r] = q]
    PROVE  GoesOn(r, q)
  BY DEF TypeOK, GoesOn

\* A request that is answered, or whose service is done, refers to no ticket.
Over(r) == \E q : GoesOn(r, q) /\ q.stage \notin {"committed", "read"}

LEMMA AnsweredIsOver ==
    ASSUME TypeOK, NEW r \in Request, NEW status \in HttpStatus, NEW cause \in Cause,
           Refuse(r, status, cause)
    PROVE  Over(r)
  <1>1. Answered(status, cause) \in RequestState
    BY DEF Answered, RequestState
  <1>2. GoesOn(r, Answered(status, cause))
    BY <1>1, SetRequest DEF Refuse
  <1> QED
    BY <1>2 DEF Over, Answered

LEMMA AnswerIsOver ==
    ASSUME TypeOK, NEW r \in Request, NEW status \in HttpStatus, Answer(r, status)
    PROVE  Over(r)
  BY AnsweredIsOver DEF Answer, Refuse, Cause

LEMMA FailIsOver ==
    ASSUME TypeOK, NEW r \in Request, NEW error \in Cause, Fail(r, error)
    PROVE  Over(r)
  <1>1. ErrorStatus(requests[r].op, error) \in HttpStatus
    BY DEF ErrorStatus, HttpStatus
  <1> QED
    BY <1>1, AnsweredIsOver DEF Fail

LEMMA SucceedIsOver ==
    ASSUME TypeOK, NEW r \in Request, NEW t \in Ticket, Succeed(r, t)
    PROVE  Over(r)
  <1>1. Counting(t) \in RequestState /\ Counting(t).stage = "counting"
    BY DEF Counting, RequestState
  <1>2. GoesOn(r, Counting(t))
    BY <1>1, SetRequest DEF Succeed
  <1> QED
    BY <1>1, <1>2 DEF Over

-----------------------------------------------------------------------------
(***************************************************************************)
(* Rows and entries.                                                       *)
(***************************************************************************)
LEMMA ExistingIsRow ==
    ASSUME TypeOK, NEW t \in Ticket, tickets[t].exists
    PROVE  tickets[t] \in Row
  BY DEF TypeOK, NoTicket

LEMMA EmptySnapshot == <<>> \in Snapshot
  BY DEF Snapshot

LEMMA RowSnapshot ==
    ASSUME NEW row \in Row, NEW fields \in SUBSET AuditedField
    PROVE  Values(row, fields) \in Snapshot
  <1>1. \A field \in AuditedField :
           row[field] \in Text \cup Priority \cup Status \cup Assignee
    BY DEF Row, AuditedField
  <1> QED
    BY <1>1 DEF Snapshot, Values

LEMMA AssigneeSnapshot ==
    ASSUME NEW assignee \in Assignee
    PROVE  [field \in {"assignee"} |-> assignee] \in Snapshot
  <1> DEFINE V == Text \cup Priority \cup Status \cup Assignee
  <1>1. {"assignee"} \in SUBSET AuditedField
    BY DEF AuditedField
  <1>2. [field \in {"assignee"} |-> assignee] \in [{"assignee"} -> V]
    OBVIOUS
  <1> QED
    BY <1>1, <1>2 DEF Snapshot

LEMMA EntryType ==
    ASSUME NEW t \in Ticket, NEW action \in HistoryAction, NEW actor \in User,
           NEW old \in Snapshot, NEW new \in Snapshot
    PROVE  Entry(t, action, actor, old, new) \in EntryRow
  BY DEF Entry, EntryRow

-----------------------------------------------------------------------------
(***************************************************************************)
(* Kinds of steps.  Besides a change of the memberships and a crash, a     *)
(* step moves one request on and leaves the tables alone, or makes a       *)
(* ticket, or writes the entry of its creation, or changes a row together  *)
(* with an entry of the change.  The theorems are about these kinds.       *)
(***************************************************************************)
Quiet(r) ==
    /\ \E q : /\ GoesOn(r, q)
              /\ q.stage # "committed"
              /\ q.stage = "read" => q.ticket \in Ticket /\ tickets[q.ticket].exists
    /\ UNCHANGED <<roles, tickets, history>>

Made(r) ==
    \E t \in Ticket, row \in Row, q \in RequestState :
        /\ ~tickets[t].exists
        /\ tickets' = [tickets EXCEPT ![t] = row]
        /\ row.assignee # NoOne => IsMember(row.assignee)
        /\ GoesOn(r, q)
        /\ q.stage = "committed" /\ q.ticket = t /\ q.row = row
        /\ UNCHANGED <<roles, history>>

Logged(r) ==
    \E entry \in EntryRow :
        /\ Over(r)
        /\ requests[r].stage = "committed"
        /\ entry.ticket = requests[r].ticket /\ entry.action = "create"
        /\ \A field \in AuditedField : entry.new[field] = requests[r].row[field]
        /\ history' = Append(history, entry)
        /\ UNCHANGED <<roles, tickets>>

\* The value of a field an entry leaves behind.
After(entry, field) == IF entry.action = "delete" THEN entry.old[field] ELSE entry.new[field]

\* An entry tells how one row becomes the other.
Tells(entry, old, new) ==
    /\ entry.action # "create"
    /\ DOMAIN entry.old \subseteq AuditedField
    /\ \A field \in DOMAIN entry.old :
          entry.old[field] = old[field] /\ After(entry, field) = new[field]
    /\ \A field \in AuditedField \ DOMAIN entry.old : new[field] = old[field]

Audited(r) ==
    \E t \in Ticket, row \in Row, entry \in EntryRow :
        /\ Over(r)
        /\ Visible(t)
        /\ tickets' = [tickets EXCEPT ![t] = row]
        /\ Progress[tickets[t].status] <= Progress[row.status]
        /\ row.assignee \notin {NoOne, tickets[t].assignee} => IsMember(row.assignee)
        /\ entry.ticket = t
        /\ Tells(entry, tickets[t], row)
        /\ history' = Append(history, entry)
        /\ UNCHANGED roles

-----------------------------------------------------------------------------
(***************************************************************************)
(* Every operation is of these kinds.                                      *)
(***************************************************************************)
LEMMA OverIsQuiet ==
    ASSUME NEW r \in Request, Over(r), UNCHANGED <<roles, tickets, history>>
    PROVE  Quiet(r)
  BY DEF Over, Quiet

LEMMA PendingActor ==
    ASSUME TypeOK, NEW r \in Request, NEW op \in Op, IsPending(r, op)
    PROVE  requests[r].op = op /\ requests[r].actor \in User
  BY RequestForms DEF IsPending

LEMMA NotFoundIsQuiet ==
    ASSUME TypeOK, NEW r \in Request, NotFound(r), UNCHANGED roles
    PROVE  Quiet(r)
  BY FailIsOver, OverIsQuiet DEF NotFound, NoChange, Cause

LEMMA EnterIsQuiet ==
    ASSUME TypeOK, NEW r \in Request, EnterTicketScope(r)
    PROVE  Quiet(r)
  <1>1. PICK op \in Op, actor \in User : requests' = [requests EXCEPT ![r] = Scoped(op, actor)]
    BY DEF EnterTicketScope
  <1>2. Scoped(op, actor) \in RequestState /\ Scoped(op, actor).stage = "scoped"
    BY DEF Scoped, RequestState
  <1>3. GoesOn(r, Scoped(op, actor))
    BY <1>1, <1>2, SetRequest
  <1> QED
    BY <1>2, <1>3 DEF EnterTicketScope, Quiet

LEMMA CreateIsMade ==
    ASSUME TypeOK, NEW r \in Request, createTicket(r)
    PROVE  Made(r) \/ Quiet(r)
  <1>1. PICK t \in Ticket, text \in Text, priority \in Priority, assignee \in Assignee :
           /\ ~tickets[t].exists
           /\ LET row == TicketRow(text, priority, "open", assignee) IN
              \/ /\ CanBeAssigned(assignee)
                 /\ tickets' = [tickets EXCEPT ![t] = row]
                 /\ requests' = [requests EXCEPT ![r] =
                                    Committed(t, requests[r].actor, row)]
              \/ /\ ~CanBeAssigned(assignee)
                 /\ Fail(r, "user-not-organization-member")
                 /\ UNCHANGED tickets
    BY DEF createTicket
  <1>2. UNCHANGED <<roles, history>>
    BY DEF createTicket
  <1>3. CASE Fail(r, "user-not-organization-member") /\ UNCHANGED tickets
    BY <1>2, <1>3, FailIsOver, OverIsQuiet DEF Cause
  <1>4. CASE LET row == TicketRow(text, priority, "open", assignee) IN
             /\ CanBeAssigned(assignee)
             /\ tickets' = [tickets EXCEPT ![t] = row]
             /\ requests' = [requests EXCEPT ![r] = Committed(t, requests[r].actor, row)]
    <2> DEFINE row == TicketRow(text, priority, "open", assignee)
               q == Committed(t, requests[r].actor, row)
    <2>1. row \in Row /\ row.assignee = assignee
      BY DEF TicketRow, Row, Status
    <2>2. requests[r].actor \in User
      BY PendingActor DEF createTicket, Op
    <2>3. q \in RequestState /\ q.stage = "committed" /\ q.ticket = t /\ q.row = row
      BY <2>1, <2>2 DEF Committed, RequestState
    <2>4. row.assignee # NoOne => IsMember(row.assignee)
      BY <1>4, <2>1 DEF CanBeAssigned
    <2> HIDE DEF row, q
    <2>5. tickets' = [tickets EXCEPT ![t] = row] /\ requests' = [requests EXCEPT ![r] = q]
      BY <1>4 DEF row, q
    <2>6. GoesOn(r, q)
      BY <2>3, <2>5, SetRequest
    <2> QED
      BY <1>1, <1>2, <2>1, <2>3, <2>4, <2>5, <2>6 DEF Made
  <1> QED
    BY <1>1, <1>3, <1>4

LEMMA RecordIsLogged ==
    ASSUME TypeOK, NEW r \in Request, recordTicketCreationAuditLog(r)
    PROVE  Logged(r) \/ Quiet(r)
  <1> DEFINE q == requests[r]
             entry == Entry(q.ticket, "create", q.actor, <<>>, Values(CreatedRow(q), AuditedField))
  <1>1. q.stage = "committed" /\ q.ticket \in Ticket /\ q.actor \in User /\ q.row \in Row
    BY RequestForms DEF recordTicketCreationAuditLog
  <1>2. entry \in EntryRow
    <2>1. Values(CreatedRow(q), AuditedField) \in Snapshot
      BY <1>1, RowSnapshot DEF CreatedRow
    <2>2. "create" \in HistoryAction
      BY DEF HistoryAction
    <2> QED
      BY <1>1, <2>1, <2>2, EmptySnapshot, EntryType
  <1>3. /\ entry.ticket = q.ticket /\ entry.action = "create"
        /\ \A field \in AuditedField : entry.new[field] = q.row[field]
    BY DEF Entry, Values, CreatedRow
  <1>4. Over(r)
    BY AnswerIsOver DEF recordTicketCreationAuditLog, HttpStatus
  <1>5. UNCHANGED <<roles, tickets>> /\ history' \in {history, Append(history, entry)}
    BY DEF recordTicketCreationAuditLog
  <1> HIDE DEF entry
  <1> QED
    BY <1>1, <1>2, <1>3, <1>4, <1>5, OverIsQuiet DEF Logged

\* Change writes an entry that tells what it does to the fields it names.
LEMMA ChangeIsAudited ==
    ASSUME TypeOK, NEW r \in Request, Over(r), UNCHANGED roles,
           NEW t \in Ticket, Visible(t), NEW row \in Row,
           NEW action \in HistoryAction \ {"create", "delete"}, NEW actor \in User,
           NEW fields \in SUBSET AuditedField,
           \A field \in AuditedField \ fields : row[field] = tickets[t][field],
           row.assignee = tickets[t].assignee,
           Progress[tickets[t].status] <= Progress[row.status],
           Change(t, row, action, actor, fields)
    PROVE  Audited(r)
  <1> DEFINE entry == Entry(t, action, actor, Values(tickets[t], fields), Values(row, fields))
  <1>1. entry \in EntryRow
    BY ExistingIsRow, RowSnapshot, EntryType DEF Visible
  <1>2. entry.ticket = t
    BY DEF Entry
  <1>3. Tells(entry, tickets[t], row)
    BY DEF Entry, Tells, After, Values
  <1>4. history' = Append(history, entry) /\ tickets' = [tickets EXCEPT ![t] = row]
    BY DEF Change
  <1> HIDE DEF entry
  <1> QED
    BY <1>1, <1>2, <1>3, <1>4 DEF Audited

LEMMA UpdateIsAudited ==
    ASSUME TypeOK, NEW r \in Request, updateTicket(r)
    PROVE  Audited(r) \/ Quiet(r)
  <1>1. PICK t \in Ticket, text \in Text :
           \/ /\ Visible(t)
              /\ Change(t, [tickets[t] EXCEPT !.text = text],
                        "update", requests[r].actor, AuditedField)
              /\ Succeed(r, t)
           \/ ~Visible(t) /\ NotFound(r)
    BY DEF updateTicket
  <1>2. requests[r].actor \in User /\ UNCHANGED roles
    BY PendingActor DEF updateTicket, Op
  <1>3. CASE NotFound(r)
    BY <1>2, <1>3, NotFoundIsQuiet
  <1>4. CASE Visible(t) /\ Succeed(r, t) /\ Change(t, [tickets[t] EXCEPT !.text = text],
                                             "update", requests[r].actor, AuditedField)
    <2> DEFINE row == [tickets[t] EXCEPT !.text = text]
    <2>1. tickets[t] \in Row
      BY <1>4, ExistingIsRow DEF Visible
    <2>2. row \in Row /\ row.assignee = tickets[t].assignee /\ row.status = tickets[t].status
      BY <2>1 DEF Row
    <2>3. Progress[tickets[t].status] <= Progress[row.status]
      BY <2>1, <2>2 DEF Progress, Row, Status
    <2>4. "update" \in HistoryAction \ {"create", "delete"}
      BY DEF HistoryAction
    <2>5. Change(t, row, "update", requests[r].actor, AuditedField)
      BY <1>4
    <2> HIDE DEF row
    <2> QED
      BY <1>2, <1>4, <2>2, <2>3, <2>4, <2>5, SucceedIsOver, ChangeIsAudited
  <1> QED
    BY <1>1, <1>3, <1>4

LEMMA TransitionsMoveForward ==
    ASSUME NEW from \in Status, NEW to \in allowedStatusTransitions[from]
    PROVE  to \in Status /\ Progress[from] <= Progress[to]
  <1>1. CASE from = "open"
    BY <1>1 DEF allowedStatusTransitions, Status, Progress
  <1>2. CASE from = "in-progress"
    BY <1>2 DEF allowedStatusTransitions, Status, Progress
  <1>3. CASE from = "closed"
    BY <1>3 DEF allowedStatusTransitions, Status, Progress
  <1> QED
    BY <1>1, <1>2, <1>3 DEF Status

LEMMA StatusIsAudited ==
    ASSUME TypeOK, NEW r \in Request, updateTicketStatus(r)
    PROVE  Audited(r) \/ Quiet(r)
  <1>1. PICK t \in Ticket, status \in Status :
           \/ /\ Visible(t)
              /\ status \in allowedStatusTransitions[tickets[t].status]
              /\ Change(t, [tickets[t] EXCEPT !.status = status],
                        "update_status", requests[r].actor, {"status"})
              /\ Succeed(r, t)
           \/ Succeed(r, t) /\ NoChange
           \/ Fail(r, "validation-error") /\ NoChange
           \/ ~Visible(t) /\ NotFound(r)
    BY DEF updateTicketStatus
  <1>2. requests[r].actor \in User /\ UNCHANGED roles
    BY PendingActor DEF updateTicketStatus, Op
  <1>3. CASE NotFound(r)
    BY <1>2, <1>3, NotFoundIsQuiet
  <1>4. CASE (Succeed(r, t) \/ Fail(r, "validation-error")) /\ NoChange
    BY <1>2, <1>4, SucceedIsOver, FailIsOver, OverIsQuiet DEF NoChange, Cause
  <1>5. CASE /\ Visible(t) /\ Succeed(r, t)
             /\ status \in allowedStatusTransitions[tickets[t].status]
             /\ Change(t, [tickets[t] EXCEPT !.status = status],
                       "update_status", requests[r].actor, {"status"})
    <2> DEFINE row == [tickets[t] EXCEPT !.status = status]
    <2>1. tickets[t] \in Row /\ tickets[t].status \in Status
      BY <1>5, ExistingIsRow DEF Visible, Row
    <2>2. /\ row \in Row /\ row.status = status
          /\ \A field \in AuditedField \ {"status"} : row[field] = tickets[t][field]
          /\ row.assignee = tickets[t].assignee
      BY <2>1 DEF Row, AuditedField
    <2>3. Progress[tickets[t].status] <= Progress[row.status]
      BY <1>5, <2>1, <2>2, TransitionsMoveForward
    <2>4. "update_status" \in HistoryAction \ {"create", "delete"} /\ {"status"} \in SUBSET AuditedField
      BY DEF HistoryAction, AuditedField
    <2>5. Change(t, row, "update_status", requests[r].actor, {"status"})
      BY <1>5
    <2> HIDE DEF row
    <2> QED
      BY <1>2, <1>5, <2>2, <2>3, <2>4, <2>5, SucceedIsOver, ChangeIsAudited
  <1> QED
    BY <1>1, <1>3, <1>4, <1>5

LEMMA PriorityIsAudited ==
    ASSUME TypeOK, NEW r \in Request, updateTicketPriority(r)
    PROVE  Audited(r) \/ Quiet(r)
  <1>1. PICK t \in Ticket, priority \in Priority :
           \/ /\ Visible(t)
              /\ Change(t, [tickets[t] EXCEPT !.priority = priority],
                        "update_priority", requests[r].actor, {"priority"})
              /\ Succeed(r, t)
           \/ Succeed(r, t) /\ NoChange
           \/ ~Visible(t) /\ NotFound(r)
    BY DEF updateTicketPriority
  <1>2. requests[r].actor \in User /\ UNCHANGED roles
    BY PendingActor DEF updateTicketPriority, Op
  <1>3. CASE NotFound(r)
    BY <1>2, <1>3, NotFoundIsQuiet
  <1>4. CASE Succeed(r, t) /\ NoChange
    BY <1>2, <1>4, SucceedIsOver, OverIsQuiet DEF NoChange
  <1>5. CASE /\ Visible(t) /\ Succeed(r, t)
             /\ Change(t, [tickets[t] EXCEPT !.priority = priority],
                       "update_priority", requests[r].actor, {"priority"})
    <2> DEFINE row == [tickets[t] EXCEPT !.priority = priority]
    <2>1. tickets[t] \in Row
      BY <1>5, ExistingIsRow DEF Visible
    <2>2. /\ row \in Row /\ row.status = tickets[t].status
          /\ \A field \in AuditedField \ {"priority"} : row[field] = tickets[t][field]
          /\ row.assignee = tickets[t].assignee
      BY <2>1 DEF Row, AuditedField
    <2>3. Progress[tickets[t].status] <= Progress[row.status]
      BY <2>1, <2>2 DEF Progress, Row, Status
    <2>4. "update_priority" \in HistoryAction \ {"create", "delete"} /\ {"priority"} \in SUBSET AuditedField
      BY DEF HistoryAction, AuditedField
    <2>5. Change(t, row, "update_priority", requests[r].actor, {"priority"})
      BY <1>5
    <2> HIDE DEF row
    <2> QED
      BY <1>2, <1>5, <2>2, <2>3, <2>4, <2>5, SucceedIsOver, ChangeIsAudited
  <1> QED
    BY <1>1, <1>3, <1>4, <1>5

LEMMA ReadIsQuiet ==
    ASSUME TypeOK, NEW r \in Request, readTicketForAssignee(r)
    PROVE  Quiet(r)
  <1>1. PICK t \in Ticket, assignee \in Assignee :
           \/ /\ Visible(t)
              /\ requests' = [requests EXCEPT ![r] =
                    ReadTicket(requests[r].actor, t, tickets[t].assignee, assignee)]
           \/ Succeed(r, t)
           \/ Fail(r, "ticket-not-found")
    BY DEF readTicketForAssignee
  <1>2. requests[r].actor \in User /\ UNCHANGED <<roles, tickets, history>>
    BY PendingActor DEF readTicketForAssignee, Op
  <1>3. CASE Succeed(r, t) \/ Fail(r, "ticket-not-found")
    BY <1>2, <1>3, SucceedIsOver, FailIsOver, OverIsQuiet DEF Cause
  <1>4. CASE /\ Visible(t)
             /\ requests' = [requests EXCEPT ![r] =
                   ReadTicket(requests[r].actor, t, tickets[t].assignee, assignee)]
    <2> DEFINE q == ReadTicket(requests[r].actor, t, tickets[t].assignee, assignee)
    <2>1. tickets[t] \in Row /\ tickets[t].exists
      BY <1>4, ExistingIsRow DEF Visible
    <2>2. q \in RequestState /\ q.stage = "read" /\ q.ticket = t
      BY <1>2, <2>1 DEF ReadTicket, RequestState, Row
    <2>3. requests' = [requests EXCEPT ![r] = q]
      BY <1>4
    <2> HIDE DEF q
    <2>4. GoesOn(r, q)
      BY <2>2, <2>3, SetRequest
    <2> QED
      BY <1>2, <2>1, <2>2, <2>4 DEF Quiet
  <1> QED
    BY <1>1, <1>3, <1>4

\* The entry says what the request has read; the row still had that value.
LEMMA AssigneeIsAudited ==
    ASSUME TypeOK, NEW r \in Request, updateTicketAssignee(r)
    PROVE  Audited(r) \/ Quiet(r)
  <1> DEFINE q == requests[r]
  <1>1. /\ q.stage = "read" /\ q.ticket \in Ticket /\ q.actor \in User
        /\ q.seen \in Assignee /\ q.assignee \in Assignee
    BY RequestForms DEF updateTicketAssignee
  <1>2. UNCHANGED roles
    BY DEF updateTicketAssignee
  <1>3. CASE AssigneeOutcome(q) # "ok"
    <2>1. AssigneeOutcome(q) \in Cause
      BY <1>3 DEF AssigneeOutcome, Cause
    <2>2. Fail(r, AssigneeOutcome(q)) /\ NoChange
      BY <1>3 DEF updateTicketAssignee
    <2> QED
      BY <1>2, <2>1, <2>2, FailIsOver, OverIsQuiet DEF NoChange
  <1>4. CASE AssigneeOutcome(q) = "ok"
    <2> DEFINE old == [field \in {"assignee"} |-> q.seen]
               new == [field \in {"assignee"} |-> q.assignee]
               entry == Entry(q.ticket, "update_assignee", q.actor, old, new)
               row == [tickets[q.ticket] EXCEPT !.assignee = q.assignee]
    <2>1. /\ CanBeAssigned(q.assignee) /\ Visible(q.ticket)
          /\ tickets[q.ticket].assignee = q.seen
      BY <1>4 DEF AssigneeOutcome, StillAssigned
    <2>2. /\ Over(r) /\ tickets' = [tickets EXCEPT ![q.ticket] = row]
          /\ history' = Append(history, entry)
      BY <1>1, <1>4, SucceedIsOver DEF updateTicketAssignee
    <2>3. tickets[q.ticket] \in Row
      BY <1>1, <2>1, ExistingIsRow DEF Visible
    <2>4. /\ row \in Row /\ row.status = tickets[q.ticket].status
          /\ row.assignee = q.assignee
          /\ \A field \in AuditedField \ {"assignee"} : row[field] = tickets[q.ticket][field]
      BY <1>1, <2>3 DEF Row, AuditedField
    <2>5. Progress[tickets[q.ticket].status] <= Progress[row.status]
      BY <2>3, <2>4 DEF Progress, Row, Status
    <2>6. row.assignee # NoOne => IsMember(row.assignee)
      BY <2>1, <2>4 DEF CanBeAssigned
    <2>7. old \in Snapshot /\ new \in Snapshot
      BY <1>1, AssigneeSnapshot
    <2>8. "update_assignee" \in HistoryAction
      BY DEF HistoryAction
    <2>9. entry \in EntryRow
      BY <1>1, <2>7, <2>8, EntryType
    <2>10. Tells(entry, tickets[q.ticket], row)
      BY <2>1, <2>4 DEF Tells, After, Entry, AuditedField
    <2>11. entry.ticket = q.ticket
      BY DEF Entry
    <2> HIDE DEF entry, row
    <2> QED
      BY <1>1, <1>2, <2>1, <2>2, <2>4, <2>5, <2>6, <2>9, <2>10, <2>11 DEF Audited
  <1> QED
    BY <1>3, <1>4

LEMMA DeleteIsAudited ==
    ASSUME TypeOK, NEW r \in Request, deleteTicket(r)
    PROVE  Audited(r) \/ Quiet(r)
  <1>1. PICK t \in Ticket :
           \/ /\ Deletable(t)
              /\ tickets' = [tickets EXCEPT ![t] = SoftDeleted(tickets[t])]
              /\ history' = Append(history,
                    Entry(t, "delete", requests[r].actor,
                          Values(tickets[t], AuditedField), <<>>))
              /\ Answer(r, 204)
           \/ ~Deletable(t) /\ NotFound(r)
    BY DEF deleteTicket
  <1>2. requests[r].actor \in User /\ UNCHANGED roles
    BY PendingActor DEF deleteTicket, Op
  <1>3. CASE NotFound(r)
    BY <1>2, <1>3, NotFoundIsQuiet
  <1>4. CASE /\ Deletable(t)
             /\ tickets' = [tickets EXCEPT ![t] = SoftDeleted(tickets[t])]
             /\ history' = Append(history,
                   Entry(t, "delete", requests[r].actor,
                         Values(tickets[t], AuditedField), <<>>))
             /\ Answer(r, 204)
    <2> DEFINE row == SoftDeleted(tickets[t])
               entry == Entry(t, "delete", requests[r].actor,
                              Values(tickets[t], AuditedField), <<>>)
    <2>1. tickets[t] \in Row /\ Visible(t)
      BY <1>4, ExistingIsRow DEF Visible, Deletable
    <2>2. /\ row \in Row /\ row.status = tickets[t].status
          /\ row.assignee = tickets[t].assignee
          /\ \A field \in AuditedField : row[field] = tickets[t][field]
      BY <2>1 DEF Row, AuditedField, SoftDeleted
    <2>3. Progress[tickets[t].status] <= Progress[row.status]
      BY <2>1, <2>2 DEF Progress, Row, Status
    <2>4. entry \in EntryRow
      <3>1. Values(tickets[t], AuditedField) \in Snapshot
        BY <2>1, RowSnapshot
      <3>2. "delete" \in HistoryAction
        BY DEF HistoryAction
      <3> QED
        BY <1>2, <3>1, <3>2, EmptySnapshot, EntryType
    <2>5. entry.ticket = t /\ Tells(entry, tickets[t], row)
      BY <2>2 DEF Entry, Tells, After, Values
    <2>6. Over(r)
      BY <1>4, AnswerIsOver DEF HttpStatus
    <2>7. tickets' = [tickets EXCEPT ![t] = row] /\ history' = Append(history, entry)
      BY <1>4
    <2> HIDE DEF entry, row
    <2> QED
      BY <1>2, <2>1, <2>2, <2>3, <2>4, <2>5, <2>6, <2>7 DEF Audited
  <1> QED
    BY <1>1, <1>3, <1>4

LEMMA EndsAreQuiet ==
    ASSUME TypeOK, NEW r \in Request,
           serializeTicket(r) \/ CommentCountFails(r) \/ TransactionFails(r)
    PROVE  Quiet(r)
  <1>1. CASE serializeTicket(r)
    BY <1>1, AnswerIsOver, OverIsQuiet DEF serializeTicket, HttpStatus
  <1>2. CASE CommentCountFails(r)
    BY <1>2, AnsweredIsOver, OverIsQuiet DEF CommentCountFails, HttpStatus, Cause
  <1>3. CASE TransactionFails(r)
    BY <1>3, FailIsOver, OverIsQuiet DEF TransactionFails, Cause
  <1> QED
    BY <1>1, <1>2, <1>3

LEMMA StepKinds ==
    ASSUME TypeOK, [Next]_vars
    PROVE  \/ \E r \in Request : Quiet(r) \/ Made(r) \/ Logged(r) \/ Audited(r)
           \/ \E u \in User, role \in MemberRole \cup {"none"} : ChangeMembership(u, role)
           \/ Crash
           \/ UNCHANGED vars
  BY EnterIsQuiet, CreateIsMade, RecordIsLogged, UpdateIsAudited, StatusIsAudited,
     PriorityIsAudited, ReadIsQuiet, AssigneeIsAudited, DeleteIsAudited, EndsAreQuiet
  DEF Next

-----------------------------------------------------------------------------
(***************************************************************************)
(* Type correctness.                                                       *)
(***************************************************************************)
LEMMA InitTypes == Init => TypeOK
  <1> SUFFICES ASSUME Init PROVE TypeOK
    OBVIOUS
  <1>1. history \in Seq(EntryRow) /\ DOMAIN history = {}
    BY DEF Init
  <1> QED
    BY <1>1 DEF Init, RolesInit, TypeOK, RequestState, Idle

LEMMA LogTypes ==
    ASSUME TypeOK, NEW i \in DOMAIN history
    PROVE  history[i] \in EntryRow /\ history[i].ticket \in Ticket
  <1>1. history[i] \in EntryRow
    BY DEF TypeOK
  <1> QED
    BY <1>1 DEF EntryRow

LEMMA LogGrows ==
    ASSUME TypeOK, NEW entry \in EntryRow, history' = Append(history, entry)
    PROVE  /\ history' \in Seq(EntryRow)
           /\ Len(history) \in Nat /\ DOMAIN history = 1 .. Len(history)
           /\ DOMAIN history' = 1 .. Len(history) + 1
           /\ \A i \in DOMAIN history : history'[i] = history[i]
           /\ history'[Len(history) + 1] = entry
  BY DEF TypeOK

LEMMA QuietTypes ==
    ASSUME TypeOK, NEW r \in Request, Quiet(r)
    PROVE  TypeOK'
  <1>1. PICK q : /\ GoesOn(r, q)
                 /\ q.stage # "committed"
                 /\ q.stage = "read" => q.ticket \in Ticket /\ tickets[q.ticket].exists
    BY DEF Quiet
  <1> QED
    BY <1>1 DEF Quiet, GoesOn, TypeOK

LEMMA MadeTypes ==
    ASSUME TypeOK, NEW r \in Request, Made(r)
    PROVE  TypeOK'
  <1>1. PICK t \in Ticket, row \in Row, q \in RequestState :
           /\ tickets' = [tickets EXCEPT ![t] = row]
           /\ GoesOn(r, q)
           /\ q.stage = "committed" /\ q.ticket = t /\ q.row = row
           /\ UNCHANGED <<roles, history>>
    BY DEF Made
  <1>2. /\ tickets' \in [Ticket -> {NoTicket} \cup Row]
        /\ tickets'[t].exists
        /\ \A u \in Ticket : tickets[u].exists => tickets'[u].exists
    BY <1>1 DEF TypeOK, Row
  <1>3. \A i \in DOMAIN history' : tickets'[history'[i].ticket].exists
    BY <1>1, <1>2, LogTypes DEF TypeOK
  <1>4. \A s \in Request : requests'[s].stage \in {"committed", "read"}
                           => tickets'[requests'[s].ticket].exists
    BY <1>1, <1>2, RequestForms DEF GoesOn, TypeOK
  <1> QED
    BY <1>1, <1>2, <1>3, <1>4 DEF TypeOK, GoesOn

LEMMA ChangeTypes ==
    ASSUME TypeOK, NEW r \in Request, Over(r),
           NEW t \in Ticket, tickets[t].exists, NEW row \in Row,
           tickets' = [tickets EXCEPT ![t] = row],
           NEW entry \in EntryRow, entry.ticket = t,
           history' = Append(history, entry),
           UNCHANGED roles
    PROVE  TypeOK'
  <1>1. PICK q : GoesOn(r, q) /\ q.stage \notin {"committed", "read"}
    BY DEF Over
  <1>2. /\ tickets' \in [Ticket -> {NoTicket} \cup Row]
        /\ \A u \in Ticket : tickets[u].exists => tickets'[u].exists
    BY DEF TypeOK, Row
  <1>3. history' \in Seq(EntryRow)
    BY LogGrows
  <1>4. \A i \in DOMAIN history' : tickets'[history'[i].ticket].exists
    <2> SUFFICES ASSUME NEW i \in DOMAIN history' PROVE tickets'[history'[i].ticket].exists
      OBVIOUS
    <2>1. CASE i \in DOMAIN history
      <3>1. history'[i] = history[i] /\ history[i].ticket \in Ticket
        BY <2>1, LogGrows, LogTypes
      <3>2. tickets[history[i].ticket].exists
        BY <2>1 DEF TypeOK
      <3> QED
        BY <1>2, <3>1, <3>2
    <2>2. CASE i \notin DOMAIN history
      <3>1. history'[i] = entry
        BY <2>2, LogGrows
      <3> QED
        BY <1>2, <3>1
    <2> QED
      BY <2>1, <2>2
  <1>5. \A s \in Request : requests'[s].stage \in {"committed", "read"}
                           => requests'[s] = requests[s] /\ tickets'[requests'[s].ticket].exists
    BY <1>1, <1>2, RequestForms DEF GoesOn, TypeOK
  <1> QED
    BY <1>1, <1>2, <1>3, <1>4, <1>5 DEF TypeOK, GoesOn

LEMMA LoggedTypes ==
    ASSUME TypeOK, NEW r \in Request, Logged(r)
    PROVE  TypeOK'
  <1>1. PICK entry \in EntryRow :
           /\ Over(r)
           /\ requests[r].stage = "committed"
           /\ entry.ticket = requests[r].ticket
           /\ history' = Append(history, entry)
           /\ UNCHANGED <<roles, tickets>>
    BY DEF Logged
  <1> DEFINE t == requests[r].ticket
  <1>2. t \in Ticket /\ tickets[t].exists
    BY <1>1, RequestForms DEF TypeOK
  <1>3. tickets[t] \in Row /\ tickets' = [tickets EXCEPT ![t] = tickets[t]]
    BY <1>1, <1>2, ExistingIsRow DEF TypeOK
  <1> HIDE DEF t
  <1> QED
    BY <1>1, <1>2, <1>3, ChangeTypes DEF t

LEMMA AuditedTypes ==
    ASSUME TypeOK, NEW r \in Request, Audited(r)
    PROVE  TypeOK'
  BY ChangeTypes DEF Audited, Visible

LEMMA OthersTypes ==
    ASSUME TypeOK,
           \/ \E u \in User, role \in MemberRole \cup {"none"} : ChangeMembership(u, role)
           \/ Crash
           \/ UNCHANGED vars
    PROVE  TypeOK'
  <1>1. ASSUME NEW u \in User, NEW role \in MemberRole \cup {"none"}, ChangeMembership(u, role)
        PROVE  TypeOK'
    BY <1>1 DEF ChangeMembership, ChangeRole, TypeOK
  <1>2. CASE Crash
    <2>1. Answered(0, "crash") \in RequestState /\ Answered(0, "crash").stage = "answered"
      BY DEF Answered, RequestState, Cause
    <2>2. \A r \in Request : requests'[r] \in {requests[r], Answered(0, "crash")}
      BY <1>2 DEF Crash
    <2>3. requests' \in [Request -> RequestState]
      BY <1>2, <2>1 DEF Crash, TypeOK
    <2> QED
      BY <1>2, <2>1, <2>2, <2>3 DEF Crash, TypeOK
  <1>3. CASE UNCHANGED vars
    BY <1>3 DEF vars, TypeOK
  <1> QED
    BY <1>1, <1>2, <1>3

THEOREM NextTypes == TypeOK /\ [Next]_vars => TypeOK'
  BY StepKinds, QuietTypes, MadeTypes, LoggedTypes, AuditedTypes, OthersTypes

\* Rows, entries and requests keep their form, and whatever refers to a ticket
\* refers to one that has been made: nothing deletes a row.
THEOREM TicketTypesCorrect == Spec => []TypeOK
  BY InitTypes, NextTypes, PTL DEF Spec

-----------------------------------------------------------------------------
(***************************************************************************)
(* The life of a ticket.                                                   *)
(***************************************************************************)
LEMMA ProgressRange ==
    ASSUME TypeOK, NEW t \in Ticket, tickets[t].exists
    PROVE  Progress[tickets[t].status] \in 0 .. 2
  <1>1. tickets[t].status \in Status
    BY ExistingIsRow DEF Row
  <1>2. \A status \in Status : Progress[status] \in 0 .. 2
    BY DEF Progress, Status
  <1> QED
    BY <1>1, <1>2

LEMMA NothingMovesQuietly ==
    ASSUME TypeOK, UNCHANGED tickets
    PROVE  /\ \A t \in Ticket : tickets[t].exists =>
                 /\ tickets'[t].exists
                 /\ Progress[tickets[t].status] <= Progress[tickets'[t].status]
                 /\ (tickets[t].deleted => tickets'[t] = tickets[t])
           /\ \A t \in Ticket : ~NewlyAssigned(t)
  <1>1. \A t \in Ticket : tickets[t].exists => Progress[tickets[t].status] \in 0 .. 2
    BY ProgressRange
  <1> QED
    BY <1>1 DEF NewlyAssigned

LEMMA StepsMoveForward ==
    ASSUME TypeOK, [Next]_vars
    PROVE  /\ \A t \in Ticket : tickets[t].exists =>
                 /\ tickets'[t].exists
                 /\ Progress[tickets[t].status] <= Progress[tickets'[t].status]
                 /\ (tickets[t].deleted => tickets'[t] = tickets[t])
           /\ \A t \in Ticket : NewlyAssigned(t) => IsMember(tickets'[t].assignee)
  <1>1. CASE UNCHANGED tickets
    BY <1>1, NothingMovesQuietly
  <1>2. ASSUME NEW r \in Request, Made(r)
        PROVE  /\ \A t \in Ticket : tickets[t].exists => tickets'[t] = tickets[t]
               /\ \A t \in Ticket : NewlyAssigned(t) => IsMember(tickets'[t].assignee)
    BY <1>2 DEF Made, NewlyAssigned, TypeOK
  <1>3. ASSUME NEW r \in Request, Audited(r)
        PROVE  /\ \A t \in Ticket : tickets[t].exists =>
                     /\ tickets'[t].exists
                     /\ (tickets'[t] = tickets[t]
                           \/ Progress[tickets[t].status] <= Progress[tickets'[t].status])
                     /\ (tickets[t].deleted => tickets'[t] = tickets[t])
               /\ \A t \in Ticket : NewlyAssigned(t) => IsMember(tickets'[t].assignee)
    <2>1. PICK t \in Ticket, row \in Row :
             /\ Visible(t)
             /\ tickets' = [tickets EXCEPT ![t] = row]
             /\ Progress[tickets[t].status] <= Progress[row.status]
             /\ row.assignee \notin {NoOne, tickets[t].assignee} => IsMember(row.assignee)
      BY <1>3 DEF Audited
    <2>2. tickets'[t] = row /\ \A u \in Ticket : u # t => tickets'[u] = tickets[u]
      BY <2>1 DEF TypeOK
    <2>3. row.exists
      BY DEF Row
    <2> QED
      BY <2>1, <2>2, <2>3 DEF Visible, NewlyAssigned
  <1>4. \A t \in Ticket : tickets[t].exists => Progress[tickets[t].status] \in 0 .. 2
    BY ProgressRange
  <1>5. \/ UNCHANGED tickets
        \/ \E r \in Request : Made(r) \/ Audited(r)
    BY StepKinds DEF Quiet, Logged, ChangeMembership, Crash, vars
  <1> QED
    BY <1>1, <1>2, <1>3, <1>4, <1>5

\* No race takes a ticket back to an earlier status or changes a deleted one.
THEOREM TicketsMoveForward == Spec => MovesForward
  BY StepsMoveForward, TicketTypesCorrect, PTL DEF Spec, MovesForward

\* However late it comes after the read, an assignment is to a member.
THEOREM MembersAreAssigned == Spec => AssigneesAreMembers
  BY StepsMoveForward, TicketTypesCorrect, PTL DEF Spec, AssigneesAreMembers

\* The tickets as comments see them: those that no request has deleted.
Undeleted == {t \in Ticket : ~(tickets[t].exists /\ tickets[t].deleted)}

LEMMA OneIsDeleted ==
    ASSUME TypeOK, [Next]_vars
    PROVE  (\E t \in Undeleted : Undeleted' = Undeleted \ {t}) \/ Undeleted' = Undeleted
  <1>1. CASE UNCHANGED tickets
    BY <1>1 DEF Undeleted
  <1>2. ASSUME NEW t \in Ticket, NEW row, tickets' = [tickets EXCEPT ![t] = row],
               tickets[t].exists /\ tickets[t].deleted => row = tickets[t]
        PROVE  (\E u \in Undeleted : Undeleted' = Undeleted \ {u}) \/ Undeleted' = Undeleted
    <2>1. \A u \in Ticket : tickets'[u] = IF u = t THEN row ELSE tickets[u]
      BY <1>2 DEF TypeOK
    <2>2. CASE row.exists /\ row.deleted /\ t \in Undeleted
      <3>1. Undeleted' = Undeleted \ {t}
        BY <2>1, <2>2 DEF Undeleted
      <3>2. QED BY <2>2, <3>1
    <2>3. CASE ~(row.exists /\ row.deleted) \/ t \notin Undeleted
      BY <1>2, <2>1, <2>3 DEF Undeleted
    <2>4. QED BY <2>2, <2>3
  <1>3. ASSUME NEW r \in Request, Made(r) \/ Audited(r)
        PROVE  (\E u \in Undeleted : Undeleted' = Undeleted \ {u}) \/ Undeleted' = Undeleted
    <2>1. PICK t \in Ticket, row \in Row :
              /\ tickets' = [tickets EXCEPT ![t] = row]
              /\ ~(tickets[t].exists /\ tickets[t].deleted)
      <3>1. CASE Made(r)
        BY <3>1 DEF Made
      <3>2. CASE Audited(r)
        BY <3>2 DEF Audited, Visible
      <3>3. QED BY <1>3, <3>1, <3>2
    <2>2. QED BY <1>2, <2>1
  <1>4. \/ UNCHANGED tickets
        \/ \E r \in Request : Made(r) \/ Audited(r)
    BY StepKinds DEF Quiet, Logged, ChangeMembership, Crash, vars
  <1>5. QED BY <1>1, <1>3, <1>4

\* Tickets vanish one at a time and do not come back, as Comments lets them: no
\* step of the services of tickets does anything else to what comments see.
THEOREM DeletedOneByOne ==
    Spec => /\ Undeleted = Ticket
            /\ [][\E t \in Undeleted : Undeleted' = Undeleted \ {t}]_Undeleted
  <1>1. Init => Undeleted = Ticket
    BY DEF Init, NoTicket, Undeleted
  <1>2. TypeOK /\ [Next]_vars
            => [\E t \in Undeleted : Undeleted' = Undeleted \ {t}]_Undeleted
    BY OneIsDeleted
  <1>3. QED BY <1>1, <1>2, TicketTypesCorrect, PTL DEF Spec

-----------------------------------------------------------------------------
(***************************************************************************)
(* The history replays.  A trail is what the log says of one field of one  *)
(* ticket; these operators are HistoryReplays taken apart, of any log.     *)
(***************************************************************************)
Trail(log, t, field) ==
    {i \in DOMAIN log : /\ log[i].ticket = t
                        /\ log[i].action # "create"
                        /\ field \in DOMAIN log[i].old}

Creations(log, t) == {i \in DOMAIN log : log[i].ticket = t /\ log[i].action = "create"}

Linked(log, t, field) ==
    \A i, j \in Trail(log, t, field) :
        i < j /\ (\A k \in Trail(log, t, field) : k <= i \/ j <= k)
            => After(log[i], field) = log[j].old[field]

EndsAt(log, t, field, value) ==
    \A i \in Trail(log, t, field) :
        (\A k \in Trail(log, t, field) : k <= i) => After(log[i], field) = value

StartsAt(log, t, field, first, value) ==
    /\ \A i \in Trail(log, t, field) :
          (\A k \in Trail(log, t, field) : i <= k) => first = log[i].old[field]
    /\ Trail(log, t, field) = {} => first = value

Replays(log, t, field, value) ==
    /\ Linked(log, t, field)
    /\ EndsAt(log, t, field, value)
    /\ \A c \in Creations(log, t) : StartsAt(log, t, field, log[c].new[field], value)

\* The log with one entry more, at place n.
Extended(log, entry, longer, n) ==
    /\ n \in Nat /\ n \notin DOMAIN log
    /\ DOMAIN longer = DOMAIN log \cup {n}
    /\ \A i \in DOMAIN log : i \in Nat /\ i < n /\ longer[i] = log[i]
    /\ longer[n] = entry

LEMMA AppendExtends ==
    ASSUME NEW log \in Seq(EntryRow), NEW entry \in EntryRow
    PROVE  Extended(log, entry, Append(log, entry), Len(log) + 1)
  <1>1. Append(log, entry) \in Seq(EntryRow) /\ Len(log) \in Nat
    OBVIOUS
  <1>2. DOMAIN log = 1 .. Len(log)
    OBVIOUS
  <1>3. DOMAIN Append(log, entry) = 1 .. Len(log) + 1
    BY <1>1
  <1>4. \A i \in 1 .. Len(log) : Append(log, entry)[i] = log[i]
    OBVIOUS
  <1>5. Append(log, entry)[Len(log) + 1] = entry
    OBVIOUS
  <1> QED
    BY <1>1, <1>2, <1>3, <1>4, <1>5 DEF Extended

\* What the entry does to the trails.
LEMMA TrailSame ==
    ASSUME NEW log, NEW entry, NEW longer, NEW n, Extended(log, entry, longer, n),
           NEW t, NEW field,
           entry.ticket # t \/ entry.action = "create" \/ field \notin DOMAIN entry.old
    PROVE  /\ Trail(longer, t, field) = Trail(log, t, field)
           /\ \A i \in Trail(log, t, field) : longer[i] = log[i]
  BY DEF Extended, Trail

LEMMA TrailGrows ==
    ASSUME NEW log, NEW entry, NEW longer, NEW n, Extended(log, entry, longer, n),
           NEW t, NEW field,
           entry.ticket = t, entry.action # "create", field \in DOMAIN entry.old
    PROVE  /\ Trail(longer, t, field) = Trail(log, t, field) \cup {n}
           /\ \A i \in Trail(log, t, field) : longer[i] = log[i] /\ i \in Nat /\ i < n
           /\ n \in Nat /\ longer[n] = entry
  BY DEF Extended, Trail

LEMMA TrailSkips ==
    ASSUME NEW log, NEW entry, NEW longer, NEW n, Extended(log, entry, longer, n),
           NEW t, NEW field, NEW value,
           entry.ticket # t \/ entry.action = "create" \/ field \notin DOMAIN entry.old
    PROVE  /\ \A first : StartsAt(log, t, field, first, value)
                            => StartsAt(longer, t, field, first, value)
           /\ Linked(log, t, field) => Linked(longer, t, field)
           /\ EndsAt(log, t, field, value) => EndsAt(longer, t, field, value)
  <1> DEFINE trail == Trail(log, t, field)
  <1>1. /\ Trail(longer, t, field) = trail
        /\ \A i \in trail : longer[i] = log[i]
    BY TrailSame
  <1> HIDE DEF trail
  <1>2. ASSUME NEW first, StartsAt(log, t, field, first, value)
        PROVE  StartsAt(longer, t, field, first, value)
    BY <1>1, <1>2 DEF StartsAt, trail
  <1>3. ASSUME Linked(log, t, field)
        PROVE  Linked(longer, t, field)
    BY <1>1, <1>3 DEF Linked, trail
  <1>4. ASSUME EndsAt(log, t, field, value)
        PROVE  EndsAt(longer, t, field, value)
    BY <1>1, <1>4 DEF EndsAt, trail
  <1> QED
    BY <1>2, <1>3, <1>4

LEMMA TrailTold ==
    ASSUME NEW log, NEW entry, NEW longer, NEW n, Extended(log, entry, longer, n),
           NEW t, NEW field, NEW value,
           entry.ticket = t, entry.action # "create", field \in DOMAIN entry.old,
           entry.old[field] = value
    PROVE  /\ \A first : StartsAt(log, t, field, first, value)
                            => StartsAt(longer, t, field, first, After(entry, field))
           /\ Linked(log, t, field) /\ EndsAt(log, t, field, value) => Linked(longer, t, field)
           /\ EndsAt(longer, t, field, After(entry, field))
  <1> DEFINE trail == Trail(log, t, field)
  <1>1. /\ Trail(longer, t, field) = trail \cup {n}
        /\ \A i \in trail : longer[i] = log[i] /\ i \in Nat /\ i < n
        /\ n \in Nat /\ longer[n] = entry
    BY TrailGrows
  <1>2. ASSUME NEW first, StartsAt(log, t, field, first, value)
        PROVE  StartsAt(longer, t, field, first, After(entry, field))
    <2>1. /\ \A i \in trail : (\A k \in trail : i <= k) => first = log[i].old[field]
          /\ trail = {} => first = value
      BY <1>2 DEF StartsAt
    <2> HIDE DEF trail
    <2>2. ASSUME NEW i \in trail \cup {n}, \A k \in trail \cup {n} : i <= k
          PROVE  first = longer[i].old[field]
      <3>1. CASE trail = {}
        BY <1>1, <2>1, <2>2, <3>1
      <3>2. CASE trail # {}
        <4>1. PICK k \in trail : TRUE
          BY <3>2
        <4>2. i # n
          BY <1>1, <2>2, <4>1
        <4> QED
          BY <1>1, <2>1, <2>2, <4>2
      <3> QED
        BY <3>1, <3>2
    <2> QED
      BY <1>1, <2>2 DEF StartsAt
  <1>3. ASSUME Linked(log, t, field), EndsAt(log, t, field, value)
        PROVE  Linked(longer, t, field)
    <2>1. /\ \A i, j \in trail : i < j /\ (\A k \in trail : k <= i \/ j <= k)
                => After(log[i], field) = log[j].old[field]
          /\ \A i \in trail : (\A k \in trail : k <= i) => After(log[i], field) = value
      BY <1>3 DEF Linked, EndsAt
    <2> HIDE DEF trail
    <2>2. ASSUME NEW i \in trail \cup {n}, NEW j \in trail \cup {n}, i < j,
                 \A k \in trail \cup {n} : k <= i \/ j <= k
          PROVE  After(longer[i], field) = longer[j].old[field]
      <3>1. i \in trail /\ longer[i] = log[i]
        BY <1>1, <2>2
      <3>2. CASE j = n
        <4>1. \A k \in trail : k <= i
          BY <1>1, <2>2, <3>2
        <4> QED
          BY <1>1, <2>1, <3>1, <3>2, <4>1
      <3>3. CASE j \in trail
        BY <1>1, <2>1, <2>2, <3>1, <3>3
      <3> QED
        BY <3>2, <3>3
    <2> QED
      BY <1>1, <2>2 DEF Linked
  <1>4. EndsAt(longer, t, field, After(entry, field))
    <2> HIDE DEF trail
    <2>1. ASSUME NEW i \in trail \cup {n}, \A k \in trail \cup {n} : k <= i
          PROVE  i = n
      BY <1>1, <2>1
    <2> QED
      BY <1>1, <2>1 DEF EndsAt
  <1> QED
    BY <1>2, <1>3, <1>4

\* What it does to the creations.
LEMMA CreationsSame ==
    ASSUME NEW log, NEW entry, NEW longer, NEW n, Extended(log, entry, longer, n), NEW t,
           entry.ticket # t \/ entry.action # "create"
    PROVE  /\ Creations(longer, t) = Creations(log, t)
           /\ \A c \in Creations(log, t) : longer[c] = log[c]
  BY DEF Extended, Creations

LEMMA CreationsGrow ==
    ASSUME NEW log, NEW entry, NEW longer, NEW n, Extended(log, entry, longer, n), NEW t
    PROVE  /\ Creations(longer, t) \subseteq Creations(log, t) \cup {n}
           /\ \A c \in Creations(log, t) : longer[c] = log[c]
           /\ longer[n] = entry
  BY DEF Extended, Creations

\* The three ways an entry keeps the replay of a field going.
LEMMA ReplaySkips ==
    ASSUME NEW log, NEW entry, NEW longer, NEW n, Extended(log, entry, longer, n),
           NEW t, NEW field, NEW value, Replays(log, t, field, value),
           entry.ticket # t \/ (entry.action # "create" /\ field \notin DOMAIN entry.old)
    PROVE  Replays(longer, t, field, value)
  <1>1. /\ \A first : StartsAt(log, t, field, first, value)
                         => StartsAt(longer, t, field, first, value)
        /\ Linked(longer, t, field) /\ EndsAt(longer, t, field, value)
    BY TrailSkips DEF Replays
  <1> QED
    BY <1>1, CreationsSame DEF Replays

LEMMA ReplayGoesOn ==
    ASSUME NEW log, NEW entry, NEW longer, NEW n, Extended(log, entry, longer, n),
           NEW t, NEW field, NEW value, Replays(log, t, field, value),
           entry.ticket = t, entry.action # "create", field \in DOMAIN entry.old,
           entry.old[field] = value
    PROVE  Replays(longer, t, field, After(entry, field))
  <1>1. /\ \A first : StartsAt(log, t, field, first, value)
                         => StartsAt(longer, t, field, first, After(entry, field))
        /\ Linked(longer, t, field) /\ EndsAt(longer, t, field, After(entry, field))
    BY TrailTold DEF Replays
  <1> QED
    BY <1>1, CreationsSame DEF Replays

LEMMA ReplayGetsItsCreation ==
    ASSUME NEW log, NEW entry, NEW longer, NEW n, Extended(log, entry, longer, n),
           NEW t, NEW field, NEW value, Replays(log, t, field, value),
           entry.ticket = t, entry.action = "create",
           StartsAt(log, t, field, entry.new[field], value)
    PROVE  Replays(longer, t, field, value)
  <1>1. /\ \A first : StartsAt(log, t, field, first, value)
                         => StartsAt(longer, t, field, first, value)
        /\ Linked(longer, t, field) /\ EndsAt(longer, t, field, value)
    BY TrailSkips DEF Replays
  <1>2. ASSUME NEW c \in Creations(longer, t)
        PROVE  StartsAt(longer, t, field, longer[c].new[field], value)
    <2>1. CASE c = n
      BY <1>1, <2>1, CreationsGrow
    <2>2. CASE c \in Creations(log, t)
      <3>1. StartsAt(log, t, field, log[c].new[field], value)
        BY <2>2 DEF Replays
      <3> QED
        BY <1>1, <2>2, <3>1, CreationsGrow
    <2> QED
      BY <2>1, <2>2, CreationsGrow
  <1> QED
    BY <1>1, <1>2 DEF Replays

\* The log replays the table, and the entry a committed creation is about to
\* write holds the first value of every field, whatever has happened since.
TableReplays ==
    \A t \in Ticket, field \in AuditedField : Replays(history, t, field, tickets[t][field])

CreationFits(r) ==
    requests[r].stage = "committed" =>
        \A field \in AuditedField :
            StartsAt(history, requests[r].ticket, field, requests[r].row[field],
                     tickets[requests[r].ticket][field])

ReplaysInv == TypeOK /\ TableReplays /\ \A r \in Request : CreationFits(r)

LEMMA ReplaysUndisturbed ==
    ASSUME ReplaysInv, UNCHANGED <<tickets, history>>,
           \A r \in Request : requests'[r].stage = "committed" => requests'[r] = requests[r]
    PROVE  TableReplays' /\ \A r \in Request : CreationFits(r)'
  <1>1. TableReplays'
    BY DEF ReplaysInv, TableReplays
  <1>2. ASSUME NEW r \in Request PROVE CreationFits(r)'
    BY <1>2 DEF ReplaysInv, CreationFits
  <1> QED
    BY <1>1, <1>2

LEMMA QuietReplays ==
    ASSUME ReplaysInv, NEW r \in Request, Quiet(r)
    PROVE  TableReplays' /\ \A s \in Request : CreationFits(s)'
  <1>1. \A s \in Request : requests'[s].stage = "committed" => requests'[s] = requests[s]
    BY DEF Quiet, GoesOn
  <1> QED
    BY <1>1, ReplaysUndisturbed DEF Quiet

\* A ticket nobody has seen yet is in no entry.
LEMMA NewTicketHasNoTrail ==
    ASSUME TypeOK, NEW t \in Ticket, ~tickets[t].exists, NEW field
    PROVE  Trail(history, t, field) = {} /\ Creations(history, t) = {}
  BY DEF TypeOK, Trail, Creations

LEMMA MadeReplays ==
    ASSUME ReplaysInv, NEW r \in Request, Made(r)
    PROVE  TableReplays' /\ \A s \in Request : CreationFits(s)'
  <1>1. PICK t \in Ticket, row \in Row, q \in RequestState :
           /\ ~tickets[t].exists
           /\ tickets' = [tickets EXCEPT ![t] = row]
           /\ GoesOn(r, q)
           /\ q.stage = "committed" /\ q.ticket = t /\ q.row = row
           /\ history' = history
    BY DEF Made
  <1>2. tickets'[t] = row /\ \A u \in Ticket : u # t => tickets'[u] = tickets[u]
    BY <1>1 DEF ReplaysInv, TypeOK
  <1>3. \A field : Trail(history, t, field) = {} /\ Creations(history, t) = {}
    BY <1>1, NewTicketHasNoTrail DEF ReplaysInv
  <1>4. ASSUME NEW u \in Ticket, NEW field \in AuditedField
        PROVE  Replays(history, u, field, tickets'[u][field])
    <2>1. CASE u = t
      BY <1>3, <2>1 DEF Replays, Linked, EndsAt
    <2>2. CASE u # t
      BY <1>2, <2>2 DEF ReplaysInv, TableReplays
    <2> QED
      BY <2>1, <2>2
  <1>5. ASSUME NEW s \in Request, requests'[s].stage = "committed", NEW field \in AuditedField
        PROVE  StartsAt(history, requests'[s].ticket, field, requests'[s].row[field],
                        tickets'[requests'[s].ticket][field])
    <2>1. CASE s = r
      <3>1. requests'[s].ticket = t /\ requests'[s].row = row
        BY <1>1, <2>1 DEF GoesOn
      <3> QED
        BY <1>2, <1>3, <3>1 DEF StartsAt
    <2>2. CASE s # r
      <3>1. requests'[s] = requests[s]
        BY <1>1, <2>2 DEF GoesOn
      <3>2. requests[s].ticket \in Ticket /\ tickets[requests[s].ticket].exists
        BY <1>5, <3>1, RequestForms DEF ReplaysInv, TypeOK
      <3>3. tickets'[requests[s].ticket] = tickets[requests[s].ticket]
        BY <1>1, <1>2, <3>2
      <3> QED
        BY <1>5, <3>1, <3>3 DEF ReplaysInv, CreationFits
    <2> QED
      BY <2>1, <2>2
  <1>6. TableReplays'
    BY <1>1, <1>4 DEF TableReplays
  <1>7. ASSUME NEW s \in Request PROVE CreationFits(s)'
    BY <1>1, <1>5 DEF CreationFits
  <1> QED
    BY <1>6, <1>7

LEMMA LoggedReplays ==
    ASSUME ReplaysInv, NEW r \in Request, Logged(r)
    PROVE  TableReplays' /\ \A s \in Request : CreationFits(s)'
  <1>1. PICK entry \in EntryRow :
           /\ Over(r)
           /\ requests[r].stage = "committed"
           /\ entry.ticket = requests[r].ticket /\ entry.action = "create"
           /\ \A field \in AuditedField : entry.new[field] = requests[r].row[field]
           /\ history' = Append(history, entry)
           /\ tickets' = tickets
    BY DEF Logged
  <1>2. PICK n : Extended(history, entry, history', n)
    BY <1>1, AppendExtends DEF ReplaysInv, TypeOK
  <1>3. ASSUME NEW t \in Ticket, NEW field \in AuditedField
        PROVE  Replays(history', t, field, tickets[t][field])
    <2>1. Replays(history, t, field, tickets[t][field])
      BY DEF ReplaysInv, TableReplays
    <2>2. CASE t # entry.ticket
      BY <1>2, <2>1, <2>2, ReplaySkips
    <2>3. CASE t = entry.ticket
      <3>1. StartsAt(history, t, field, entry.new[field], tickets[t][field])
        BY <1>1, <2>3 DEF ReplaysInv, CreationFits
      <3> QED
        BY <1>1, <1>2, <2>1, <2>3, <3>1, ReplayGetsItsCreation
    <2> QED
      BY <2>2, <2>3
  <1>4. ASSUME NEW s \in Request, requests'[s].stage = "committed", NEW field \in AuditedField
        PROVE  StartsAt(history', requests'[s].ticket, field, requests'[s].row[field],
                        tickets[requests'[s].ticket][field])
    <2>1. requests'[s] = requests[s]
      BY <1>1, <1>4 DEF Over, GoesOn
    <2>2. StartsAt(history, requests[s].ticket, field, requests[s].row[field],
                   tickets[requests[s].ticket][field])
      BY <1>4, <2>1 DEF ReplaysInv, CreationFits
    <2> DEFINE t == requests[s].ticket
               first == requests[s].row[field]
               value == tickets[t][field]
    <2>3. entry.action = "create"
      BY <1>1
    <2>4. StartsAt(history, t, field, first, value)
      BY <2>2
    <2> HIDE DEF t, first, value
    <2>5. StartsAt(history', t, field, first, value)
      BY ONLY <1>2, <2>3, <2>4, TrailSkips
    <2> QED
      BY <2>1, <2>5 DEF t, first, value
  <1>5. TableReplays'
    BY <1>1, <1>3 DEF TableReplays
  <1>6. ASSUME NEW s \in Request PROVE CreationFits(s)'
    BY <1>1, <1>4 DEF CreationFits
  <1> QED
    BY <1>5, <1>6

LEMMA AuditedReplays ==
    ASSUME ReplaysInv, NEW r \in Request, Audited(r)
    PROVE  TableReplays' /\ \A s \in Request : CreationFits(s)'
  <1>1. PICK t \in Ticket, row \in Row, entry \in EntryRow :
           /\ Over(r)
           /\ tickets' = [tickets EXCEPT ![t] = row]
           /\ entry.ticket = t
           /\ Tells(entry, tickets[t], row)
           /\ history' = Append(history, entry)
    BY DEF Audited
  <1>2. PICK n : Extended(history, entry, history', n)
    BY <1>1, AppendExtends DEF ReplaysInv, TypeOK
  <1>3. tickets'[t] = row /\ \A u \in Ticket : u # t => tickets'[u] = tickets[u]
    BY <1>1 DEF ReplaysInv, TypeOK
  <1>4. entry.action # "create"
    BY <1>1 DEF Tells
  <1>5. \A field \in AuditedField \cap DOMAIN entry.old :
           entry.old[field] = tickets[t][field] /\ After(entry, field) = tickets'[t][field]
    BY <1>1, <1>3 DEF Tells
  <1>6. \A field \in AuditedField \ DOMAIN entry.old : tickets'[t][field] = tickets[t][field]
    BY <1>1, <1>3 DEF Tells
  <1>7. ASSUME NEW u \in Ticket, NEW field \in AuditedField
        PROVE  Replays(history', u, field, tickets'[u][field])
    <2>1. Replays(history, u, field, tickets[u][field])
      BY DEF ReplaysInv, TableReplays
    <2>2. CASE u # t
      BY <1>1, <1>2, <1>3, <2>1, <2>2, ReplaySkips
    <2>3. CASE u = t /\ field \notin DOMAIN entry.old
      <3>1. tickets'[u][field] = tickets[u][field]
        BY <1>6, <2>3
      <3>2. Replays(history', u, field, tickets[u][field])
        BY <1>1, <1>2, <1>4, <2>1, <2>3, ReplaySkips
      <3> QED
        BY <3>1, <3>2
    <2>4. CASE u = t /\ field \in DOMAIN entry.old
      <3>1. Replays(history', u, field, After(entry, field))
        BY <1>1, <1>2, <1>4, <1>5, <2>1, <2>4, ReplayGoesOn
      <3> QED
        BY <1>5, <2>4, <3>1
    <2> QED
      BY <2>2, <2>3, <2>4
  <1>8. ASSUME NEW s \in Request, requests'[s].stage = "committed", NEW field \in AuditedField
        PROVE  StartsAt(history', requests'[s].ticket, field, requests'[s].row[field],
                        tickets'[requests'[s].ticket][field])
    <2>1. requests'[s] = requests[s]
      BY <1>1, <1>8 DEF Over, GoesOn
    <2> DEFINE u == requests[s].ticket
               first == requests[s].row[field]
    <2>2. StartsAt(history, u, field, first, tickets[u][field])
      BY <1>8, <2>1 DEF ReplaysInv, CreationFits
    <2>3. u \in Ticket
      BY <1>8, <2>1, RequestForms DEF ReplaysInv
    <2> HIDE DEF u, first
    <2>4. CASE u # t
      <3>1. StartsAt(history', u, field, first, tickets[u][field])
        BY <1>1, <1>2, <2>2, <2>4, TrailSkips
      <3>2. tickets'[u] = tickets[u]
        BY <1>3, <2>3, <2>4
      <3> QED
        BY <2>1, <3>1, <3>2 DEF u, first
    <2>5. CASE u = t /\ field \notin DOMAIN entry.old
      <3>1. tickets'[u][field] = tickets[u][field]
        BY <1>6, <2>5
      <3>2. StartsAt(history', u, field, first, tickets[u][field])
        BY <1>1, <1>2, <2>2, <2>5, TrailSkips
      <3> QED
        BY <2>1, <3>1, <3>2 DEF u, first
    <2>6. CASE u = t /\ field \in DOMAIN entry.old
      <3>1. StartsAt(history', u, field, first, After(entry, field))
        BY <1>1, <1>2, <1>4, <1>5, <2>2, <2>6, TrailTold
      <3>2. After(entry, field) = tickets'[u][field]
        BY <1>5, <2>6
      <3> QED
        BY <2>1, <3>1, <3>2 DEF u, first
    <2> QED
      BY <2>4, <2>5, <2>6
  <1>9. TableReplays'
    BY <1>7 DEF TableReplays
  <1>10. ASSUME NEW s \in Request PROVE CreationFits(s)'
    BY <1>8 DEF CreationFits
  <1> QED
    BY <1>9, <1>10

LEMMA OthersReplay ==
    ASSUME ReplaysInv,
           \/ \E u \in User, role \in MemberRole \cup {"none"} : ChangeMembership(u, role)
           \/ Crash
           \/ UNCHANGED vars
    PROVE  TableReplays' /\ \A r \in Request : CreationFits(r)'
  <1>1. UNCHANGED <<tickets, history>>
    BY DEF ChangeMembership, Crash, vars
  <1>2. \A r \in Request : requests'[r].stage = "committed" => requests'[r] = requests[r]
    BY DEF ChangeMembership, Crash, vars, Answered
  <1> QED
    BY <1>1, <1>2, ReplaysUndisturbed

LEMMA ReplaysStep == ReplaysInv /\ [Next]_vars => ReplaysInv'
  <1> SUFFICES ASSUME ReplaysInv, [Next]_vars PROVE ReplaysInv'
    OBVIOUS
  <1>1. TypeOK /\ TypeOK'
    BY NextTypes DEF ReplaysInv
  <1>2. TableReplays' /\ \A r \in Request : CreationFits(r)'
    <2>1. ASSUME NEW r \in Request, Quiet(r) \/ Made(r) \/ Logged(r) \/ Audited(r)
          PROVE  TableReplays' /\ \A s \in Request : CreationFits(s)'
      BY <2>1, QuietReplays, MadeReplays, LoggedReplays, AuditedReplays
    <2> QED
      BY <1>1, <2>1, OthersReplay, StepKinds
  <1> QED
    BY <1>1, <1>2 DEF ReplaysInv

LEMMA ReplaysInit == Init => ReplaysInv
  <1> SUFFICES ASSUME Init PROVE ReplaysInv
    OBVIOUS
  <1>1. DOMAIN history = {} /\ TypeOK
    BY InitTypes DEF Init
  <1>2. TableReplays
    BY <1>1 DEF TableReplays, Replays, Linked, EndsAt, Trail, Creations
  <1>3. \A r \in Request : CreationFits(r)
    BY DEF Init, Idle, CreationFits
  <1> QED
    BY <1>1, <1>2, <1>3 DEF ReplaysInv

\* TableReplays, put together again.
LEMMA ReplaysImplies == ReplaysInv => HistoryReplays
  <1> SUFFICES ASSUME ReplaysInv, NEW t \in Ticket, NEW field \in AuditedField
               PROVE  LET trail == {i \in DOMAIN history : Mentions(i, t, field)}
                          creation == {i \in DOMAIN history :
                                  history[i].ticket = t /\ history[i].action = "create"}
                      IN
                      /\ \A i, j \in trail :
                            i < j /\ (\A k \in trail : k <= i \/ j <= k)
                              => LeavesBehind(i, t, field) = history[j].old[field]
                      /\ \A i \in trail : (\A k \in trail : k <= i)
                              => LeavesBehind(i, t, field) = tickets[t][field]
                      /\ \A c \in creation, i \in trail : (\A k \in trail : i <= k)
                              => history[c].new[field] = history[i].old[field]
                      /\ trail = {} =>
                            \A c \in creation : history[c].new[field] = tickets[t][field]
    BY DEF HistoryReplays
  <1>1. /\ {i \in DOMAIN history : Mentions(i, t, field)} = Trail(history, t, field)
        /\ {i \in DOMAIN history :
               history[i].ticket = t /\ history[i].action = "create"} = Creations(history, t)
    BY DEF Mentions, Trail, Creations
  <1>2. \A i : LeavesBehind(i, t, field) = After(history[i], field)
    BY DEF LeavesBehind, After
  <1>3. Replays(history, t, field, tickets[t][field])
    BY DEF ReplaysInv, TableReplays
  <1> QED
    BY <1>1, <1>2, <1>3 DEF Replays, Linked, EndsAt, StartsAt

\* The audit log tells the whole life of every ticket, in every interleaving of
\* the requests and with entries of creations that come late or never.
THEOREM TicketHistoryReplays == Spec => []HistoryReplays
  BY ReplaysInit, ReplaysStep, ReplaysImplies, PTL DEF Spec

-----------------------------------------------------------------------------
(***************************************************************************)
(* Server errors.                                                          *)
(***************************************************************************)
\* A state of a request that blames the server only for a failure of its own.
Honest(q) ==
    q.stage = "answered" /\ q.status = 500 => q.cause \in {"unknown-error", "comment-count"}

BecomesHonestly(r) == \E q : requests' = [requests EXCEPT ![r] = q] /\ Honest(q)

LEMMA KnownErrorsAreNoServerErrors ==
    ASSUME NEW op \in Op, NEW error \in KnownErrors(op)
    PROVE  ErrorStatus(op, error) # 500
  BY DEF ErrorStatus

LEMMA FailIsHonest ==
    ASSUME NEW r \in Request, NEW error, Fail(r, error), requests[r].op \in Op,
           error \in KnownErrors(requests[r].op) \cup {"unknown-error"}
    PROVE  BecomesHonestly(r)
  <1> DEFINE q == Answered(ErrorStatus(requests[r].op, error), error)
  <1>1. requests' = [requests EXCEPT ![r] = q]
    BY DEF Fail, Refuse
  <1>2. q.status = ErrorStatus(requests[r].op, error) /\ q.cause = error
    BY DEF Answered
  <1> HIDE DEF q
  <1>3. error = "unknown-error" \/ ErrorStatus(requests[r].op, error) # 500
    BY KnownErrorsAreNoServerErrors
  <1>4. Honest(q)
    BY <1>2, <1>3 DEF Honest
  <1> QED
    BY <1>1, <1>4 DEF BecomesHonestly

LEMMA AnswerIsHonest ==
    ASSUME NEW r \in Request, NEW status \in {200, 201, 204}, Answer(r, status)
    PROVE  BecomesHonestly(r)
  <1>1. Honest(Answered(status, "none"))
    BY DEF Honest, Answered
  <1> QED
    BY <1>1 DEF Answer, BecomesHonestly

LEMMA StageIsHonest ==
    ASSUME NEW r \in Request, NEW q, requests' = [requests EXCEPT ![r] = q],
           q.stage # "answered"
    PROVE  BecomesHonestly(r)
  BY DEF BecomesHonestly, Honest

LEMMA SucceedIsHonest ==
    ASSUME NEW r \in Request, NEW t, Succeed(r, t)
    PROVE  BecomesHonestly(r)
  <1>1. Counting(t).stage # "answered"
    BY DEF Counting
  <1> QED
    BY <1>1, StageIsHonest DEF Succeed

\* Every controller knows the errors its service raises.
LEMMA NotFoundIsHonest ==
    ASSUME NEW r \in Request, NotFound(r), requests[r].op \in Op \ {"create"}
    PROVE  BecomesHonestly(r)
  <1>1. "ticket-not-found" \in KnownErrors(requests[r].op)
    BY DEF Op, KnownErrors, mapUpdateTicketError, mapUpdateTicketStatusError,
           mapUpdateTicketPriorityError, mapUpdateTicketAssigneeError, mapDeleteTicketError
  <1> QED
    BY <1>1, FailIsHonest DEF NotFound

LEMMA CreateIsHonest ==
    ASSUME NEW r \in Request, createTicket(r)
    PROVE  BecomesHonestly(r)
  <1>1. requests[r].op = "create"
    BY DEF createTicket, IsPending
  <1>2. CASE Fail(r, "user-not-organization-member")
    BY <1>1, <1>2, FailIsHonest DEF KnownErrors, mapCreateTicketError, Op
  <1>3. ASSUME NEW t, NEW row,
               requests' = [requests EXCEPT ![r] = Committed(t, requests[r].actor, row)]
        PROVE  BecomesHonestly(r)
    <2>1. Committed(t, requests[r].actor, row).stage # "answered"
      BY DEF Committed
    <2> QED
      BY <1>3, <2>1, StageIsHonest
  <1> QED
    BY <1>2, <1>3 DEF createTicket

LEMMA UpdatesAreHonest ==
    ASSUME NEW r \in Request, updateTicket(r) \/ updateTicketStatus(r) \/ updateTicketPriority(r)
    PROVE  BecomesHonestly(r)
  <1>1. requests[r].op \in {"update", "status", "priority"}
    BY DEF updateTicket, updateTicketStatus, updateTicketPriority, IsPending
  <1>2. requests[r].op \in Op \ {"create"}
    BY <1>1 DEF Op
  <1>3. CASE NotFound(r)
    BY <1>2, <1>3, NotFoundIsHonest
  <1>4. CASE \E t \in Ticket : Succeed(r, t)
    BY <1>4, SucceedIsHonest
  <1>5. CASE updateTicketStatus(r) /\ Fail(r, "validation-error")
    <2>1. requests[r].op = "status"
      BY <1>5 DEF updateTicketStatus, IsPending
    <2> QED
      BY <1>5, <2>1, FailIsHonest DEF KnownErrors, mapUpdateTicketStatusError, Op
  <1>6. NotFound(r) \/ (\E t \in Ticket : Succeed(r, t)) \/ (updateTicketStatus(r) /\ Fail(r, "validation-error"))
    BY DEF updateTicket, updateTicketStatus, updateTicketPriority
  <1> QED
    BY <1>3, <1>4, <1>5, <1>6

LEMMA AssigneeIsHonest ==
    ASSUME TypeOK, NEW r \in Request, readTicketForAssignee(r) \/ updateTicketAssignee(r)
    PROVE  BecomesHonestly(r)
  <1>1. requests[r].op = "assignee"
    BY DEF readTicketForAssignee, updateTicketAssignee, IsPending, TypeOK, RequestState, Idle
  <1>2. \A error \in {"user-not-organization-member", "ticket-not-found", "ticket-conflict"} :
           Fail(r, error) => BecomesHonestly(r)
    BY <1>1, FailIsHonest DEF KnownErrors, mapUpdateTicketAssigneeError, Op
  <1>3. CASE \E t : Succeed(r, t)
    BY <1>3, SucceedIsHonest
  <1>4. CASE readTicketForAssignee(r) /\ ~(\E t : Succeed(r, t))
    <2>1. PICK t \in Ticket, assignee \in Assignee :
             \/ requests' = [requests EXCEPT ![r] =
                   ReadTicket(requests[r].actor, t, tickets[t].assignee, assignee)]
             \/ Fail(r, "ticket-not-found")
      BY <1>4 DEF readTicketForAssignee
    <2>2. ReadTicket(requests[r].actor, t, tickets[t].assignee, assignee).stage # "answered"
      BY DEF ReadTicket
    <2> QED
      BY <1>2, <2>1, <2>2, StageIsHonest
  <1>5. CASE updateTicketAssignee(r) /\ ~(\E t : Succeed(r, t))
    <2>1. /\ Fail(r, AssigneeOutcome(requests[r]))
          /\ AssigneeOutcome(requests[r]) # "ok"
      BY <1>5 DEF updateTicketAssignee
    <2>2. AssigneeOutcome(requests[r])
             \in {"user-not-organization-member", "ticket-not-found", "ticket-conflict"}
      BY <2>1 DEF AssigneeOutcome
    <2> QED
      BY <1>2, <2>1, <2>2
  <1> QED
    BY <1>3, <1>4, <1>5

LEMMA EndsAreHonest ==
    ASSUME TypeOK, NEW r \in Request,
           \/ recordTicketCreationAuditLog(r) \/ deleteTicket(r) \/ serializeTicket(r)
           \/ CommentCountFails(r) \/ TransactionFails(r) \/ EnterTicketScope(r)
    PROVE  BecomesHonestly(r)
  <1>1. CASE recordTicketCreationAuditLog(r) \/ serializeTicket(r)
    BY <1>1, AnswerIsHonest DEF recordTicketCreationAuditLog, serializeTicket
  <1>2. CASE deleteTicket(r)
    <2>1. requests[r].op \in Op \ {"create"}
      BY <1>2 DEF deleteTicket, IsPending, Op
    <2>2. Answer(r, 204) \/ NotFound(r)
      BY <1>2 DEF deleteTicket
    <2> QED
      BY <2>1, <2>2, AnswerIsHonest, NotFoundIsHonest
  <1>3. CASE CommentCountFails(r)
    <2>1. Honest(Answered(500, "comment-count"))
      BY DEF Honest, Answered
    <2> QED
      BY <1>3, <2>1 DEF CommentCountFails, Refuse, BecomesHonestly
  <1>4. CASE TransactionFails(r)
    <2>1. requests[r].op \in Op
      BY <1>4 DEF TransactionFails, TypeOK, RequestState, Idle, Op
    <2> QED
      BY <1>4, <2>1, FailIsHonest DEF TransactionFails
  <1>5. CASE EnterTicketScope(r)
    <2>1. PICK op, actor : requests' = [requests EXCEPT ![r] = Scoped(op, actor)]
      BY <1>5 DEF EnterTicketScope
    <2>2. Scoped(op, actor).stage # "answered"
      BY DEF Scoped
    <2> QED
      BY <2>1, <2>2, StageIsHonest
  <1> QED
    BY <1>1, <1>2, <1>3, <1>4, <1>5

LEMMA ErrorsStep ==
    ASSUME TypeOK, ServerErrorsAreFailures, [Next]_vars
    PROVE  ServerErrorsAreFailures'
  <1>1. \A r \in Request : Honest(requests[r])
    BY DEF ServerErrorsAreFailures, Honest
  <1>2. ASSUME NEW r \in Request, BecomesHonestly(r)
        PROVE  \A s \in Request : Honest(requests'[s])
    BY <1>1, <1>2 DEF BecomesHonestly, TypeOK
  <1>3. CASE Crash
    <2>1. Honest(Answered(0, "crash"))
      BY DEF Honest, Answered
    <2> QED
      BY <1>1, <1>3, <2>1 DEF Crash, ServerErrorsAreFailures, Honest
  <1>4. CASE UNCHANGED requests
    BY <1>4 DEF ServerErrorsAreFailures
  <1>5. \/ \E r \in Request : BecomesHonestly(r)
        \/ Crash
        \/ UNCHANGED requests
    BY CreateIsHonest, UpdatesAreHonest, AssigneeIsHonest, EndsAreHonest
    DEF Next, ChangeMembership, vars
  <1> QED
    BY <1>2, <1>3, <1>4, <1>5 DEF ServerErrorsAreFailures, Honest

\* No refusal of a service falls through to the answer for failures.
THEOREM ServerErrorsAreTrue == Spec => []ServerErrorsAreFailures
  <1>1. Init => TypeOK /\ ServerErrorsAreFailures
    BY InitTypes DEF Init, Idle, ServerErrorsAreFailures
  <1>2. /\ TypeOK /\ ServerErrorsAreFailures /\ [Next]_vars
        => (TypeOK /\ ServerErrorsAreFailures)'
    BY NextTypes, ErrorsStep
  <1> QED
    BY <1>1, <1>2, PTL DEF Spec

=============================================================================
