----------------------------- MODULE Dashboard -----------------------------
(***************************************************************************)
(* The dashboard of an organization (services/dashboard-service.ts): four  *)
(* queries in one transaction, whose results are put together afterwards,  *)
(* while tickets are made, changed and deleted.  The last activities of    *)
(* the log are shown as they are.                                          *)
(***************************************************************************)
EXTENDS Naturals, FiniteSets

CONSTANTS
    Ticket,
    InUse,           \* the priorities of the tickets of an instance
    NoRow,           \* a ticket that is not there, or deleted
    NotCounted,      \* a result that is still to come
    Internal         \* the answer INTERNAL

TicketStatus == {"open", "in-progress", "closed"}

TicketPriority == {"low", "medium", "high", "urgent"}

TicketRow == [status : TicketStatus, priority : InUse, mine : BOOLEAN]

ASSUME DashboardAssumption ==
    /\ IsFiniteSet(Ticket)
    /\ InUse \subseteq TicketPriority
    /\ NoRow \notin TicketRow

VARIABLES
    tickets,    \* the rows of the organization
    request,    \* the stage of the request, and what its transaction sees
    counts,     \* the results of the queries
    dashboard   \* the answer

dashboardVars == <<tickets, request, counts, dashboard>>

NoCounts == [status |-> NotCounted, priority |-> NotCounted, undone |-> NotCounted]

-----------------------------------------------------------------------------
(***************************************************************************)
(* Tickets.  A new one is open; a change is of one field, and never back   *)
(* to open, or a deletion, whose place a new ticket may take.              *)
(***************************************************************************)
Changes(row) ==
    IF row = NoRow THEN {new \in TicketRow : new.status = "open"}
    ELSE {NoRow} \cup {[row EXCEPT !.status = s] : s \in TicketStatus \ {"open"}}
                 \cup {[row EXCEPT !.priority = p] : p \in InUse}
                 \cup {[row EXCEPT !.mine = ~row.mine]}

ChangeTicket(ticket) ==
    /\ \E row \in Changes(tickets[ticket]) : tickets' = [tickets EXCEPT ![ticket] = row]
    /\ UNCHANGED <<request, counts, dashboard>>

-----------------------------------------------------------------------------
(***************************************************************************)
(* The transaction.  Its queries are sent together and may run in any      *)
(* order; they see what its first one has seen.                            *)
(***************************************************************************)

\* Plausible slip: the queries are sent without a transaction.
Snapshot_EachItsOwn == tickets

Snapshot == request.view

\* How many tickets look like one of these rows.
Number(wanted) == Cardinality({t \in Ticket : Snapshot[t] \in wanted})

BeginTransaction ==
    /\ request.stage = "idle"
    /\ request' = [stage |-> "counting", view |-> tickets]
    /\ dashboard' = NotCounted
    /\ UNCHANGED <<tickets, counts>>

\* groupBy leaves out what there is none of.
countTicketsByStatus ==
    /\ request.stage = "counting" /\ counts.status = NotCounted
    /\ counts' = [counts EXCEPT !.status =
           LET present == {Snapshot[t].status : t \in {u \in Ticket : Snapshot[u] # NoRow}}
           IN  [s \in present |-> Number({row \in TicketRow : row.status = s})]]
    /\ UNCHANGED <<tickets, request, dashboard>>

countTicketsByPriority ==
    /\ request.stage = "counting" /\ counts.priority = NotCounted
    /\ counts' = [counts EXCEPT !.priority =
           LET present == {Snapshot[t].priority : t \in {u \in Ticket : Snapshot[u] # NoRow}}
           IN  [p \in present |-> Number({row \in TicketRow : row.priority = p})]]
    /\ UNCHANGED <<tickets, request, dashboard>>

countAssignedUndoneTickets ==
    /\ request.stage = "counting" /\ counts.undone = NotCounted
    /\ counts' = [counts EXCEPT !.undone =
           Number({row \in TicketRow : row.mine /\ row.status \in {"open", "in-progress"}})]
    /\ UNCHANGED <<tickets, request, dashboard>>

-----------------------------------------------------------------------------
(***************************************************************************)
(* The answer.                                                             *)
(***************************************************************************)
OrZero(count, key) == IF key \in DOMAIN count THEN count[key] ELSE 0

\* The total adds up every status counted; there are no others than the three.
buildDashboard ==
    LET status(s) == OrZero(counts.status, s)
        priority(p) == OrZero(counts.priority, p)
    IN  [total |-> status("open") + status("in-progress") + status("closed"),
         undone |-> status("open") + status("in-progress"),
         low |-> priority("low"), medium |-> priority("medium"),
         high |-> priority("high"), urgent |-> priority("urgent"),
         assignedUndone |-> counts.undone]

AnswerDashboard ==
    /\ request.stage = "counting"
    /\ NotCounted \notin {counts.status, counts.priority, counts.undone}
    /\ dashboard' = buildDashboard
    /\ counts' = NoCounts
    /\ request' = [stage |-> "idle", view |-> NotCounted]
    /\ UNCHANGED tickets

\* A query fails, and the transaction with it: INTERNAL.
FailDashboard ==
    /\ request.stage = "counting"
    /\ counts' = NoCounts
    /\ request' = [stage |-> "idle", view |-> NotCounted]
    /\ dashboard' = Internal
    /\ UNCHANGED tickets

DashboardInit ==
    /\ tickets = [t \in Ticket |-> NoRow]
    /\ request = [stage |-> "idle", view |-> NotCounted]
    /\ counts = NoCounts
    /\ dashboard = NotCounted

DashboardNext ==
    \/ \E ticket \in Ticket : ChangeTicket(ticket)
    \/ BeginTransaction
    \/ countTicketsByStatus \/ countTicketsByPriority \/ countAssignedUndoneTickets
    \/ AnswerDashboard \/ FailDashboard

DashboardSpec == DashboardInit /\ [][DashboardNext]_dashboardVars

-----------------------------------------------------------------------------
(***************************************************************************)
(* Properties.                                                             *)
(***************************************************************************)

\* The parts of a dashboard are about the same tickets: the priorities and the
\* statuses add up to the same total, and nobody is in charge of more undone
\* tickets than there are, whatever has been changed between the queries.
SummariesAgree ==
    dashboard \notin {NotCounted, Internal} =>
        /\ dashboard.total = dashboard.low + dashboard.medium
                             + dashboard.high + dashboard.urgent
        /\ dashboard.assignedUndone <= dashboard.undone

=============================================================================
