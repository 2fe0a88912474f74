----------------------------- MODULE TicketList -----------------------------
(***************************************************************************)
(* The list of tickets in the web client: the hook useTickets              *)
(* (hooks/use-tickets.ts), a caller that holds the page and the filter,    *)
(* and the page that shows what the hook returns                           *)
(* (pages/tickets/organization-tickets-page.tsx).                          *)
(*                                                                         *)
(* The state of the hook changes at once; its effects run later, all that  *)
(* are due in one go, with the values of the render they belong to.        *)
(* Answers arrive in any order, before or after the effects.               *)
(***************************************************************************)
EXTENDS Naturals, Sequences

CONSTANTS
    Filter,       \* organization, search, status, priority and assignee
    Pages,        \* bound on the totalPages of an answer
    MaxRequests,  \* bound on the requests of an instance
    None

ASSUME TicketListAssumption ==
    /\ Pages \in Nat \ {0}
    /\ MaxRequests \in Nat
    /\ None \notin Nat /\ None \notin BOOLEAN
    /\ None \notin [request : Nat, totalPages : Nat]

VARIABLES
    page, filter, enabled,     \* what the caller passes in
    requestedPage, retryKey,   \* what the hook asks for
    result, error, isFetching, \* what it has
    ran,                       \* what its effects have last run with
    requests                   \* history: every request of listTickets

caller == <<page, filter, enabled>>
asked == <<requestedPage, retryKey>>
held == <<result, error, isFetching>>

vars == <<caller, asked, held, ran, requests>>

-----------------------------------------------------------------------------
(***************************************************************************)
(* What the hook returns and the page shows.                               *)
(***************************************************************************)
requestKey == [filter |-> filter, page |-> requestedPage, retry |-> retryKey]

\* The answer on display, unless it is stale.
currentResult ==
    IF result # None /\ requests[result.request].key = requestKey THEN result ELSE None

\* A page past the last one is empty.
Empty(answer) == answer.totalPages < requests[answer.request].key.page

isLoading == enabled /\ (isFetching \/ currentResult = None) /\ error = None

\* Without tickets there is no pagination either.
HasData == ~isLoading /\ error = None /\ currentResult # None /\ ~Empty(currentResult)

Render == [page |-> page, filter |-> filter, enabled |-> enabled, key |-> requestKey]

\* Mounted, and no effect has run yet.
NotRun == [page |-> None, filter |-> None, enabled |-> None, key |-> None]

\* Some effect has not seen what is rendered.
EffectsDue == ran # Render

-----------------------------------------------------------------------------
(***************************************************************************)
(* The person in front of it.  React runs the effects that are due before  *)
(* it renders what a further event asks for.                               *)
(***************************************************************************)

\* A filter resets the page in two renders, each with a request.
MayAsk == ~EffectsDue /\ Len(requests) + 2 <= MaxRequests

\* The buttons of the pagination.
ChangePage ==
    /\ MayAsk
    /\ HasData
    /\ page' \in {requestedPage - 1, requestedPage + 1} \cap 1 .. currentResult.totalPages
    /\ UNCHANGED <<filter, enabled, asked, held, ran, requests>>

ChangeFilter ==
    /\ MayAsk
    /\ filter' \in Filter \ {filter}
    /\ UNCHANGED <<page, enabled, asked, held, ran, requests>>

ChangeEnabled ==
    /\ MayAsk
    /\ enabled' = ~enabled
    /\ UNCHANGED <<page, filter, asked, held, ran, requests>>

refetch ==
    /\ MayAsk
    /\ error # None
    /\ retryKey' = retryKey + 1
    /\ UNCHANGED <<caller, requestedPage, held, ran, requests>>

Cancelled(sent) == [i \in DOMAIN sent |-> [sent[i] EXCEPT !.cancelled = TRUE]]

\* Another organization: its id is the key of the page, so that the page is
\* mounted anew and the old one's request is aborted.
OtherOrganization ==
    /\ MayAsk
    /\ filter' \in Filter \ {filter}
    /\ page' = 1
    /\ requestedPage' = 1
    /\ retryKey' = 0
    /\ result' = None
    /\ error' = None
    /\ isFetching' = enabled
    /\ ran' = NotRun
    /\ requests' = Cancelled(requests)
    /\ UNCHANGED enabled

-----------------------------------------------------------------------------
(***************************************************************************)
(* The effects, in the order of the source.                                *)
(***************************************************************************)
FilterIsNew == ran.filter \notin {None, filter}

\* Plausible slip: the caller does not hear of the reset.
PageAfterFilter_Silent == page

\* onPageChange(1)
PageAfterFilter == IF FilterIsNew THEN 1 ELSE page

SetRequestedPage ==
    requestedPage' = IF FilterIsNew THEN 1
                     ELSE IF ran.page # page THEN page ELSE requestedPage

MustFetch == ran.key # requestKey \/ ran.enabled # enabled

\* With the values of this render: a reset of the page comes too late for it.
StartFetch ==
    /\ requests' = Append(Cancelled(requests),
                          [key |-> requestKey, cancelled |-> FALSE, settled |-> FALSE])
    /\ isFetching' = TRUE
    /\ error' = None
    /\ UNCHANGED result

StopFetching ==
    /\ requests' = Cancelled(requests)
    /\ isFetching' = FALSE
    /\ error' = None
    /\ result' = None

RunEffects ==
    /\ EffectsDue
    /\ page' = PageAfterFilter
    /\ SetRequestedPage
    /\ \/ MustFetch /\ enabled /\ StartFetch
       \/ MustFetch /\ ~enabled /\ StopFetching
       \/ ~MustFetch /\ UNCHANGED <<held, requests>>
    /\ ran' = Render
    /\ UNCHANGED <<filter, enabled, retryKey>>

-----------------------------------------------------------------------------
(***************************************************************************)
(* Answers.  An aborted request may have been answered already.            *)
(***************************************************************************)

\* Plausible slip: answers are told apart by their keys alone.
Wanted_ByKey(i) == requests[i].key = requestKey

Wanted(i) == ~requests[i].cancelled

Settle(i) == /\ i \in DOMAIN requests /\ ~requests[i].settled
             /\ requests' = [requests EXCEPT ![i].settled = TRUE]
             /\ UNCHANGED <<caller, asked, ran>>

Succeed(i) ==
    /\ Settle(i)
    /\ \E n \in 0 .. Pages :
           result' = IF Wanted(i) THEN [request |-> i, totalPages |-> n] ELSE result
    /\ isFetching' = (isFetching /\ ~Wanted(i))
    /\ UNCHANGED error

Fail(i) ==
    /\ Settle(i)
    /\ result' = IF Wanted(i) THEN None ELSE result
    /\ error' = IF Wanted(i) THEN i ELSE error
    /\ isFetching' = (isFetching /\ ~Wanted(i))

-----------------------------------------------------------------------------
Init ==
    /\ page = 1
    /\ filter \in Filter
    /\ enabled \in BOOLEAN
    /\ requestedPage = 1
    /\ retryKey = 0
    /\ result = None
    /\ error = None
    /\ isFetching = enabled
    /\ ran = NotRun
    /\ requests = <<>>

Next ==
    \/ ChangePage \/ ChangeFilter \/ ChangeEnabled \/ refetch \/ OtherOrganization
    \/ RunEffects
    \/ \E i \in 1 .. MaxRequests : Succeed(i) \/ Fail(i)

\* React runs effects, and every request is answered or times out.
Fairness ==
    /\ WF_vars(RunEffects)
    /\ \A i \in 1 .. MaxRequests : WF_vars(Succeed(i) \/ Fail(i))

Spec == Init /\ [][Next]_vars /\ Fairness

-----------------------------------------------------------------------------
(***************************************************************************)
(* Properties.                                                             *)
(***************************************************************************)
Latest == Len(requests)

\* Once the effects have run and the list is not loading, the tickets or the
\* error on display belong to the last request that was sent, never to an
\* earlier one with other filters, of another page or of another try -- even if
\* that one asked the same.  A list that is disabled has neither.
ShownIsAsked ==
    ~EffectsDue /\ ~isLoading =>
        CASE ~enabled -> error = None /\ currentResult = None
          [] enabled /\ error # None -> error = Latest /\ currentResult = None
          [] OTHER -> currentResult.request = Latest

\* Whatever was clicked, the list comes to rest again: it shows an answer or an
\* error, or nothing if it is disabled, and asks for the page the caller holds.
ListSettles ==
    []<>(~EffectsDue /\ requestedPage = page /\ ~isLoading)

=============================================================================
