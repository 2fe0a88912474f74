----------------------------- MODULE PagedReads -----------------------------
(***************************************************************************)
(* The five listings of the API, read page by page while their rows come   *)
(* and go.  They differ in the order of the rows, in what may happen to a  *)
(* row, and in how a page and its total are read:                          *)
(*                                                                         *)
(*   tickets   last update first   page and total in one transaction       *)
(*   logs      newest first        page and total in one transaction       *)
(*   history   newest first        ticket, then page, then total           *)
(*   comments  newest first        ticket, then page and total, any order  *)
(*   members   oldest first        page and total, in any order            *)
(*                                                                         *)
(* A walk reads the pages one after the other until the answer says that   *)
(* there are no more.  A behaviour is about one listing.  Two rows never   *)
(* have the same time.                                                     *)
(***************************************************************************)
EXTENDS Integers, FiniteSets, Sequences, SequencesExt, FiniteSetsExt

CONSTANTS
    Row,       \* rows a listing may show
    PerPage,   \* perPage of the walk
    MaxTake,   \* MAX_TAKE
    MaxSkip,   \* MAX_SKIP
    NotRead    \* a part of the answer still to be read

\* The schemas admit no perPage above 100, and MAX_TAKE is 1000.
ASSUME PageAssumption ==
    /\ PerPage \in 1 .. MaxTake
    /\ MaxTake \in Nat /\ MaxSkip \in Nat
    /\ NotRead \notin Nat \cup Seq(Row)

VARIABLES
    listing,   \* the listing this behaviour is about
    rows,      \* the rows that match, in the order of the listing
    subject,   \* does the ticket, or the assignee of the filter, (still) exist?
    walk,      \* the client that reads page after page
    steady,    \* history: rows listed since the walk began, where they were
    left,      \* history: has a row left the listing since then?
    outrun     \* history: did a row come between a total and its page?

vars == <<listing, rows, subject, walk, steady, left, outrun>>

Listing == {"tickets", "logs", "history", "comments", "members"}

Transactional == {"tickets", "logs"}

AboutTicket == {"history", "comments"}

Walk == [stage : {"idle", "asking", "reading", "done", "refused", "notFound"},
         page : Nat \ {0},
         view : Seq(Row),
         rows : Seq(Row) \cup {NotRead},
         total : Nat \cup {NotRead},
         seen : SUBSET Row]

TypeOK ==
    /\ listing \in Listing
    /\ rows \in Seq(Row)
    /\ subject \in BOOLEAN
    /\ walk \in Walk
    /\ steady \subseteq Row
    /\ left \in BOOLEAN /\ outrun \in BOOLEAN

-----------------------------------------------------------------------------
(***************************************************************************)
(* Rows.                                                                   *)
(***************************************************************************)

Placed(row) == IF listing = "members" THEN Append(rows, row) ELSE <<row>> \o rows

RowComes(row) ==
    /\ row \notin ToSet(rows)
    /\ subject \/ listing = "history"
    /\ rows' = Placed(row)
    /\ outrun' = (outrun \/ (walk.rows = NotRead /\ walk.total # NotRead))
    /\ UNCHANGED <<listing, subject, walk, steady, left>>

\* A ticket or a comment is deleted, a ticket stops matching the filter, a
\* member is removed.  Entries of the log stay.
RowLeaves(i) ==
    /\ listing \in {"tickets", "comments", "members"}
    /\ rows' = RemoveAt(rows, i)
    /\ steady' = steady \ {rows[i]}
    /\ left' = TRUE
    /\ UNCHANGED <<listing, subject, walk, outrun>>

\* Any change of a ticket makes it the first.
RowChanges(i) ==
    /\ listing = "tickets"
    /\ rows' = <<rows[i]>> \o RemoveAt(rows, i)
    /\ steady' = steady \ {rows[i]}
    /\ UNCHANGED <<listing, subject, walk, left, outrun>>

\* The ticket is deleted, or the assignee leaves the organization.
LoseSubject ==
    /\ listing \in AboutTicket \cup {"tickets"}
    /\ subject
    /\ subject' = FALSE
    /\ left' = (left \/ listing = "tickets")
    /\ UNCHANGED <<listing, rows, walk, steady, outrun>>

-----------------------------------------------------------------------------
(***************************************************************************)
(* A request for a page.                                                   *)
(***************************************************************************)
Skip == (walk.page - 1) * PerPage

\* The refinement in the schemas of the queries; the one of members has none.
Admitted == listing = "members" \/ Skip <= MaxSkip

resolveSkip(skip) == IF listing = "members" THEN skip ELSE Min({skip, MaxSkip})

resolveTake(take) == IF listing = "members" THEN take ELSE Min({Max({take, 1}), MaxTake})

Page(all) == SubSeq(all, resolveSkip(Skip) + 1,
                    Min({resolveSkip(Skip) + resolveTake(PerPage), Len(all)}))

\* A filter by an assignee who is not a member matches nothing.
Matching == IF listing = "tickets" /\ ~subject THEN <<>> ELSE rows

\* Plausible slip: the transaction is dropped, each query reads what it finds.
View_EachItsOwn == Matching

\* What a query of the request sees: a transaction sees one state throughout.
View == IF listing \in Transactional THEN walk.view ELSE Matching

StartWalk ==
    /\ walk.stage = "idle"
    /\ walk' = [walk EXCEPT !.stage = "asking"]
    /\ steady' = ToSet(Matching)
    /\ left' = FALSE
    /\ outrun' = FALSE
    /\ UNCHANGED <<listing, rows, subject>>

RefusePage ==
    /\ walk.stage = "asking"
    /\ ~Admitted
    /\ walk' = [walk EXCEPT !.stage = "refused"]
    /\ UNCHANGED <<listing, rows, subject, steady, left, outrun>>

TicketNotFound ==
    /\ walk.stage = "asking"
    /\ Admitted
    /\ listing \in AboutTicket /\ ~subject
    /\ walk' = [walk EXCEPT !.stage = "notFound"]
    /\ UNCHANGED <<listing, rows, subject, steady, left, outrun>>

BeginRead ==
    /\ walk.stage = "asking"
    /\ Admitted
    /\ listing \in AboutTicket => subject
    /\ walk' = [walk EXCEPT !.stage = "reading",
                            !.view = IF listing \in Transactional THEN Matching ELSE <<>>]
    /\ UNCHANGED <<listing, rows, subject, steady, left, outrun>>

ReadPage ==
    /\ walk.stage = "reading" /\ walk.rows = NotRead
    /\ walk' = [walk EXCEPT !.rows = Page(View)]
    /\ UNCHANGED <<listing, rows, subject, steady, left, outrun>>

\* Only the history waits for its page before it counts.
MayCount == listing = "history" => walk.rows # NotRead

ReadTotal ==
    /\ walk.stage = "reading" /\ walk.total = NotRead
    /\ MayCount
    /\ walk' = [walk EXCEPT !.total = Len(View)]
    /\ UNCHANGED <<listing, rows, subject, steady, left, outrun>>

TotalPages == (walk.total + PerPage - 1) \div PerPage

\* The client goes on as long as the answer names a further page.
Answer ==
    /\ walk.stage = "reading"
    /\ walk.rows # NotRead /\ walk.total # NotRead
    /\ walk' = [stage |-> IF walk.page < TotalPages THEN "asking" ELSE "done",
                page |-> IF walk.page < TotalPages THEN walk.page + 1 ELSE walk.page,
                view |-> <<>>, rows |-> NotRead, total |-> NotRead,
                seen |-> walk.seen \cup ToSet(walk.rows)]
    /\ UNCHANGED <<listing, rows, subject, steady, left, outrun>>

-----------------------------------------------------------------------------
Init ==
    /\ listing \in Listing
    /\ rows = <<>>
    /\ subject = TRUE
    /\ walk = [stage |-> "idle", page |-> 1, view |-> <<>>,
               rows |-> NotRead, total |-> NotRead, seen |-> {}]
    /\ steady = {}
    /\ left = FALSE
    /\ outrun = FALSE

Next ==
    \/ \E row \in Row : RowComes(row)
    \/ \E i \in DOMAIN rows : RowLeaves(i) \/ RowChanges(i)
    \/ LoseSubject
    \/ StartWalk
    \/ RefusePage \/ TicketNotFound
    \/ BeginRead \/ ReadPage \/ ReadTotal \/ Answer

Spec == Init /\ [][Next]_vars

-----------------------------------------------------------------------------
(***************************************************************************)
(* Properties.                                                             *)
(***************************************************************************)

\* A walk that ends without an error has shown every row that was listed when
\* it began and has not been changed, unless a row has left the listing
\* meanwhile and pulled others forward over the end of a page.  Rows that come
\* do no harm, whichever way a listing is sorted and however page and total
\* are read -- save for comments, where one may come between the two.  Nor do
\* changed tickets, and nor does the limit on what can be skipped.
WalksAreComplete ==
    walk.stage = "done" /\ ~left /\ ~(listing = "comments" /\ outrun)
        => steady \subseteq walk.seen

=============================================================================
