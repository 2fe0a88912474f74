-------------------------- MODULE StandaloneProofs --------------------------
(***************************************************************************)
(* Proofs about parts that share nothing:                                  *)
(*   PART 1  PendingSubmit, for any number of runs;                        *)
(*   PART 2  Dashboard, for any finite set of tickets;                     *)
(*   PART 3  PagedReads, for any rows and any size of a page;              *)
(*   PART 4  AuditValues, for any graph of objects and any limit.          *)
(***************************************************************************)
EXTENDS PagedReads, Dashboard, AuditValues, PendingSubmit, FiniteSetTheorems, SequenceTheorems, TLAPS

-----------------------------------------------------------------------------
(***************************************************************************)
(* PART 1: PendingSubmit.  The hook holds every run that is under way, and *)
(* so no more than one.                                                    *)
(***************************************************************************)
Outcome == {"running", "left", "succeeded", "failed"}

SubmitTypeOK ==
    /\ runs \in Seq(Outcome)
    /\ pendingRef \in DOMAIN runs \cup {None}
    /\ isPending \in BOOLEAN /\ isMounted \in BOOLEAN

HeldWhileRunning ==
    /\ Running \subseteq {pendingRef}
    /\ isMounted = TRUE => (isPending = TRUE <=> Running # {})

SubmitInv == SubmitTypeOK /\ HeldWhileRunning

\* A run is a number, so it is not None.
LEMMA RunsAreNumbers ==
    ASSUME SubmitInv
    PROVE  /\ DOMAIN runs = 1 .. Len(runs) /\ Len(runs) \in Nat
           /\ None \notin Running
           /\ pendingRef = None => Running = {}
  <1>1. DOMAIN runs = 1 .. Len(runs) /\ Len(runs) \in Nat
    BY DEF SubmitInv, SubmitTypeOK
  <1>2. Running \subseteq Nat
    BY <1>1 DEF Running
  <1>3. QED BY <1>1, <1>2, PendingSubmitAssumption DEF SubmitInv, HeldWhileRunning

LEMMA SubmitInvKeptByStarting ==
    ASSUME SubmitInv, Execute \/ ExecuteThrows
    PROVE  SubmitInv'
  <1>1. Running = {} /\ DOMAIN runs = 1 .. Len(runs) /\ Len(runs) \in Nat
    BY RunsAreNumbers DEF Execute, ExecuteThrows, MayStart
  <1>2. PICK outcome \in {"running", "failed"} :
           /\ runs' = Append(runs, outcome)
           /\ outcome = "running" => Execute
           /\ outcome = "failed" => ExecuteThrows
    BY DEF Execute, ExecuteThrows
  <1>3. /\ runs' \in Seq(Outcome) /\ Len(runs') = Len(runs) + 1
        /\ DOMAIN runs' = 1 .. Len(runs) + 1
        /\ \A n \in DOMAIN runs : runs'[n] = runs[n]
        /\ runs'[Len(runs) + 1] = outcome
    BY <1>1, <1>2 DEF SubmitInv, SubmitTypeOK, Outcome
  <1>4. /\ pendingRef' = Len(runs) + 1 /\ isMounted' = isMounted
        /\ isPending' \in BOOLEAN
        /\ isMounted = TRUE => (isPending' = TRUE <=> outcome = "running")
    BY <1>2, <1>3 DEF Execute, ExecuteThrows, SetIfMounted, SubmitInv, SubmitTypeOK
  <1>5. \A n \in DOMAIN runs : runs[n] # "running"
    BY <1>1 DEF Running
  <1>6. Running' = IF outcome = "running" THEN {Len(runs) + 1} ELSE {}
    <2>1. \A n \in DOMAIN runs' : runs'[n] = "running" <=> n = Len(runs) + 1 /\ outcome = "running"
      BY <1>1, <1>3, <1>5
    <2>2. QED BY <1>1, <1>3, <2>1 DEF Running
  <1>7. QED
    BY <1>1, <1>3, <1>4, <1>6 DEF SubmitInv, SubmitTypeOK, HeldWhileRunning

LEMMA SubmitInvKeptBySettling ==
    ASSUME SubmitInv, NEW n \in DOMAIN runs, NEW outcome \in {"succeeded", "failed"},
           Settle(n, outcome)
    PROVE  SubmitInv'
  <1>1. n \in Running /\ Running = {n} /\ pendingRef = n /\ n # None
    BY RunsAreNumbers DEF Settle, Running, SubmitInv, HeldWhileRunning
  <1>2. /\ runs' \in Seq(Outcome) /\ DOMAIN runs' = DOMAIN runs
        /\ \A i \in DOMAIN runs : runs'[i] = IF i = n THEN outcome ELSE runs[i]
    BY DEF Settle, SubmitInv, SubmitTypeOK, Outcome
  <1>3. Running' = {}
    BY <1>1, <1>2 DEF Running
  <1>4. /\ pendingRef' = None /\ isMounted' = isMounted
        /\ isPending' = SetIfMounted(isPending, FALSE)
    BY <1>1 DEF Settle
  <1>5. QED
    BY <1>2, <1>3, <1>4 DEF SubmitInv, SubmitTypeOK, HeldWhileRunning, SetIfMounted

LEMMA SubmitInvKeptByReset ==
    ASSUME SubmitInv, reset
    PROVE  SubmitInv'
  <1>1. runs' = runs /\ pendingRef' = pendingRef /\ isMounted' = isMounted /\ Running' = Running
    BY DEF reset, KeptByReset, Running
  <1>2. CASE pendingRef = None
    <2>1. Running = {} /\ isPending' = SetIfMounted(isPending, FALSE)
      BY <1>2, RunsAreNumbers DEF reset
    <2>2. QED
      BY <1>1, <2>1 DEF SubmitInv, SubmitTypeOK, HeldWhileRunning, SetIfMounted
  <1>3. CASE pendingRef # None
    <2>1. isPending' = isPending
      BY <1>3 DEF reset
    <2>2. QED
      BY <1>1, <2>1 DEF SubmitInv, SubmitTypeOK, HeldWhileRunning
  <1>4. QED BY <1>2, <1>3

\* A new hook holds nothing, and what goes on is not its own.
LEMMA SubmitInvKeptByMount ==
    ASSUME SubmitInv, Mount
    PROVE  SubmitInv'
  <1>1. /\ runs' \in Seq(Outcome) /\ DOMAIN runs' = DOMAIN runs
        /\ \A i \in DOMAIN runs : runs'[i] # "running"
    <2>1. DOMAIN runs = 1 .. Len(runs) /\ Len(runs) \in Nat
      BY RunsAreNumbers
    <2>2. \A i \in DOMAIN runs : runs[i] \in Outcome
      BY <2>1 DEF SubmitInv, SubmitTypeOK
    <2>3. runs' \in [1 .. Len(runs) -> Outcome]
      BY <2>1, <2>2 DEF Mount, Outcome
    <2>4. runs' \in Seq(Outcome)
      BY <2>1, <2>3, SeqDef
    <2>5. QED BY <2>4 DEF Mount
  <1>2. Running' = {}
    BY <1>1 DEF Running
  <1>3. pendingRef' = None /\ isPending' = FALSE /\ isMounted' = TRUE
    BY DEF Mount
  <1>4. QED BY <1>1, <1>2, <1>3 DEF SubmitInv, SubmitTypeOK, HeldWhileRunning

LEMMA SubmitInvKeptBySettlingLeft ==
    ASSUME SubmitInv, NEW n \in DOMAIN runs, NEW outcome \in {"succeeded", "failed"},
           SettleLeft(n, outcome)
    PROVE  SubmitInv'
  <1>1. /\ runs' \in Seq(Outcome) /\ DOMAIN runs' = DOMAIN runs
        /\ \A i \in DOMAIN runs : runs'[i] = IF i = n THEN outcome ELSE runs[i]
    BY DEF SettleLeft, SubmitInv, SubmitTypeOK, Outcome
  <1>2. Running' = Running
    BY <1>1 DEF Running, SettleLeft
  <1>3. UNCHANGED <<pendingRef, isPending, isMounted>>
    BY DEF SettleLeft
  <1>4. QED BY <1>1, <1>2, <1>3 DEF SubmitInv, SubmitTypeOK, HeldWhileRunning

LEMMA SubmitInvKept ==
    ASSUME SubmitInv, [SubmitNext]_submitVars
    PROVE  SubmitInv'
  <1>1. CASE ExecuteAgain \/ Unmount \/ UNCHANGED submitVars
    <2>1. runs' = runs /\ pendingRef' = pendingRef /\ isPending' = isPending
      BY <1>1 DEF ExecuteAgain, Unmount, submitVars
    <2>2. isMounted' \in BOOLEAN /\ (isMounted' = TRUE => isMounted = TRUE)
      BY <1>1 DEF ExecuteAgain, Unmount, submitVars, SubmitInv, SubmitTypeOK
    <2>3. Running' = Running
      BY <2>1 DEF Running
    <2>4. SubmitTypeOK'
      BY <2>1, <2>2 DEF SubmitInv, SubmitTypeOK
    <2>5. HeldWhileRunning'
      BY <2>1, <2>2, <2>3 DEF SubmitInv, HeldWhileRunning
    <2>6. QED BY <2>4, <2>5 DEF SubmitInv
  <1>3. QED
    BY <1>1, SubmitInvKeptByStarting, SubmitInvKeptBySettling, SubmitInvKeptByReset,
       SubmitInvKeptByMount, SubmitInvKeptBySettlingLeft
       DEF SubmitNext

\* For any number of runs and remounts, whatever is called in whatever order: two
\* runs of one hook never overlap, and a form on display is disabled exactly
\* while one of its own is under way (usePendingSubmit).  Runs left over from an
\* earlier mount are not counted.
THEOREM SubmissionsDoNotOverlap == SubmitSpec => []OneSubmissionAtATime
  <1>1. ASSUME SubmitInit PROVE SubmitInv
    <2>1. runs = <<>> /\ Running = {}
      BY <1>1 DEF SubmitInit, Running
    <2>2. SubmitTypeOK
      <3>1. runs \in Seq(Outcome)
        BY <2>1, EmptySeq
      <3>2. QED BY <1>1, <3>1 DEF SubmitInit, SubmitTypeOK
    <2>3. HeldWhileRunning
      BY <1>1, <2>1 DEF SubmitInit, HeldWhileRunning
    <2>4. QED BY <2>2, <2>3 DEF SubmitInv
  <1>2. ASSUME SubmitInv PROVE OneSubmissionAtATime
    <2>1. Running = {} \/ Running = {pendingRef}
      BY <1>2 DEF SubmitInv, HeldWhileRunning
    <2>2. Cardinality(Running) <= 1
      <3>1. Cardinality({pendingRef}) = 1 /\ Cardinality({}) = 0
        BY FS_EmptySet, FS_Singleton
      <3>2. CASE Running = {}
        BY <3>1, <3>2
      <3>3. CASE Running = {pendingRef}
        BY <3>1, <3>3
      <3>4. QED BY <2>1, <3>2, <3>3
    <2>3. isPending \in BOOLEAN /\ isMounted \in BOOLEAN
      BY <1>2 DEF SubmitInv, SubmitTypeOK
    <2>4. isMounted = TRUE => isPending = (Running # {})
      <3>1. CASE isPending = TRUE
        BY <1>2, <3>1 DEF SubmitInv, HeldWhileRunning
      <3>2. CASE isPending = FALSE
        BY <1>2, <3>2 DEF SubmitInv, HeldWhileRunning
      <3>3. QED BY <2>3, <3>1, <3>2
    <2>5. QED BY <2>2, <2>3, <2>4 DEF OneSubmissionAtATime
  <1>3. QED BY <1>1, <1>2, SubmitInvKept, PTL DEF SubmitSpec

-----------------------------------------------------------------------------
(***************************************************************************)
(* PART 2: Dashboard.  Each result that is there is the number of rows of  *)
(* its kind in what the transaction has seen first.  What adds up in that  *)
(* one state then adds up in the answer: statuses and priorities are two   *)
(* partitions of the same rows.                                            *)
(***************************************************************************)
Rows(view, wanted) == {t \in Ticket : view[t] \in wanted}

OfStatus(s) == {row \in TicketRow : row.status = s}

OfPriority(p) == {row \in TicketRow : row.priority = p}

MineUndone == {row \in TicketRow : row.mine /\ row.status \in {"open", "in-progress"}}

View_OK(view) == view \in [Ticket -> TicketRow \cup {NoRow}]

CountsAreOfTheView ==
    /\ View_OK(tickets)
    /\ request.stage = "counting" => View_OK(request.view)
    /\ request.stage # "counting" => counts = NoCounts
    /\ counts.status # NotCounted =>
           \A s \in TicketStatus :
               OrZero(counts.status, s) = Cardinality(Rows(request.view, OfStatus(s)))
    /\ counts.priority # NotCounted =>
           \A p \in TicketPriority :
               OrZero(counts.priority, p) = Cardinality(Rows(request.view, OfPriority(p)))
    /\ counts.undone # NotCounted =>
           counts.undone = Cardinality(Rows(request.view, MineUndone))

CountsRecord == DOMAIN counts = {"status", "priority", "undone"}

DashboardInv == CountsAreOfTheView /\ CountsRecord /\ SummariesAgree

LEMMA RowsAreFinite ==
    ASSUME NEW view, NEW wanted
    PROVE  IsFiniteSet(Rows(view, wanted)) /\ Cardinality(Rows(view, wanted)) \in Nat
  <1>1. IsFiniteSet(Rows(view, wanted))
    BY DashboardAssumption, FS_Subset DEF Rows
  <1>2. QED BY <1>1, FS_CardinalityType

\* Kinds of rows that exclude each other are counted apart.
LEMMA CountsAdd ==
    ASSUME NEW view, NEW A, NEW B, A \cap B = {}
    PROVE  Cardinality(Rows(view, A \cup B))
               = Cardinality(Rows(view, A)) + Cardinality(Rows(view, B))
  <1>1. Rows(view, A \cup B) = Rows(view, A) \cup Rows(view, B)
    BY DEF Rows
  <1>2. Rows(view, A) \cap Rows(view, B) = {}
    BY DEF Rows
  <1>3. Cardinality(Rows(view, A) \cap Rows(view, B)) = 0
    BY <1>2, FS_EmptySet
  <1>4. Cardinality(Rows(view, A) \cup Rows(view, B))
            = Cardinality(Rows(view, A)) + Cardinality(Rows(view, B))
              - Cardinality(Rows(view, A) \cap Rows(view, B))
    BY RowsAreFinite, FS_Union
  <1>5. Cardinality(Rows(view, A)) \in Nat /\ Cardinality(Rows(view, B)) \in Nat
    BY RowsAreFinite
  <1>6. Cardinality(Rows(view, A \cup B))
            = Cardinality(Rows(view, A) \cup Rows(view, B))
    BY <1>1, Zenon
  <1>7. Cardinality(Rows(view, A)) + Cardinality(Rows(view, B))
            - Cardinality(Rows(view, A) \cap Rows(view, B))
            = Cardinality(Rows(view, A)) + Cardinality(Rows(view, B))
    BY <1>3, <1>5
  <1>8. QED BY <1>4, <1>6, <1>7

\* Statuses and priorities divide the rows of a view; who is in charge of an
\* undone ticket is in charge of one that is open or in progress.
LEMMA ViewAddsUp ==
    ASSUME NEW view
    PROVE  LET status(s) == Cardinality(Rows(view, OfStatus(s)))
               priority(p) == Cardinality(Rows(view, OfPriority(p)))
           IN  /\ status("open") + status("in-progress") + status("closed")
                      = priority("low") + priority("medium") + priority("high")
                        + priority("urgent")
               /\ Cardinality(Rows(view, MineUndone)) <= status("open") + status("in-progress")
  <1> DEFINE status(s) == Cardinality(Rows(view, OfStatus(s)))
             priority(p) == Cardinality(Rows(view, OfPriority(p)))
             undone == OfStatus("open") \cup OfStatus("in-progress")
  <1>1. \A s : status(s) \in Nat
    BY RowsAreFinite
  <1>2. \A p : priority(p) \in Nat
    BY RowsAreFinite
  <1>3. Cardinality(Rows(view, undone)) = status("open") + status("in-progress")
    <2>1. OfStatus("open") \cap OfStatus("in-progress") = {}
      BY DEF OfStatus
    <2>2. QED BY <2>1, CountsAdd
  <1>4. Cardinality(Rows(view, TicketRow))
            = status("open") + status("in-progress") + status("closed")
    <2>1. undone \cup OfStatus("closed") = TicketRow
      BY DEF OfStatus, TicketRow, TicketStatus
    <2>2. undone \cap OfStatus("closed") = {}
      BY DEF OfStatus
    <2>3. Cardinality(Rows(view, undone \cup OfStatus("closed")))
              = Cardinality(Rows(view, undone)) + status("closed")
      BY <2>2, CountsAdd
    <2>4. QED BY <1>3, <2>1, <2>3
  <1>5. Cardinality(Rows(view, TicketRow))
            = priority("low") + priority("medium") + priority("high") + priority("urgent")
    <2> DEFINE two == OfPriority("low") \cup OfPriority("medium")
               three == two \cup OfPriority("high")
    <2>1. two \cap OfPriority("high") = {} /\ OfPriority("low") \cap OfPriority("medium") = {}
      BY DEF OfPriority
    <2>2. three \cap OfPriority("urgent") = {}
      BY DEF OfPriority
    <2>3. three \cup OfPriority("urgent") = TicketRow
      <3>1. \A row \in TicketRow : row.priority \in {"low", "medium", "high", "urgent"}
        BY DashboardAssumption DEF TicketRow, TicketPriority
      <3>2. QED BY <3>1 DEF OfPriority
    <2>4. Cardinality(Rows(view, two)) = priority("low") + priority("medium")
      BY <2>1, CountsAdd
    <2>5. Cardinality(Rows(view, three)) = Cardinality(Rows(view, two)) + priority("high")
      BY <2>1, CountsAdd
    <2>6. Cardinality(Rows(view, three \cup OfPriority("urgent")))
              = Cardinality(Rows(view, three)) + priority("urgent")
      BY <2>2, CountsAdd
    <2>7. QED BY <2>3, <2>4, <2>5, <2>6
  <1>6. Cardinality(Rows(view, MineUndone)) <= Cardinality(Rows(view, undone))
    <2>1. Rows(view, MineUndone) \subseteq Rows(view, undone)
      BY DEF Rows, MineUndone, OfStatus
    <2>2. QED BY <2>1, RowsAreFinite, FS_Subset
  <1>7. QED BY <1>3, <1>4, <1>5, <1>6

\* A result that is left out of a groupBy counts for nothing, rightly.
LEMMA GroupsAreCounted ==
    ASSUME NEW view, View_OK(view)
    PROVE  /\ \A s \in TicketStatus :
                  LET present == {view[t].status : t \in {u \in Ticket : view[u] # NoRow}}
                  IN  OrZero([k \in present |-> Cardinality(Rows(view, OfStatus(k)))], s)
                          = Cardinality(Rows(view, OfStatus(s)))
           /\ \A p \in TicketPriority :
                  LET present == {view[t].priority : t \in {u \in Ticket : view[u] # NoRow}}
                  IN  OrZero([k \in present |-> Cardinality(Rows(view, OfPriority(k)))], p)
                          = Cardinality(Rows(view, OfPriority(p)))
  <1>1. ASSUME NEW s \in TicketStatus, NEW present,
               present = {view[t].status : t \in {u \in Ticket : view[u] # NoRow}}
        PROVE  OrZero([k \in present |-> Cardinality(Rows(view, OfStatus(k)))], s)
                   = Cardinality(Rows(view, OfStatus(s)))
    <2>1. CASE s \in present
      BY <2>1 DEF OrZero
    <2>2. CASE s \notin present
      <3>1. Rows(view, OfStatus(s)) = {}
        BY <1>1, <2>2, DashboardAssumption DEF Rows, OfStatus
      <3>2. Cardinality(Rows(view, OfStatus(s))) = 0
        BY <3>1, FS_EmptySet
      <3>3. QED BY <2>2, <3>2 DEF OrZero
    <2>3. QED BY <2>1, <2>2
  <1>2. ASSUME NEW p \in TicketPriority, NEW present,
               present = {view[t].priority : t \in {u \in Ticket : view[u] # NoRow}}
        PROVE  OrZero([k \in present |-> Cardinality(Rows(view, OfPriority(k)))], p)
                   = Cardinality(Rows(view, OfPriority(p)))
    <2>1. CASE p \in present
      BY <2>1 DEF OrZero
    <2>2. CASE p \notin present
      <3>1. Rows(view, OfPriority(p)) = {}
        BY <1>2, <2>2, DashboardAssumption DEF Rows, OfPriority
      <3>2. Cardinality(Rows(view, OfPriority(p))) = 0
        BY <3>1, FS_EmptySet
      <3>3. QED BY <2>2, <3>2 DEF OrZero
    <2>3. QED BY <2>1, <2>2
  <1>3. QED BY <1>1, <1>2

LEMMA ChangedRowsAreRows ==
    ASSUME NEW row \in TicketRow \cup {NoRow}
    PROVE  Changes(row) \subseteq TicketRow \cup {NoRow}
  <1>1. CASE row = NoRow
    BY <1>1 DEF Changes
  <1>2. CASE row # NoRow
    <2>1. row \in TicketRow
      BY <1>2
    <2>2. \A s \in TicketStatus : [row EXCEPT !.status = s] \in TicketRow
      BY <2>1 DEF TicketRow
    <2>3. \A p \in InUse : [row EXCEPT !.priority = p] \in TicketRow
      BY <2>1 DEF TicketRow
    <2>4. [row EXCEPT !.mine = ~row.mine] \in TicketRow
      BY <2>1 DEF TicketRow
    <2>5. QED BY <1>2, <2>2, <2>3, <2>4 DEF Changes
  <1>3. QED BY <1>1, <1>2

LEMMA DashboardInvKeptByCounting ==
    ASSUME DashboardInv,
           countTicketsByStatus \/ countTicketsByPriority \/ countAssignedUndoneTickets
    PROVE  DashboardInv'
  <1>1. /\ CountsAreOfTheView /\ CountsRecord /\ SummariesAgree
        /\ request.stage = "counting" /\ View_OK(request.view)
        /\ UNCHANGED <<tickets, request, dashboard>>
    BY DEF DashboardInv, CountsAreOfTheView, countTicketsByStatus,
           countTicketsByPriority, countAssignedUndoneTickets
  <1>2. SummariesAgree'
    BY <1>1 DEF SummariesAgree
  <1>3. CASE countTicketsByStatus
    <2>1. PICK status :
              /\ counts' = [counts EXCEPT !.status = status]
              /\ \A s \in TicketStatus :
                     OrZero(status, s) = Cardinality(Rows(request.view, OfStatus(s)))
      <3>1. counts' = [counts EXCEPT !.status =
                LET present == {request.view[t].status :
                                   t \in {u \in Ticket : request.view[u] # NoRow}}
                IN  [s \in present |-> Cardinality(Rows(request.view, OfStatus(s)))]]
        BY <1>3 DEF countTicketsByStatus, Snapshot, Number, Rows, OfStatus
      <3>2. QED BY <1>1, <3>1, GroupsAreCounted
    <2>2. /\ CountsRecord'
          /\ counts'.status = status
          /\ counts'.priority = counts.priority /\ counts'.undone = counts.undone
      BY <1>1, <2>1 DEF CountsRecord
    <2>3. CountsAreOfTheView'
      BY <1>1, <2>1, <2>2 DEF CountsAreOfTheView
    <2>4. QED BY <1>2, <2>2, <2>3 DEF DashboardInv
  <1>4. CASE countTicketsByPriority
    <2>1. PICK priority :
              /\ counts' = [counts EXCEPT !.priority = priority]
              /\ \A p \in TicketPriority :
                     OrZero(priority, p) = Cardinality(Rows(request.view, OfPriority(p)))
      <3>1. counts' = [counts EXCEPT !.priority =
                LET present == {request.view[t].priority :
                                   t \in {u \in Ticket : request.view[u] # NoRow}}
                IN  [p \in present |-> Cardinality(Rows(request.view, OfPriority(p)))]]
        BY <1>4 DEF countTicketsByPriority, Snapshot, Number, Rows, OfPriority
      <3>2. QED BY <1>1, <3>1, GroupsAreCounted
    <2>2. /\ CountsRecord'
          /\ counts'.priority = priority
          /\ counts'.status = counts.status /\ counts'.undone = counts.undone
      BY <1>1, <2>1 DEF CountsRecord
    <2>3. CountsAreOfTheView'
      BY <1>1, <2>1, <2>2 DEF CountsAreOfTheView
    <2>4. QED BY <1>2, <2>2, <2>3 DEF DashboardInv
  <1>5. CASE countAssignedUndoneTickets
    <2>1. counts' = [counts EXCEPT !.undone = Cardinality(Rows(request.view, MineUndone))]
      BY <1>5 DEF countAssignedUndoneTickets, Snapshot, Number, Rows, MineUndone
    <2>2. /\ CountsRecord'
          /\ counts'.undone = Cardinality(Rows(request.view, MineUndone))
          /\ counts'.status = counts.status /\ counts'.priority = counts.priority
      BY <1>1, <2>1 DEF CountsRecord
    <2>3. CountsAreOfTheView'
      BY <1>1, <2>2 DEF CountsAreOfTheView
    <2>4. QED BY <1>2, <2>2, <2>3 DEF DashboardInv
  <1>6. QED BY <1>3, <1>4, <1>5

LEMMA NothingIsCounted ==
    /\ NoCounts.status = NotCounted /\ NoCounts.priority = NotCounted
    /\ NoCounts.undone = NotCounted
    /\ DOMAIN NoCounts = {"status", "priority", "undone"}
  BY DEF NoCounts

\* The answer adds up because the view does.
LEMMA DashboardInvKeptByAnswer ==
    ASSUME DashboardInv, AnswerDashboard
    PROVE  DashboardInv'
  <1>1. /\ CountsAreOfTheView
        /\ counts.status # NotCounted /\ counts.priority # NotCounted
        /\ counts.undone # NotCounted
        /\ dashboard' = buildDashboard
        /\ counts' = NoCounts /\ tickets' = tickets
        /\ request' = [stage |-> "idle", view |-> NotCounted]
    BY DEF DashboardInv, AnswerDashboard
  <1>2. CountsAreOfTheView' /\ CountsRecord'
    BY <1>1, NothingIsCounted DEF CountsAreOfTheView, CountsRecord
  <1> DEFINE status(s) == Cardinality(Rows(request.view, OfStatus(s)))
             priority(p) == Cardinality(Rows(request.view, OfPriority(p)))
  <1>3. /\ OrZero(counts.status, "open") = status("open")
        /\ OrZero(counts.status, "in-progress") = status("in-progress")
        /\ OrZero(counts.status, "closed") = status("closed")
    BY <1>1 DEF CountsAreOfTheView, TicketStatus
  <1>4. /\ OrZero(counts.priority, "low") = priority("low")
        /\ OrZero(counts.priority, "medium") = priority("medium")
        /\ OrZero(counts.priority, "high") = priority("high")
        /\ OrZero(counts.priority, "urgent") = priority("urgent")
    BY <1>1 DEF CountsAreOfTheView, TicketPriority
  <1>5. counts.undone = Cardinality(Rows(request.view, MineUndone))
    BY <1>1 DEF CountsAreOfTheView
  <1>6. /\ dashboard'.total = status("open") + status("in-progress") + status("closed")
        /\ dashboard'.undone = status("open") + status("in-progress")
        /\ dashboard'.low = priority("low") /\ dashboard'.medium = priority("medium")
        /\ dashboard'.high = priority("high") /\ dashboard'.urgent = priority("urgent")
        /\ dashboard'.assignedUndone = Cardinality(Rows(request.view, MineUndone))
    BY <1>1, <1>3, <1>4, <1>5 DEF buildDashboard
  <1>7. /\ status("open") + status("in-progress") + status("closed")
               = priority("low") + priority("medium") + priority("high") + priority("urgent")
        /\ Cardinality(Rows(request.view, MineUndone)) <= status("open") + status("in-progress")
    BY ViewAddsUp
  <1>8. SummariesAgree'
    BY <1>6, <1>7 DEF SummariesAgree
  <1>9. QED BY <1>2, <1>8 DEF DashboardInv

LEMMA DashboardInvKept == DashboardInv /\ [DashboardNext]_dashboardVars => DashboardInv'
  <1>. SUFFICES ASSUME DashboardInv, [DashboardNext]_dashboardVars PROVE DashboardInv'
    OBVIOUS
  <1>1. CountsAreOfTheView /\ CountsRecord /\ SummariesAgree /\ View_OK(tickets)
    BY DEF DashboardInv, CountsAreOfTheView
  <1>2. ASSUME NEW ticket \in Ticket, ChangeTicket(ticket) PROVE DashboardInv'
    <2>1. PICK row \in Changes(tickets[ticket]) : tickets' = [tickets EXCEPT ![ticket] = row]
      BY <1>2 DEF ChangeTicket
    <2>2. UNCHANGED <<request, counts, dashboard>>
      BY <1>2 DEF ChangeTicket
    <2>3. View_OK(tickets')
      <3>1. tickets[ticket] \in TicketRow \cup {NoRow}
        BY <1>1 DEF View_OK
      <3>2. row \in TicketRow \cup {NoRow}
        BY <2>1, <3>1, ChangedRowsAreRows
      <3>3. QED BY <1>1, <2>1, <3>2 DEF View_OK
    <2>4. QED BY <1>1, <2>2, <2>3
             DEF DashboardInv, CountsAreOfTheView, CountsRecord, SummariesAgree
  <1>3. CASE BeginTransaction
    <2>1. /\ request.stage = "idle" /\ request' = [stage |-> "counting", view |-> tickets]
          /\ dashboard' = NotCounted /\ tickets' = tickets /\ counts' = counts
      BY <1>3 DEF BeginTransaction
    <2>2. counts = NoCounts
      BY <1>1, <2>1 DEF CountsAreOfTheView
    <2>3. CountsAreOfTheView'
      BY <1>1, <2>1, <2>2, NothingIsCounted DEF CountsAreOfTheView
    <2>4. QED BY <1>1, <2>1, <2>3 DEF DashboardInv, CountsRecord, SummariesAgree
  <1>4. CASE countTicketsByStatus \/ countTicketsByPriority \/ countAssignedUndoneTickets
    BY <1>4, DashboardInvKeptByCounting
  <1>5. CASE AnswerDashboard
    BY <1>5, DashboardInvKeptByAnswer
  <1>6. CASE FailDashboard
    <2>1. /\ counts' = NoCounts /\ request' = [stage |-> "idle", view |-> NotCounted]
          /\ dashboard' = Internal /\ tickets' = tickets
      BY <1>6 DEF FailDashboard
    <2>2. CountsAreOfTheView' /\ CountsRecord'
      BY <1>1, <2>1, NothingIsCounted DEF CountsAreOfTheView, CountsRecord
    <2>3. QED BY <2>1, <2>2 DEF DashboardInv, SummariesAgree
  <1>7. CASE UNCHANGED dashboardVars
    BY <1>1, <1>7 DEF dashboardVars, DashboardInv, CountsAreOfTheView, CountsRecord,
                      SummariesAgree
  <1>8. QED BY <1>2, <1>3, <1>4, <1>5, <1>6, <1>7 DEF DashboardNext

\* The parts of a dashboard are about the same tickets: priorities and statuses
\* add up to the same total, and nobody is in charge of more undone tickets than
\* there are, because the four queries run in one transaction
\* (dashboard-service.ts, getOrganizationDashboard).
THEOREM DashboardsAddUp == DashboardSpec => []SummariesAgree
  <1>1. DashboardInit => DashboardInv
    <2>1. SUFFICES ASSUME DashboardInit PROVE DashboardInv
      OBVIOUS
    <2>2. /\ tickets = [t \in Ticket |-> NoRow] /\ request.stage = "idle"
          /\ counts = NoCounts /\ dashboard = NotCounted
      BY <2>1 DEF DashboardInit
    <2>3. View_OK(tickets)
      BY <2>2 DEF View_OK
    <2>4. QED BY <2>2, <2>3, NothingIsCounted
             DEF DashboardInv, CountsAreOfTheView, CountsRecord, SummariesAgree
  <1>2. DashboardInv => SummariesAgree
    BY DEF DashboardInv
  <1>3. QED BY <1>1, <1>2, DashboardInvKept, PTL DEF DashboardSpec

-----------------------------------------------------------------------------
(***************************************************************************)
(* PART 3: PagedReads.  While no row leaves, a row that is listed          *)
(* throughout only moves away from the front.  So every such row that the  *)
(* walk has not shown stands behind what it will skip next; and if there   *)
(* is one, the total names a further page.  A transaction reads an older   *)
(* list, in which these rows stand no further back than they do now.       *)
(***************************************************************************)
\* Each row is listed once.
ListedOnce == \A i, j \in DOMAIN rows : rows[i] = rows[j] => i = j

\* Nothing is read before a request begins; what is skipped is admitted.
WalkInOrder ==
    /\ walk.stage \in {"idle", "asking"} => walk.rows = NotRead /\ walk.total = NotRead
    /\ walk.stage = "idle" => walk.page = 1 /\ walk.seen = {}
    /\ walk.stage = "reading" => Admitted

\* What the property says nothing about.
Excused == left \/ (listing = "comments" /\ outrun)

Behind(all, shown, n) ==
    \A i \in DOMAIN all : all[i] \in steady \ shown => i > n

Shown == walk.seen \cup ToSet(walk.rows)

SteadyAreListed == steady \subseteq ToSet(Matching)

UnseenAreBehind ==
    /\ walk.stage \in {"asking", "reading"} => Behind(Matching, walk.seen, Skip)
    /\ walk.stage = "reading" /\ walk.rows # NotRead => Behind(Matching, Shown, Skip + PerPage)

\* If a steady row would be missed, the total is above what has been read.
TotalGoesOn ==
    walk.stage = "reading" /\ walk.rows # NotRead /\ walk.total # NotRead =>
        steady \subseteq Shown \/ walk.total > Skip + PerPage

\* A total that was read before its page has counted the steady rows.
TotalBeforePage ==
    walk.stage = "reading" /\ walk.rows = NotRead /\ walk.total # NotRead
        /\ listing \notin Transactional =>
        /\ listing # "history"
        /\ \A i \in DOMAIN Matching : Matching[i] \in steady => i <= walk.total

\* What a transaction sees is older than the list, and its total is its own.
ViewIsOlder ==
    walk.stage = "reading" /\ listing \in Transactional =>
        /\ steady \subseteq ToSet(walk.view)
        /\ Behind(walk.view, walk.seen, Skip)
        /\ walk.rows # NotRead => Behind(walk.view, Shown, Skip + PerPage)
        /\ walk.total # NotRead => walk.total = Len(walk.view)
        /\ \A i \in DOMAIN Matching, m \in DOMAIN walk.view :
               Matching[i] = walk.view[m] /\ Matching[i] \in steady => m <= i

NothingMissed == walk.stage = "done" => steady \subseteq walk.seen

\* All that the invariant promises of a walk no row has spoilt.
NothingLost ==
    /\ SteadyAreListed /\ UnseenAreBehind /\ TotalGoesOn
    /\ TotalBeforePage /\ ViewIsOlder /\ NothingMissed

WalkInv ==
    /\ TypeOK /\ ListedOnce /\ WalkInOrder
    /\ Excused \/ NothingLost

LEMMA RemovedRow ==
    ASSUME NEW s \in Seq(Row), NEW i \in DOMAIN s
    PROVE  /\ RemoveAt(s, i) \in Seq(Row)
           /\ Len(RemoveAt(s, i)) = Len(s) - 1
           /\ \A j \in 1 .. Len(s) - 1 :
                  RemoveAt(s, i)[j] = IF j < i THEN s[j] ELSE s[j + 1]
  <1> DEFINE front == SubSeq(s, 1, i - 1)
             back == SubSeq(s, i + 1, Len(s))
  <1>1. i \in 1 .. Len(s) /\ Len(s) \in Nat
    OBVIOUS
  <1>2. /\ front \in Seq(Row) /\ Len(front) = i - 1
        /\ \A j \in 1 .. i - 1 : front[j] = s[j]
    BY <1>1, SubSeqProperties
  <1>3. /\ back \in Seq(Row) /\ Len(back) = Len(s) - i
        /\ \A j \in 1 .. Len(s) - i : back[j] = s[i + j]
    BY <1>1, SubSeqProperties
  <1> HIDE DEF front, back
  <1>4. front \o back \in Seq(Row) /\ Len(front \o back) = Len(s) - 1
    BY <1>1, <1>2, <1>3
  <1>5. \A j \in 1 .. Len(s) - 1 :
            (front \o back)[j] = IF j < i THEN s[j] ELSE s[j + 1]
    <2>1. SUFFICES ASSUME NEW j \in 1 .. Len(s) - 1
                   PROVE  (front \o back)[j] = IF j < i THEN s[j] ELSE s[j + 1]
      OBVIOUS
    <2>2. (front \o back)[j] = IF j <= Len(front) THEN front[j] ELSE back[j - Len(front)]
      BY <1>1, <1>2, <1>3, <2>1
    <2>3. QED BY <1>1, <1>2, <1>3, <2>1, <2>2
  <1>6. RemoveAt(s, i) = front \o back
    BY DEF RemoveAt, front, back
  <1>7. QED BY <1>4, <1>5, <1>6

\* A row put in front.
LEMMA PutInFront ==
    ASSUME NEW s \in Seq(Row), NEW row \in Row
    PROVE  /\ <<row>> \o s \in Seq(Row)
           /\ Len(<<row>> \o s) = Len(s) + 1
           /\ (<<row>> \o s)[1] = row
           /\ \A j \in 2 .. Len(s) + 1 : (<<row>> \o s)[j] = s[j - 1]
  OBVIOUS

\* What is said of a list in which every steady row stands where it was, or
\* further back.
FurtherBack(old, new, still) ==
    \A j \in DOMAIN new :
        new[j] \in still => \E i \in DOMAIN old : old[i] = new[j] /\ i <= j

LEMMA RowComesFacts ==
    ASSUME TypeOK, ListedOnce, NEW row \in Row, RowComes(row)
    PROVE  /\ rows' \in Seq(Row)
           /\ ListedOnce'
           /\ ToSet(rows) \subseteq ToSet(rows')
           /\ \A still : row \notin still => FurtherBack(rows, rows', still)
           /\ listing = "members" =>
                  \A j \in DOMAIN rows' : rows'[j] # row => j \in DOMAIN rows /\ rows[j] = rows'[j]
  <1>1. /\ rows \in Seq(Row) /\ DOMAIN rows = 1 .. Len(rows) /\ Len(rows) \in Nat
        /\ \A j \in DOMAIN rows : rows[j] # row
    BY DEF TypeOK, RowComes, ToSet
  <1>2. CASE listing = "members"
    <2>1. rows' = Append(rows, row)
      BY <1>2 DEF RowComes, Placed
    <2>2. /\ rows' \in Seq(Row) /\ DOMAIN rows' = 1 .. Len(rows) + 1
          /\ rows'[Len(rows) + 1] = row
          /\ \A j \in 1 .. Len(rows) : rows'[j] = rows[j]
      BY <1>1, <2>1
    <2>3. ListedOnce'
      BY <1>1, <2>2 DEF ListedOnce
    <2>4. ToSet(rows) \subseteq ToSet(rows')
      BY <1>1, <2>2 DEF ToSet
    <2>5. \A still : row \notin still => FurtherBack(rows, rows', still)
      BY <1>1, <2>2 DEF FurtherBack
    <2>6. \A j \in DOMAIN rows' : rows'[j] # row => j \in DOMAIN rows /\ rows[j] = rows'[j]
      BY <1>1, <2>2
    <2>7. QED BY <2>2, <2>3, <2>4, <2>5, <2>6
  <1>3. CASE listing # "members"
    <2>1. rows' = <<row>> \o rows
      BY <1>3 DEF RowComes, Placed
    <2>2. /\ rows' \in Seq(Row) /\ DOMAIN rows' = 1 .. Len(rows) + 1
          /\ rows'[1] = row
          /\ \A j \in 2 .. Len(rows) + 1 : rows'[j] = rows[j - 1]
      BY <1>1, <2>1, PutInFront
    <2>3. \A j \in DOMAIN rows : j + 1 \in DOMAIN rows' /\ rows'[j + 1] = rows[j]
      BY <1>1, <2>2
    <2>4. ListedOnce'
      <3>1. SUFFICES ASSUME NEW j \in DOMAIN rows', NEW k \in DOMAIN rows', rows'[j] = rows'[k]
                     PROVE  j = k
        BY DEF ListedOnce
      <3>2. \A m \in DOMAIN rows' : m # 1 => rows'[m] # row
        <4>1. \A m \in 2 .. Len(rows) + 1 : m - 1 \in DOMAIN rows
          BY <1>1
        <4>2. \A m \in 2 .. Len(rows) + 1 : rows'[m] # row
          BY <1>1, <2>2, <4>1
        <4>3. QED BY <1>1, <2>2, <4>2
      <3>3. CASE j # 1 /\ k # 1
        <4>1. /\ j - 1 \in DOMAIN rows /\ k - 1 \in DOMAIN rows
              /\ rows[j - 1] = rows[k - 1]
          BY <1>1, <2>2, <3>1, <3>3
        <4>2. j - 1 = k - 1
          BY <4>1 DEF ListedOnce
        <4>3. QED BY <2>2, <4>2
      <3>4. CASE j = 1 \/ k = 1
        BY <2>2, <3>1, <3>2, <3>4
      <3>5. QED BY <3>3, <3>4
    <2>5. ToSet(rows) \subseteq ToSet(rows')
      BY <2>3 DEF ToSet
    <2>6. \A still : row \notin still => FurtherBack(rows, rows', still)
      <3>1. ASSUME NEW j \in DOMAIN rows', rows'[j] # row
            PROVE  \E i \in DOMAIN rows : rows[i] = rows'[j] /\ i <= j
        <4>1. j - 1 \in DOMAIN rows /\ rows[j - 1] = rows'[j] /\ j - 1 <= j
          BY <1>1, <2>2, <3>1
        <4>2. QED BY <4>1
      <3>2. QED BY <3>1 DEF FurtherBack
    <2>7. QED BY <1>3, <2>2, <2>4, <2>5, <2>6
  <1>4. QED BY <1>2, <1>3

LEMMA RowLeavesFacts ==
    ASSUME TypeOK, ListedOnce, NEW i \in DOMAIN rows, RowLeaves(i)
    PROVE  rows' \in Seq(Row) /\ ListedOnce'
  <1>1. /\ rows \in Seq(Row) /\ DOMAIN rows = 1 .. Len(rows) /\ Len(rows) \in Nat
        /\ rows' = RemoveAt(rows, i)
    BY DEF TypeOK, RowLeaves
  <1>2. /\ rows' \in Seq(Row) /\ Len(rows') = Len(rows) - 1
        /\ \A j \in 1 .. Len(rows) - 1 : rows'[j] = IF j < i THEN rows[j] ELSE rows[j + 1]
    BY <1>1, RemovedRow
  <1>3. DOMAIN rows' = 1 .. Len(rows) - 1
    BY <1>1, <1>2
  <1>4. ListedOnce'
    BY <1>1, <1>2, <1>3 DEF ListedOnce
  <1>5. QED BY <1>2, <1>4

LEMMA RowChangesFacts ==
    ASSUME TypeOK, ListedOnce, NEW i \in DOMAIN rows, RowChanges(i)
    PROVE  /\ rows' \in Seq(Row)
           /\ ListedOnce'
           /\ ToSet(rows) \subseteq ToSet(rows')
           /\ FurtherBack(rows, rows', steady')
  <1>1. /\ rows \in Seq(Row) /\ DOMAIN rows = 1 .. Len(rows) /\ Len(rows) \in Nat
        /\ rows[i] \in Row /\ rows[i] \notin steady'
    BY DEF TypeOK, RowChanges
  <1> DEFINE rest == RemoveAt(rows, i)
  <1>2. /\ rest \in Seq(Row) /\ Len(rest) = Len(rows) - 1
        /\ \A j \in 1 .. Len(rows) - 1 : rest[j] = IF j < i THEN rows[j] ELSE rows[j + 1]
    BY <1>1, RemovedRow
  <1> HIDE DEF rest
  <1>3. rows' = <<rows[i]>> \o rest
    BY DEF rest, RowChanges
  <1>4. /\ rows' \in Seq(Row) /\ DOMAIN rows' = 1 .. Len(rows)
        /\ rows'[1] = rows[i]
        /\ \A j \in 2 .. Len(rows) : rows'[j] = rest[j - 1]
    <2>1. /\ rows' \in Seq(Row) /\ Len(rows') = Len(rest) + 1
          /\ rows'[1] = rows[i]
          /\ \A j \in 2 .. Len(rest) + 1 : rows'[j] = rest[j - 1]
      <3>1. rows[i] \in Row /\ rest \in Seq(Row)
        BY <1>1, <1>2
      <3>2. QED BY <1>3, <3>1, PutInFront
    <2>2. Len(rest) + 1 = Len(rows)
      BY <1>1, <1>2
    <2>3. QED BY <2>1, <2>2
  <1>5. \A j \in 2 .. Len(rows) : rows'[j] = IF j <= i THEN rows[j - 1] ELSE rows[j]
    <2>1. SUFFICES ASSUME NEW j \in 2 .. Len(rows)
                   PROVE  rows'[j] = IF j <= i THEN rows[j - 1] ELSE rows[j]
      OBVIOUS
    <2>2. j \in Int /\ i \in Int /\ j - 1 \in 1 .. Len(rows) - 1 /\ (j - 1) + 1 = j
      BY <1>1, <2>1
    <2>3. rows'[j] = rest[j - 1]
      BY <1>4, <2>1
    <2>4. rest[j - 1] = IF j - 1 < i THEN rows[j - 1] ELSE rows[j]
      BY <1>2, <2>2
    <2>5. QED BY <2>2, <2>3, <2>4
  <1>6. ListedOnce'
    <2>1. SUFFICES ASSUME NEW j \in 1 .. Len(rows), NEW k \in 1 .. Len(rows), j < k
                   PROVE  rows'[j] # rows'[k]
      BY <1>4 DEF ListedOnce
    <2>2. \A m \in 2 .. Len(rows) : rows'[m] # rows[i]
      <3>1. SUFFICES ASSUME NEW m \in 2 .. Len(rows) PROVE rows'[m] # rows[i]
        OBVIOUS
      <3>2. CASE m <= i
        <4>1. rows'[m] = rows[m - 1] /\ m - 1 \in DOMAIN rows /\ m - 1 # i
          BY <1>1, <1>5, <3>1, <3>2
        <4>2. QED BY <4>1 DEF ListedOnce
      <3>3. CASE m > i
        <4>1. rows'[m] = rows[m] /\ m \in DOMAIN rows /\ m # i
          BY <1>1, <1>5, <3>1, <3>3
        <4>2. QED BY <4>1 DEF ListedOnce
      <3>4. QED BY <1>1, <3>1, <3>2, <3>3
    <2>3. CASE j = 1
      <3>1. k \in 2 .. Len(rows)
        BY <1>1, <2>1, <2>3
      <3>2. QED BY <1>4, <2>2, <2>3, <3>1
    <2>4. CASE j # 1
      <3>1. /\ j \in 2 .. Len(rows) /\ k \in 2 .. Len(rows)
            /\ j - 1 \in DOMAIN rows /\ j \in DOMAIN rows
            /\ k - 1 \in DOMAIN rows /\ k \in DOMAIN rows
            /\ j # k /\ j - 1 # k - 1 /\ j - 1 # k
        BY <1>1, <2>1, <2>4
      <3>2. CASE j <= i /\ k <= i
        <4>1. rows'[j] = rows[j - 1] /\ rows'[k] = rows[k - 1]
          BY <1>5, <3>1, <3>2
        <4>2. QED BY <3>1, <4>1 DEF ListedOnce
      <3>3. CASE j <= i /\ k > i
        <4>1. rows'[j] = rows[j - 1] /\ rows'[k] = rows[k]
          BY <1>1, <1>5, <3>1, <3>3
        <4>2. QED BY <3>1, <4>1 DEF ListedOnce
      <3>4. CASE j > i
        <4>1. rows'[j] = rows[j] /\ rows'[k] = rows[k]
          BY <1>1, <1>5, <2>1, <3>1, <3>4
        <4>2. QED BY <3>1, <4>1 DEF ListedOnce
      <3>5. QED BY <1>1, <2>1, <3>2, <3>3, <3>4
    <2>5. QED BY <2>3, <2>4
  <1>7. ToSet(rows) \subseteq ToSet(rows')
    <2>1. SUFFICES ASSUME NEW j \in DOMAIN rows PROVE \E k \in DOMAIN rows' : rows'[k] = rows[j]
      BY DEF ToSet
    <2>2. CASE j = i
      <3>1. 1 \in DOMAIN rows'
        BY <1>1, <1>4, <2>1
      <3>2. QED BY <1>4, <2>2, <3>1
    <2>3. CASE j < i
      <3>1. j + 1 \in 2 .. Len(rows) /\ rows'[j + 1] = rows[j]
        BY <1>1, <1>5, <2>3
      <3>2. j + 1 \in DOMAIN rows'
        BY <1>1, <1>4, <3>1
      <3>3. QED BY <3>1, <3>2
    <2>4. CASE j > i
      <3>1. j \in 2 .. Len(rows) /\ rows'[j] = rows[j]
        BY <1>1, <1>5, <2>4
      <3>2. j \in DOMAIN rows'
        BY <1>1, <1>4, <3>1
      <3>3. QED BY <3>1, <3>2
    <2>5. QED BY <1>1, <2>2, <2>3, <2>4
  <1>8. FurtherBack(rows, rows', steady')
    <2>1. SUFFICES ASSUME NEW j \in 1 .. Len(rows), rows'[j] \in steady'
                   PROVE  \E k \in DOMAIN rows : rows[k] = rows'[j] /\ k <= j
      BY <1>4 DEF FurtherBack
    <2>2. j \in 2 .. Len(rows)
      <3>1. j # 1
        BY <1>1, <1>4, <2>1
      <3>2. QED BY <1>1, <2>1, <3>1
    <2>3. CASE j <= i
      <3>1. j - 1 \in DOMAIN rows /\ rows[j - 1] = rows'[j] /\ j - 1 <= j
        BY <1>1, <1>5, <2>2, <2>3
      <3>2. QED BY <3>1
    <2>4. CASE j > i
      <3>1. j \in DOMAIN rows /\ rows[j] = rows'[j] /\ j <= j
        BY <1>1, <1>5, <2>2, <2>4
      <3>2. QED BY <3>1
    <2>5. QED BY <1>1, <2>2, <2>3, <2>4
  <1>9. QED BY <1>4, <1>6, <1>7, <1>8

-----------------------------------------------------------------------------
\* Steady rows that stand where they stood, or further back, are still to come.
LEMMA NothingLostByMoves ==
    ASSUME TypeOK, NothingLost,
           UNCHANGED <<walk, listing>>, steady' \subseteq steady,
           Matching \in Seq(Row), Matching' \in Seq(Row),
           FurtherBack(Matching, Matching', steady'),
           SteadyAreListed', TotalBeforePage'
    PROVE  NothingLost'
  <1>1. /\ walk' = walk /\ listing' = listing /\ steady' \subseteq steady
        /\ DOMAIN Matching \subseteq Int /\ DOMAIN Matching' \subseteq Int
        /\ Skip' = Skip /\ Shown' = Shown /\ Skip \in Int /\ PerPage \in Int
    BY PageAssumption DEF TypeOK, Walk, Skip, Shown
  <1>2. \A all, shown, n : Behind(all, shown, n) => \A j \in DOMAIN all :
            all[j] \in steady' \ shown => j > n
    BY <1>1 DEF Behind
  <1>3. ASSUME NEW shown, NEW n \in Int, Behind(Matching, shown, n)
        PROVE  \A j \in DOMAIN Matching' : Matching'[j] \in steady' \ shown => j > n
    BY <1>1, <1>2, <1>3 DEF FurtherBack
  <1>4. UnseenAreBehind'
    <2>1. ASSUME walk.stage \in {"asking", "reading"}
          PROVE  \A j \in DOMAIN Matching' : Matching'[j] \in steady' \ walk.seen => j > Skip
      BY <1>1, <1>3, <2>1 DEF NothingLost, UnseenAreBehind
    <2>2. ASSUME walk.stage = "reading", walk.rows # NotRead
          PROVE  \A j \in DOMAIN Matching' :
                     Matching'[j] \in steady' \ Shown => j > Skip + PerPage
      BY <1>1, <1>3, <2>2 DEF NothingLost, UnseenAreBehind
    <2>3. QED BY <1>1, <2>1, <2>2 DEF UnseenAreBehind, Behind
  <1>5. TotalGoesOn'
    BY <1>1 DEF NothingLost, TotalGoesOn
  <1>6. ViewIsOlder'
    <2>1. SUFFICES ASSUME walk.stage = "reading", listing \in Transactional
                   PROVE  ViewIsOlder'
      BY <1>1 DEF ViewIsOlder
    <2>2. /\ steady \subseteq ToSet(walk.view)
          /\ Behind(walk.view, walk.seen, Skip)
          /\ walk.rows # NotRead => Behind(walk.view, Shown, Skip + PerPage)
          /\ walk.total # NotRead => walk.total = Len(walk.view)
          /\ \A i \in DOMAIN Matching, m \in DOMAIN walk.view :
                 Matching[i] = walk.view[m] /\ Matching[i] \in steady => m <= i
      BY <2>1 DEF NothingLost, ViewIsOlder
    <2>3. walk.view \in Seq(Row) /\ DOMAIN walk.view \subseteq Int
      BY DEF TypeOK, Walk
    <2>4. \A j \in DOMAIN Matching', m \in DOMAIN walk.view :
              Matching'[j] = walk.view[m] /\ Matching'[j] \in steady' => m <= j
      <3>1. SUFFICES ASSUME NEW j \in DOMAIN Matching', NEW m \in DOMAIN walk.view,
                            Matching'[j] = walk.view[m], Matching'[j] \in steady'
                     PROVE  m <= j
        OBVIOUS
      <3>2. PICK i \in DOMAIN Matching : Matching[i] = Matching'[j] /\ i <= j
        BY <3>1 DEF FurtherBack
      <3>3. m <= i
        BY <1>1, <2>2, <3>1, <3>2
      <3>4. QED BY <1>1, <2>3, <3>1, <3>2, <3>3
    <2>5. /\ \A j \in DOMAIN walk.view : walk.view[j] \in steady' \ walk.seen => j > Skip
          /\ walk.rows # NotRead => \A j \in DOMAIN walk.view :
                 walk.view[j] \in steady' \ Shown => j > Skip + PerPage
      BY <1>2, <2>2
    <2>6. QED BY <1>1, <2>1, <2>2, <2>4, <2>5 DEF ViewIsOlder, Behind
  <1>7. NothingMissed'
    BY <1>1 DEF NothingLost, NothingMissed
  <1>8. QED BY <1>4, <1>5, <1>6, <1>7 DEF NothingLost

\* What has to be shown of a step that moves rows only.
LEMMA WalkInvKeptByMoves ==
    ASSUME WalkInv, UNCHANGED <<walk, listing>>, steady' \subseteq steady,
           rows' \in Seq(Row), ListedOnce',
           subject' \in BOOLEAN, left' \in BOOLEAN, outrun' \in BOOLEAN,
           Excused => Excused', NothingLost => Excused' \/ NothingLost'
    PROVE  WalkInv'
  <1>1. TypeOK'
    BY DEF WalkInv, TypeOK
  <1>2. WalkInOrder'
    BY DEF WalkInv, WalkInOrder, Admitted, Skip
  <1>3. QED BY <1>1, <1>2 DEF WalkInv

LEMMA MatchingIsAListing ==
    ASSUME TypeOK
    PROVE  Matching \in Seq(Row) /\ DOMAIN Matching = 1 .. Len(Matching) /\ Len(Matching) \in Nat
  <1>1. <<>> \in Seq(Row)
    BY EmptySeq
  <1>2. Matching \in Seq(Row)
    BY <1>1 DEF TypeOK, Matching
  <1>3. QED BY <1>2

LEMMA WalkInvKeptByComing ==
    ASSUME WalkInv, NEW row \in Row, RowComes(row)
    PROVE  WalkInv'
  <1>1. /\ TypeOK /\ ListedOnce
        /\ UNCHANGED <<listing, subject, walk, steady, left>>
        /\ outrun' = (outrun \/ (walk.rows = NotRead /\ walk.total # NotRead))
        /\ row \notin ToSet(rows)
        /\ subject \/ listing = "history"
    BY DEF WalkInv, RowComes
  <1>2. Matching = rows /\ Matching' = rows'
    BY <1>1 DEF Matching, TypeOK
  <1>3. /\ rows' \in Seq(Row) /\ ListedOnce'
        /\ ToSet(rows) \subseteq ToSet(rows')
        /\ \A still : row \notin still => FurtherBack(rows, rows', still)
        /\ listing = "members" =>
               \A j \in DOMAIN rows' : rows'[j] # row => j \in DOMAIN rows /\ rows[j] = rows'[j]
    BY <1>1, RowComesFacts
  <1>4. outrun' \in BOOLEAN
    BY <1>1 DEF TypeOK
  <1>5. Excused => Excused'
    BY <1>1 DEF Excused
  <1>6. ASSUME NothingLost PROVE Excused' \/ NothingLost'
    <2>1. SUFFICES ASSUME ~Excused' PROVE NothingLost'
      OBVIOUS
    <2>2. row \notin steady /\ SteadyAreListed'
      BY <1>1, <1>2, <1>3, <1>6 DEF NothingLost, SteadyAreListed
    <2>3. FurtherBack(Matching, Matching', steady')
      BY <1>1, <1>2, <1>3, <2>2
    <2>4. TotalBeforePage'
      <3>1. SUFFICES ASSUME walk.stage = "reading", walk.rows = NotRead,
                            walk.total # NotRead, listing \notin Transactional
                     PROVE  /\ listing # "history"
                            /\ \A i \in DOMAIN rows' : rows'[i] \in steady => i <= walk.total
        BY <1>1, <1>2 DEF TotalBeforePage
      <3>2. /\ listing # "history"
            /\ \A i \in DOMAIN rows : rows[i] \in steady => i <= walk.total
        BY <1>2, <1>6, <3>1 DEF NothingLost, TotalBeforePage
      <3>3. listing # "comments"
        BY <1>1, <2>1, <3>1 DEF Excused
      <3>4. listing = "members"
        BY <1>1, <3>1, <3>2, <3>3 DEF TypeOK, Listing, Transactional
      <3>5. QED BY <1>3, <2>2, <3>2, <3>4
    <2>5. Matching \in Seq(Row) /\ Matching' \in Seq(Row)
      BY <1>1, <1>2, <1>3 DEF TypeOK
    <2>6. QED BY <1>1, <1>6, <2>2, <2>3, <2>4, <2>5, NothingLostByMoves
  <1>7. subject' \in BOOLEAN /\ left' \in BOOLEAN
    BY <1>1 DEF TypeOK
  <1>8. QED BY <1>1, <1>3, <1>4, <1>5, <1>6, <1>7, WalkInvKeptByMoves

LEMMA WalkInvKeptByLeaving ==
    ASSUME WalkInv, NEW i \in DOMAIN rows, RowLeaves(i)
    PROVE  WalkInv'
  <1>1. /\ UNCHANGED <<listing, subject, walk, outrun>>
        /\ steady' \subseteq steady /\ left' = TRUE /\ TypeOK
    BY DEF WalkInv, RowLeaves
  <1>2. rows' \in Seq(Row) /\ ListedOnce'
    BY RowLeavesFacts DEF WalkInv
  <1>3. Excused' /\ subject' \in BOOLEAN /\ outrun' \in BOOLEAN
    BY <1>1 DEF Excused, TypeOK
  <1>4. QED BY <1>1, <1>2, <1>3, WalkInvKeptByMoves

LEMMA WalkInvKeptByChange ==
    ASSUME WalkInv, NEW i \in DOMAIN rows, RowChanges(i)
    PROVE  WalkInv'
  <1>1. /\ UNCHANGED <<listing, subject, walk, left, outrun>> /\ listing = "tickets"
        /\ steady' \subseteq steady /\ TypeOK /\ ListedOnce
    BY DEF WalkInv, RowChanges
  <1>2. /\ rows' \in Seq(Row) /\ ListedOnce'
        /\ ToSet(rows) \subseteq ToSet(rows')
        /\ FurtherBack(rows, rows', steady')
    BY <1>1, RowChangesFacts
  <1>3. /\ Excused => Excused'
        /\ subject' \in BOOLEAN /\ left' \in BOOLEAN /\ outrun' \in BOOLEAN
    BY <1>1 DEF Excused, TypeOK
  <1>4. ASSUME NothingLost PROVE NothingLost'
    <2>1. Matching \in Seq(Row) /\ Matching' \in Seq(Row)
      BY <1>1, <1>2, EmptySeq DEF TypeOK, Matching
    <2>2. \/ Matching = rows /\ Matching' = rows'
          \/ Matching = <<>> /\ Matching' = <<>>
      BY <1>1 DEF Matching
    <2>3. FurtherBack(Matching, Matching', steady')
      BY <1>2, <2>2 DEF FurtherBack
    <2>4. ToSet(Matching) \subseteq ToSet(Matching')
      BY <1>2, <2>2
    <2>5. SteadyAreListed'
      BY <1>1, <1>4, <2>4 DEF NothingLost, SteadyAreListed
    <2>6. TotalBeforePage'
      BY <1>1 DEF TotalBeforePage, Transactional
    <2>7. QED BY <1>1, <1>4, <2>1, <2>3, <2>5, <2>6, NothingLostByMoves
  <1>5. QED BY <1>1, <1>2, <1>3, <1>4, WalkInvKeptByMoves

LEMMA WalkInvKeptByLoss ==
    ASSUME WalkInv, LoseSubject
    PROVE  WalkInv'
  <1>1. /\ UNCHANGED <<listing, rows, walk, steady, outrun>> /\ subject' = FALSE
        /\ left' = (left \/ listing = "tickets") /\ TypeOK /\ ListedOnce
    BY DEF WalkInv, LoseSubject
  <1>2. /\ rows' \in Seq(Row) /\ ListedOnce'
        /\ subject' \in BOOLEAN /\ left' \in BOOLEAN /\ outrun' \in BOOLEAN
    BY <1>1 DEF TypeOK, ListedOnce
  <1>3. Excused => Excused'
    BY <1>1 DEF Excused
  <1>4. ASSUME NothingLost PROVE Excused' \/ NothingLost'
    <2>1. CASE listing = "tickets"
      BY <1>1, <2>1 DEF Excused
    <2>2. CASE listing # "tickets"
      <3>1. Matching' = Matching
        BY <1>1, <2>2 DEF Matching
      <3>2. SteadyAreListed' /\ TotalBeforePage'
        BY <1>1, <1>4, <3>1 DEF NothingLost, SteadyAreListed, TotalBeforePage
      <3>3. Matching \in Seq(Row) /\ DOMAIN Matching \subseteq Int
        BY <1>1, MatchingIsAListing
      <3>4. FurtherBack(Matching, Matching', steady')
        <4>1. \A j \in DOMAIN Matching : j <= j
          BY <3>3
        <4>2. QED BY <3>1, <4>1 DEF FurtherBack
      <3>5. QED BY <1>1, <1>4, <3>1, <3>2, <3>3, <3>4, NothingLostByMoves
    <2>3. QED BY <2>1, <2>2
  <1>5. QED BY <1>1, <1>2, <1>3, <1>4, WalkInvKeptByMoves

-----------------------------------------------------------------------------
LEMMA TheSmaller == ASSUME NEW a \in Int, NEW b \in Int PROVE Min({a, b}) = IF a <= b THEN a ELSE b
  BY DEF Min

LEMMA TheLarger == ASSUME NEW a \in Int, NEW b \in Int PROVE Max({a, b}) = IF a >= b THEN a ELSE b
  BY DEF Max

LEMMA SkipIsNatural == ASSUME TypeOK PROVE Skip \in Nat /\ PerPage \in Nat \ {0}
  <1>1. PerPage \in Nat \ {0} /\ walk.page - 1 \in Nat
    BY PageAssumption DEF TypeOK, Walk
  <1>2. \A a, b \in Nat : a * b \in Nat
    OBVIOUS
  <1>3. QED BY <1>1, <1>2 DEF Skip

\* A page that is admitted holds the rows from the first that is not skipped:
\* neither limit of the repository cuts anything off.
LEMMA PageHoldsItsRows ==
    ASSUME TypeOK, Admitted, NEW all \in Seq(Row)
    PROVE  /\ Page(all) \in Seq(Row)
           /\ \A m \in DOMAIN all : m > Skip /\ m <= Skip + PerPage => all[m] \in ToSet(Page(all))
  <1>1. Skip \in Nat /\ PerPage \in Nat \ {0} /\ MaxSkip \in Nat /\ MaxTake \in Nat
        /\ PerPage <= MaxTake /\ Len(all) \in Nat
    BY SkipIsNatural, PageAssumption
  <1>2. resolveSkip(Skip) = Skip
    <2>1. Min({Skip, MaxSkip}) = IF Skip <= MaxSkip THEN Skip ELSE MaxSkip
      BY <1>1, TheSmaller
    <2>2. QED BY <2>1 DEF resolveSkip, Admitted
  <1>3. resolveTake(PerPage) = PerPage
    <2>1. Max({PerPage, 1}) = PerPage
      BY <1>1, TheLarger
    <2>2. Min({PerPage, MaxTake}) = PerPage
      BY <1>1, TheSmaller
    <2>3. QED BY <2>1, <2>2 DEF resolveTake
  <1> DEFINE end == IF Skip + PerPage <= Len(all) THEN Skip + PerPage ELSE Len(all)
  <1>4. Min({Skip + PerPage, Len(all)}) = end
    <2>1. Skip + PerPage \in Int
      BY <1>1
    <2>2. QED BY <1>1, <2>1, TheSmaller
  <1>5. Page(all) = SubSeq(all, Skip + 1, end)
    BY <1>2, <1>3, <1>4 DEF Page
  <1>6. end \in Nat /\ end <= Len(all)
    BY <1>1
  <1> HIDE DEF end
  <1>7. Page(all) \in Seq(Row)
    BY <1>1, <1>5, <1>6
  <1>8. ASSUME NEW m \in DOMAIN all, m > Skip, m <= Skip + PerPage
        PROVE  all[m] \in ToSet(Page(all))
    <2>1. m \in Nat /\ m <= end
      BY <1>1, <1>8 DEF end
    <2>2. Len(Page(all)) = end - Skip
      BY <1>1, <1>5, <1>6, <1>8, <2>1
    <2>3. m - Skip \in 1 .. Len(Page(all))
      BY <1>1, <1>6, <1>8, <2>1, <2>2
    <2>4. Page(all)[m - Skip] = all[m]
      BY <1>1, <1>5, <1>6, <1>8, <2>1, <2>3
    <2>5. m - Skip \in DOMAIN Page(all)
      BY <1>7, <2>3
    <2>6. QED BY <2>4, <2>5 DEF ToSet
  <1>9. QED BY <1>7, <1>8

LEMMA ViewIsAListing == ASSUME TypeOK PROVE View \in Seq(Row)
  BY MatchingIsAListing DEF TypeOK, Walk, View

\* A steady row that is still to be shown is in the list, and in the view.
LEMMA StillToCome ==
    ASSUME NothingLost, NEW shown, ~(steady \subseteq shown)
    PROVE  /\ \E i \in DOMAIN Matching : Matching[i] \in steady \ shown
           /\ walk.stage = "reading" /\ listing \in Transactional =>
                  \E m \in DOMAIN walk.view : walk.view[m] \in steady \ shown
  BY DEF NothingLost, SteadyAreListed, ViewIsOlder, ToSet

LEMMA WalkInvKeptByStart ==
    ASSUME WalkInv, StartWalk
    PROVE  WalkInv'
  <1>1. /\ walk.stage = "idle" /\ walk.rows = NotRead /\ walk.total = NotRead
        /\ walk.page = 1 /\ walk.seen = {}
        /\ walk \in Walk /\ TypeOK /\ ListedOnce
        /\ walk' = [walk EXCEPT !.stage = "asking"]
        /\ steady' = ToSet(Matching) /\ left' = FALSE /\ outrun' = FALSE
        /\ UNCHANGED <<listing, rows, subject>>
    BY DEF WalkInv, WalkInOrder, TypeOK, StartWalk
  <1>2. /\ walk' \in Walk
        /\ walk'.stage = "asking" /\ walk'.page = 1 /\ walk'.seen = {}
        /\ walk'.rows = NotRead /\ walk'.total = NotRead
    BY <1>1 DEF Walk
  <1>3. Matching' = Matching /\ Matching \in Seq(Row) /\ DOMAIN Matching = 1 .. Len(Matching)
    BY <1>1, MatchingIsAListing DEF Matching
  <1>4. TypeOK' /\ ListedOnce'
    <2>1. ToSet(Matching) \subseteq Row
      BY <1>3 DEF ToSet
    <2>2. QED BY <1>1, <1>2, <2>1 DEF TypeOK, ListedOnce
  <1>5. WalkInOrder'
    BY <1>2 DEF WalkInOrder
  <1>6. Skip' = 0
    BY <1>2, PageAssumption DEF Skip
  <1>7. UnseenAreBehind'
    BY <1>2, <1>3, <1>6 DEF UnseenAreBehind, Behind
  <1>8. /\ SteadyAreListed' /\ TotalGoesOn' /\ TotalBeforePage' /\ ViewIsOlder' /\ NothingMissed'
    BY <1>1, <1>2, <1>3
       DEF SteadyAreListed, TotalGoesOn, TotalBeforePage, ViewIsOlder, NothingMissed
  <1>9. QED BY <1>4, <1>5, <1>7, <1>8 DEF WalkInv, NothingLost

LEMMA WalkInvKeptByRefusal ==
    ASSUME WalkInv, RefusePage \/ TicketNotFound
    PROVE  WalkInv'
  <1>1. PICK stage \in {"refused", "notFound"} : walk' = [walk EXCEPT !.stage = stage]
    BY DEF RefusePage, TicketNotFound
  <1>2. /\ walk \in Walk /\ TypeOK /\ ListedOnce
        /\ UNCHANGED <<listing, rows, subject, steady, left, outrun>>
    BY DEF WalkInv, TypeOK, RefusePage, TicketNotFound
  <1>3. walk' \in Walk /\ walk'.stage \in {"refused", "notFound"}
    BY <1>1, <1>2 DEF Walk
  <1>4. TypeOK' /\ ListedOnce' /\ WalkInOrder'
    BY <1>2, <1>3 DEF TypeOK, ListedOnce, WalkInOrder
  <1>5. Matching' = Matching
    BY <1>2 DEF Matching
  <1>6. NothingLost => NothingLost'
    BY <1>2, <1>3, <1>5
       DEF NothingLost, SteadyAreListed, UnseenAreBehind, TotalGoesOn, TotalBeforePage,
           ViewIsOlder, NothingMissed
  <1>7. QED BY <1>2, <1>4, <1>6 DEF WalkInv, Excused

\* No row is listed twice: what the transaction sees is the list.
LEMMA WalkInvKeptByBegin ==
    ASSUME WalkInv, BeginRead
    PROVE  WalkInv'
  <1> DEFINE view == IF listing \in Transactional THEN Matching ELSE <<>>
  <1>1. /\ walk.stage = "asking" /\ Admitted
        /\ walk' = [walk EXCEPT !.stage = "reading", !.view = view]
        /\ UNCHANGED <<listing, rows, subject, steady, left, outrun>>
    BY DEF BeginRead
  <1>2. walk \in Walk /\ TypeOK /\ ListedOnce /\ walk.rows = NotRead /\ walk.total = NotRead
    BY <1>1 DEF WalkInv, TypeOK, WalkInOrder
  <1>3. Matching \in Seq(Row) /\ view \in Seq(Row) /\ DOMAIN Matching \subseteq Int
    BY <1>2, EmptySeq, MatchingIsAListing
  <1>4. /\ walk' \in Walk /\ walk'.stage = "reading" /\ walk'.view = view
        /\ walk'.rows = NotRead /\ walk'.total = NotRead
        /\ walk'.page = walk.page /\ walk'.seen = walk.seen
    BY <1>1, <1>2, <1>3 DEF Walk
  <1>5. /\ Matching' = Matching /\ Skip' = Skip /\ (Admitted' <=> Admitted)
    BY <1>1, <1>4 DEF Matching, Skip, Admitted
  <1>6. TypeOK' /\ ListedOnce' /\ WalkInOrder'
    BY <1>1, <1>2, <1>4, <1>5 DEF TypeOK, ListedOnce, WalkInOrder
  <1>7. ASSUME NothingLost PROVE NothingLost'
    <2>1. steady \subseteq ToSet(Matching) /\ Behind(Matching, walk.seen, Skip)
      BY <1>1, <1>7 DEF NothingLost, SteadyAreListed, UnseenAreBehind
    <2>2. \A i, m \in DOMAIN Matching : Matching[i] = Matching[m] => m <= i
      BY <1>2, <1>3 DEF ListedOnce, Matching
    <2>3. SteadyAreListed' /\ UnseenAreBehind'
      BY <1>1, <1>4, <1>5, <2>1 DEF SteadyAreListed, UnseenAreBehind, Behind
    <2>4. TotalGoesOn' /\ TotalBeforePage' /\ NothingMissed'
      BY <1>4 DEF TotalGoesOn, TotalBeforePage, NothingMissed
    <2>5. ViewIsOlder'
      <3>1. SUFFICES ASSUME listing \in Transactional PROVE ViewIsOlder'
        BY <1>1 DEF ViewIsOlder
      <3>2. walk'.view = Matching
        BY <1>4, <3>1
      <3>3. QED BY <1>1, <1>4, <1>5, <2>1, <2>2, <3>2 DEF ViewIsOlder, Behind
    <2>6. QED BY <2>3, <2>4, <2>5 DEF NothingLost
  <1>8. QED BY <1>1, <1>6, <1>7 DEF WalkInv, Excused

\* The page shows what it should: a steady row stands behind it, or is shown.
LEMMA WalkInvKeptByPage ==
    ASSUME WalkInv, ReadPage
    PROVE  WalkInv'
  <1>1. /\ walk.stage = "reading" /\ walk.rows = NotRead
        /\ walk' = [walk EXCEPT !.rows = Page(View)]
        /\ UNCHANGED <<listing, rows, subject, steady, left, outrun>>
    BY DEF ReadPage
  <1>2. walk \in Walk /\ TypeOK /\ ListedOnce /\ Admitted
    BY <1>1 DEF WalkInv, TypeOK, WalkInOrder
  <1> DEFINE page == Page(View)
             shown == walk.seen \cup ToSet(page)
  <1>3. /\ page \in Seq(Row) /\ page # NotRead
        /\ \A m \in DOMAIN View : m > Skip /\ m <= Skip + PerPage => View[m] \in ToSet(page)
    BY <1>2, ViewIsAListing, PageHoldsItsRows, PageAssumption
  <1> HIDE DEF page
  <1>4. /\ walk' \in Walk /\ walk'.stage = "reading" /\ walk'.rows = page
        /\ walk'.page = walk.page /\ walk'.seen = walk.seen
        /\ walk'.view = walk.view /\ walk'.total = walk.total
    BY <1>1, <1>2, <1>3 DEF Walk, page
  <1>5. /\ Matching' = Matching /\ Skip' = Skip /\ (Admitted' <=> Admitted) /\ Shown' = shown
    BY <1>1, <1>4 DEF Matching, Skip, Admitted, Shown
  <1>6. TypeOK' /\ ListedOnce' /\ WalkInOrder'
    BY <1>1, <1>2, <1>4, <1>5 DEF TypeOK, ListedOnce, WalkInOrder
  <1>7. ASSUME NothingLost PROVE NothingLost'
    <2>1. /\ Skip \in Int /\ PerPage \in Int /\ Matching \in Seq(Row) /\ walk.view \in Seq(Row)
          /\ DOMAIN Matching = 1 .. Len(Matching) /\ DOMAIN walk.view = 1 .. Len(walk.view)
      BY <1>2, SkipIsNatural, MatchingIsAListing DEF Walk
    <2>2. /\ steady \subseteq ToSet(Matching) /\ Behind(Matching, walk.seen, Skip)
      BY <1>1, <1>7 DEF NothingLost, SteadyAreListed, UnseenAreBehind
    <2>3. listing \in Transactional =>
              /\ View = walk.view
              /\ steady \subseteq ToSet(walk.view) /\ Behind(walk.view, walk.seen, Skip)
              /\ walk.total # NotRead => walk.total = Len(walk.view)
              /\ \A i \in DOMAIN Matching, m \in DOMAIN walk.view :
                     Matching[i] = walk.view[m] /\ Matching[i] \in steady => m <= i
      BY <1>1, <1>7 DEF NothingLost, ViewIsOlder, View
    <2>4. listing \notin Transactional => View = Matching
      BY DEF View
    <2>5. \A m \in DOMAIN View : View[m] \in steady \ shown => m > Skip + PerPage
      <3>1. SUFFICES ASSUME NEW m \in DOMAIN View, View[m] \in steady \ shown
                     PROVE  m > Skip + PerPage
        OBVIOUS
      <3>2. m > Skip
        BY <2>2, <2>3, <2>4, <3>1 DEF Behind
      <3>3. m \in Int
        BY <2>1, <2>3, <2>4, <3>1
      <3>4. ~(m <= Skip + PerPage)
        BY <1>3, <3>1, <3>2
      <3>5. QED BY <2>1, <3>3, <3>4
    <2>6. \A i \in DOMAIN Matching : Matching[i] \in steady \ shown => i > Skip + PerPage
      <3>1. CASE listing \notin Transactional
        BY <2>4, <2>5, <3>1
      <3>2. CASE listing \in Transactional
        <4>1. SUFFICES ASSUME NEW i \in DOMAIN Matching, Matching[i] \in steady \ shown
                       PROVE  i > Skip + PerPage
          OBVIOUS
        <4>2. PICK m \in DOMAIN walk.view : walk.view[m] = Matching[i]
          BY <2>3, <3>2, <4>1 DEF ToSet
        <4>3. m > Skip + PerPage
          BY <2>3, <2>5, <3>2, <4>1, <4>2
        <4>4. m <= i
          BY <2>3, <3>2, <4>1, <4>2
        <4>5. QED BY <2>1, <4>1, <4>2, <4>3, <4>4
      <3>3. QED BY <3>1, <3>2
    <2>7. SteadyAreListed'
      BY <1>1, <1>5, <2>2 DEF SteadyAreListed
    <2>8. UnseenAreBehind'
      BY <1>1, <1>4, <1>5, <2>2, <2>6 DEF UnseenAreBehind, Behind
    <2>9. TotalGoesOn'
      <3>1. SUFFICES ASSUME walk.total # NotRead, ~(steady \subseteq shown)
                     PROVE  walk.total > Skip + PerPage
        BY <1>1, <1>4, <1>5 DEF TotalGoesOn
      <3>2. walk.total \in Int
        BY <1>2, <3>1 DEF Walk
      <3>3. CASE listing \in Transactional
        <4>1. PICK m \in DOMAIN walk.view : walk.view[m] \in steady \ shown
          BY <1>1, <1>7, <3>1, <3>3, StillToCome
        <4>2. m > Skip + PerPage /\ m <= walk.total
          BY <2>1, <2>3, <2>5, <3>1, <3>3, <4>1
        <4>3. QED BY <2>1, <3>2, <4>1, <4>2
      <3>4. CASE listing \notin Transactional
        <4>1. PICK i \in DOMAIN Matching : Matching[i] \in steady \ shown
          BY <1>7, <3>1, StillToCome
        <4>2. i <= walk.total
          BY <1>1, <1>7, <3>1, <3>4, <4>1 DEF NothingLost, TotalBeforePage
        <4>3. i > Skip + PerPage
          BY <2>6, <4>1
        <4>4. QED BY <2>1, <3>2, <4>1, <4>2, <4>3
      <3>5. QED BY <3>3, <3>4
    <2>10. TotalBeforePage' /\ NothingMissed'
      BY <1>3, <1>4 DEF TotalBeforePage, NothingMissed
    <2>11. ViewIsOlder'
      <3>1. SUFFICES ASSUME listing \in Transactional PROVE ViewIsOlder'
        BY <1>1 DEF ViewIsOlder
      <3>2. \A m \in DOMAIN walk.view : walk.view[m] \in steady \ shown => m > Skip + PerPage
        BY <2>3, <2>5, <3>1
      <3>3. QED BY <1>1, <1>4, <1>5, <2>3, <3>1, <3>2 DEF ViewIsOlder, Behind
    <2>12. QED BY <2>7, <2>8, <2>9, <2>10, <2>11 DEF NothingLost
  <1>8. QED BY <1>1, <1>6, <1>7 DEF WalkInv, Excused

\* The total counts every row of the list it is read from.
LEMMA WalkInvKeptByTotal ==
    ASSUME WalkInv, ReadTotal
    PROVE  WalkInv'
  <1>1. /\ walk.stage = "reading" /\ walk.total = NotRead /\ MayCount
        /\ walk' = [walk EXCEPT !.total = Len(View)]
        /\ UNCHANGED <<listing, rows, subject, steady, left, outrun>>
    BY DEF ReadTotal
  <1>2. walk \in Walk /\ TypeOK /\ ListedOnce /\ Admitted
    BY <1>1 DEF WalkInv, TypeOK, WalkInOrder
  <1>3. Len(View) \in Nat /\ View \in Seq(Row)
    BY <1>2, ViewIsAListing
  <1>4. /\ walk' \in Walk /\ walk'.stage = "reading" /\ walk'.rows = walk.rows
        /\ walk'.page = walk.page /\ walk'.seen = walk.seen
        /\ walk'.view = walk.view /\ walk'.total = Len(View)
    BY <1>1, <1>2, <1>3 DEF Walk
  <1>5. /\ Matching' = Matching /\ Skip' = Skip /\ (Admitted' <=> Admitted) /\ Shown' = Shown
    BY <1>1, <1>4 DEF Matching, Skip, Admitted, Shown
  <1>6. TypeOK' /\ ListedOnce' /\ WalkInOrder'
    BY <1>1, <1>2, <1>4, <1>5 DEF TypeOK, ListedOnce, WalkInOrder
  <1>7. ASSUME NothingLost PROVE NothingLost'
    <2>1. /\ Skip \in Int /\ PerPage \in Int /\ walk.view \in Seq(Row)
          /\ DOMAIN Matching = 1 .. Len(Matching) /\ DOMAIN walk.view = 1 .. Len(walk.view)
      BY <1>2, SkipIsNatural, MatchingIsAListing DEF Walk
    <2>2. /\ listing \in Transactional => View = walk.view
          /\ listing \notin Transactional => View = Matching
      BY DEF View
    <2>3. SteadyAreListed' /\ UnseenAreBehind' /\ NothingMissed'
      BY <1>1, <1>4, <1>5, <1>7
         DEF NothingLost, SteadyAreListed, UnseenAreBehind, NothingMissed, Behind
    <2>4. TotalGoesOn'
      <3>1. SUFFICES ASSUME walk.rows # NotRead, ~(steady \subseteq Shown)
                     PROVE  Len(View) > Skip + PerPage
        BY <1>1, <1>4, <1>5 DEF TotalGoesOn
      <3>2. CASE listing \in Transactional
        <4>1. PICK m \in DOMAIN walk.view : walk.view[m] \in steady \ Shown
          BY <1>1, <1>7, <3>1, <3>2, StillToCome
        <4>2. m > Skip + PerPage
          BY <1>1, <1>7, <3>1, <3>2, <4>1 DEF NothingLost, ViewIsOlder, Behind
        <4>3. QED BY <1>3, <2>1, <2>2, <3>2, <4>1, <4>2
      <3>3. CASE listing \notin Transactional
        <4>1. PICK i \in DOMAIN Matching : Matching[i] \in steady \ Shown
          BY <1>7, <3>1, StillToCome
        <4>2. i > Skip + PerPage
          BY <1>1, <1>7, <3>1, <4>1 DEF NothingLost, UnseenAreBehind, Behind
        <4>3. QED BY <1>3, <2>1, <2>2, <3>3, <4>1, <4>2
      <3>4. QED BY <3>2, <3>3
    <2>5. TotalBeforePage'
      <3>1. SUFFICES ASSUME walk.rows = NotRead, listing \notin Transactional
                     PROVE  TotalBeforePage'
        BY <1>1, <1>4 DEF TotalBeforePage
      <3>2. listing # "history"
        BY <1>1, <3>1 DEF MayCount
      <3>3. \A i \in DOMAIN Matching : i <= Len(View)
        BY <2>1, <2>2, <3>1
      <3>4. QED BY <1>1, <1>4, <1>5, <3>2, <3>3 DEF TotalBeforePage
    <2>6. ViewIsOlder'
      BY <1>1, <1>4, <1>5, <1>7, <2>2 DEF NothingLost, ViewIsOlder, Behind
    <2>7. QED BY <2>3, <2>4, <2>5, <2>6 DEF NothingLost
  <1>8. QED BY <1>1, <1>6, <1>7 DEF WalkInv, Excused

\* The last page is the one that reaches the total.
LEMMA LastPageReachesTotal ==
    ASSUME NEW total \in Nat, NEW size \in Nat \ {0}, NEW page \in Nat \ {0},
           ~(page < ((total + size - 1) \div size))
    PROVE  total <= page * size
  OBVIOUS

LEMMA NextPageSkipsThisOne ==
    ASSUME TypeOK
    PROVE  walk.page * PerPage = Skip + PerPage
  <1>1. walk.page \in Nat /\ PerPage \in Nat
    BY PageAssumption DEF TypeOK, Walk
  <1>2. \A k, size \in Nat : k * size = (k - 1) * size + size
    OBVIOUS
  <1>3. QED BY <1>1, <1>2 DEF Skip

\* The walk goes on behind what it has shown, or has shown all there was.
LEMMA WalkInvKeptByAnswer ==
    ASSUME WalkInv, Answer
    PROVE  WalkInv'
  <1> DEFINE goesOn == walk.page < TotalPages
  <1>1. /\ walk.stage = "reading" /\ walk.rows # NotRead /\ walk.total # NotRead
        /\ walk' = [stage |-> IF goesOn THEN "asking" ELSE "done",
                    page |-> IF goesOn THEN walk.page + 1 ELSE walk.page,
                    view |-> <<>>, rows |-> NotRead, total |-> NotRead,
                    seen |-> Shown]
        /\ UNCHANGED <<listing, rows, subject, steady, left, outrun>>
    BY DEF Answer, Shown
  <1>2. walk \in Walk /\ TypeOK /\ ListedOnce
    BY DEF WalkInv, TypeOK
  <1>3. /\ walk.rows \in Seq(Row) /\ walk.total \in Nat /\ walk.page \in Nat \ {0}
        /\ PerPage \in Nat \ {0} /\ Skip \in Nat
    BY <1>1, <1>2, SkipIsNatural DEF Walk
  <1>4. Shown \subseteq Row
    <2>1. ToSet(walk.rows) \subseteq Row
      BY <1>3 DEF ToSet
    <2>2. QED BY <1>2, <2>1 DEF Shown, Walk
  <1>5. /\ walk'.stage = IF goesOn THEN "asking" ELSE "done"
        /\ walk'.page = IF goesOn THEN walk.page + 1 ELSE walk.page
        /\ walk'.rows = NotRead /\ walk'.total = NotRead /\ walk'.seen = Shown
    BY <1>1
  <1> HIDE DEF goesOn
  <1>6. walk' \in Walk
    <2>1. <<>> \in Seq(Row) /\ walk.page + 1 \in Nat \ {0}
      BY <1>3, EmptySeq
    <2>2. QED BY <1>1, <1>3, <1>4, <2>1 DEF Walk
  <1>7. Matching' = Matching
    BY <1>1 DEF Matching
  <1>8. TypeOK' /\ ListedOnce' /\ WalkInOrder'
    BY <1>1, <1>2, <1>5, <1>6 DEF TypeOK, ListedOnce, WalkInOrder
  <1>9. ASSUME NothingLost PROVE NothingLost'
    <2>1. /\ Behind(Matching, Shown, Skip + PerPage)
          /\ steady \subseteq Shown \/ walk.total > Skip + PerPage
      BY <1>1, <1>9 DEF NothingLost, UnseenAreBehind, TotalGoesOn
    <2>2. SteadyAreListed' /\ TotalGoesOn' /\ TotalBeforePage' /\ ViewIsOlder'
      BY <1>1, <1>5, <1>7, <1>9
         DEF NothingLost, SteadyAreListed, TotalGoesOn, TotalBeforePage, ViewIsOlder
    <2>3. UnseenAreBehind'
      <3>1. SUFFICES ASSUME goesOn PROVE UnseenAreBehind'
        BY <1>5 DEF UnseenAreBehind
      <3>2. Skip' = Skip + PerPage
        <4>1. walk'.page - 1 = walk.page
          BY <1>3, <1>5, <3>1
        <4>2. Skip' = (walk'.page - 1) * PerPage
          BY DEF Skip
        <4>3. Skip' = walk.page * PerPage
          BY <4>1, <4>2
        <4>4. QED BY <1>2, <4>3, NextPageSkipsThisOne
      <3>3. QED BY <1>1, <1>5, <1>7, <2>1, <3>1, <3>2 DEF UnseenAreBehind, Behind
    <2>4. NothingMissed'
      <3>1. SUFFICES ASSUME ~goesOn PROVE steady \subseteq Shown
        BY <1>1, <1>5 DEF NothingMissed
      <3>2. walk.total <= walk.page * PerPage
        BY <1>3, <3>1, LastPageReachesTotal DEF goesOn, TotalPages
      <3>3. walk.page * PerPage = Skip + PerPage
        BY <1>2, NextPageSkipsThisOne
      <3>4. QED BY <1>3, <2>1, <3>2, <3>3
    <2>5. QED BY <2>2, <2>3, <2>4 DEF NothingLost
  <1>10. QED BY <1>1, <1>8, <1>9 DEF WalkInv, Excused

LEMMA WalkInvInit == Init => WalkInv
  <1>1. SUFFICES ASSUME Init PROVE WalkInv
    OBVIOUS
  <1>2. <<>> \in Seq(Row)
    BY EmptySeq
  <1>3. /\ walk.stage = "idle" /\ walk.page = 1 /\ walk.seen = {}
        /\ walk.rows = NotRead /\ walk.total = NotRead
        /\ rows = <<>> /\ steady = {}
    BY <1>1 DEF Init
  <1>4. TypeOK
    <2>1. walk \in Walk
      BY <1>1, <1>2 DEF Init, Walk
    <2>2. QED BY <1>1, <1>2, <2>1 DEF Init, TypeOK
  <1>5. ListedOnce /\ WalkInOrder
    BY <1>3 DEF ListedOnce, WalkInOrder
  <1>6. NothingLost
    BY <1>3 DEF NothingLost, SteadyAreListed, UnseenAreBehind, TotalGoesOn, TotalBeforePage,
                ViewIsOlder, NothingMissed
  <1>7. QED BY <1>4, <1>5, <1>6 DEF WalkInv

LEMMA WalkInvKept == WalkInv /\ [Next]_vars => WalkInv'
  <1>. SUFFICES ASSUME WalkInv, [Next]_vars PROVE WalkInv'
    OBVIOUS
  <1>1. ASSUME NEW row \in Row, RowComes(row) PROVE WalkInv'
    BY <1>1, WalkInvKeptByComing
  <1>2. ASSUME NEW i \in DOMAIN rows, RowLeaves(i) PROVE WalkInv'
    BY <1>2, WalkInvKeptByLeaving
  <1>3. ASSUME NEW i \in DOMAIN rows, RowChanges(i) PROVE WalkInv'
    BY <1>3, WalkInvKeptByChange
  <1>4. CASE LoseSubject
    BY <1>4, WalkInvKeptByLoss
  <1>5. CASE StartWalk
    BY <1>5, WalkInvKeptByStart
  <1>6. CASE RefusePage \/ TicketNotFound
    BY <1>6, WalkInvKeptByRefusal
  <1>7. CASE BeginRead
    BY <1>7, WalkInvKeptByBegin
  <1>8. CASE ReadPage
    BY <1>8, WalkInvKeptByPage
  <1>9. CASE ReadTotal
    BY <1>9, WalkInvKeptByTotal
  <1>10. CASE Answer
    BY <1>10, WalkInvKeptByAnswer
  <1>11. CASE UNCHANGED vars
    BY <1>11 DEF vars, WalkInv, TypeOK, ListedOnce, WalkInOrder, Admitted, Skip, Shown, Excused,
                 NothingLost, SteadyAreListed, UnseenAreBehind, Behind, Matching, TotalGoesOn,
                 TotalBeforePage, ViewIsOlder, NothingMissed
  <1>12. QED BY <1>1, <1>2, <1>3, <1>4, <1>5, <1>6, <1>7, <1>8, <1>9, <1>10, <1>11 DEF Next

\* A walk through all the pages of any of the five listings shows every row that
\* was listed throughout and was not changed, unless a row has left it meanwhile
\* or, for comments, one has come between the total and its page: rows that come,
\* changed tickets, the limits on skip and take, and the order in which page and
\* total are read never hide one (infrastructure/database/pagination.ts and
\* the list queries of the repositories).
THEOREM WalksShowEverything == Spec => []WalksAreComplete
  <1>1. WalkInv => WalksAreComplete
    BY DEF WalkInv, NothingLost, NothingMissed, Excused, WalksAreComplete
  <1>2. QED BY <1>1, WalkInvInit, WalkInvKept, PTL DEF Spec

-----------------------------------------------------------------------------
(***************************************************************************)
(* PART 4: AuditValues.  The searches are recursive functions, and so are  *)
(* the levels and what is below a node: they need induction.  It is done   *)
(* with sets: the numbers for which a claim holds, and the least number    *)
(* that is not among them.                                                 *)
(***************************************************************************)
\* A set of natural numbers has a least member, because < is well-founded.
LEMMA LeastNatural ==
    ASSUME NEW S \in SUBSET Nat, S # {}
    PROVE  \E x \in S : \A y \in S : x <= y
  <1>1. \E less : IsWellFoundedOn(less, Nat) /\ \A x, y \in Nat : x < y => <<x, y>> \in less
    <2>1. \A x, y \in Nat : x < y => <<x, y>> \in OpToRel(<, Nat)
      BY DEF OpToRel
    <2>2. QED BY <2>1, NatLessThanWellFounded
  <1>2. PICK less : IsWellFoundedOn(less, Nat) /\ \A x, y \in Nat : x < y => <<x, y>> \in less
    BY <1>1
  <1>3. PICK x \in S : \A y \in S : ~(<<y, x>> \in less)
    <2>1. IsWellFoundedOn(less, Nat)
      BY <1>2
    <2>2. QED BY <2>1, WFMin
  <1>4. \A y \in S : ~(y < x)
    BY <1>2, <1>3
  <1>5. QED BY <1>4

\* Induction up to N, over a set: what is not in it would have a least member.
LEMMA UpTo ==
    ASSUME NEW N \in Nat, NEW S, 0 \in S, \A n \in 0 .. N - 1 : n \in S => n + 1 \in S
    PROVE  \A n \in 0 .. N : n \in S
  <1>1. SUFFICES ASSUME NEW n \in 0 .. N, n \notin S PROVE FALSE
    OBVIOUS
  <1> DEFINE Missing == {k \in 0 .. N : k \notin S}
  <1>2. PICK least \in Missing : \A k \in Missing : least <= k
    <2>1. Missing \in SUBSET Nat /\ Missing # {}
      BY <1>1
    <2> HIDE DEF Missing
    <2>2. QED BY <2>1, LeastNatural
  <1>3. least # 0 /\ least - 1 \in 0 .. N - 1 /\ least - 1 < least
    BY <1>2
  <1>4. least - 1 \in S
    BY <1>2, <1>3
  <1>5. (least - 1) + 1 = least
    BY <1>2
  <1>6. QED BY <1>2, <1>3, <1>4, <1>5

\* What N steps make of a first value.
Iterated(f, N, V, first, step) ==
    f \in [0 .. N -> V] /\ f[0] = first /\ \A n \in 1 .. N : f[n] = step[n][f[n - 1]]

\* Steps from a set into itself can be iterated.
LEMMA Iterates ==
    ASSUME NEW N \in Nat, NEW V, NEW first \in V, NEW step \in [1 .. N -> [V -> V]]
    PROVE  \E f : Iterated(f, N, V, first, step)
  <1> DEFINE Good(n, f) ==
        f \in [0 .. n -> V] /\ f[0] = first /\ \A k \in 1 .. n : f[k] = step[k][f[k - 1]]
  <1> DEFINE Reached == {n \in 0 .. N : \E f : Good(n, f)}
  <1>1. 0 \in Reached
    <2>1. Good(0, [n \in 0 .. 0 |-> first])
      OBVIOUS
    <2> HIDE DEF Good
    <2>2. QED BY <2>1
  <1>2. ASSUME NEW n \in 0 .. N - 1, n \in Reached
        PROVE  n + 1 \in Reached
    <2>1. PICK f : Good(n, f)
      BY <1>2
    <2> DEFINE g == [k \in 0 .. n + 1 |-> IF k = n + 1 THEN step[n + 1][f[n]] ELSE f[k]]
    <2>2. step[n + 1][f[n]] \in V
      <3>1. f[n] \in V /\ n + 1 \in 1 .. N
        BY <2>1
      <3>2. QED BY <3>1
    <2>3. g \in [0 .. n + 1 -> V] /\ g[0] = first
      BY <2>1, <2>2
    <2>4. \A k \in 1 .. n + 1 : g[k] = step[k][g[k - 1]]
      <3>1. SUFFICES ASSUME NEW k \in 1 .. n + 1 PROVE g[k] = step[k][g[k - 1]]
        OBVIOUS
      <3>2. k - 1 \in 0 .. n /\ g[k - 1] = f[k - 1]
        BY <3>1
      <3>3. CASE k = n + 1
        BY <3>2, <3>3
      <3>4. CASE k # n + 1
        <4>1. k \in 1 .. n /\ g[k] = f[k]
          BY <3>4
        <4>2. QED BY <4>1, <3>2, <2>1
      <3>5. QED BY <3>3, <3>4
    <2>5. Good(n + 1, g)
      BY <2>3, <2>4
    <2> HIDE DEF Good, g
    <2>6. QED BY <2>5
  <1>3. N \in Reached
    <2> HIDE DEF Reached
    <2>1. \A n \in 0 .. N : n \in Reached
      BY <1>1, <1>2, UpTo
    <2>2. QED BY <2>1
  <1>4. QED BY <1>3 DEF Iterated

\* The definition F[n \in S] == ... chooses a function that satisfies its
\* equation.  That there is one is shown for each of the four by iterating the
\* body of the definition; here for the levels.
LEMMA LevelIsDefined ==
    ASSUME children \in [Node -> SUBSET Node]
    PROVE  Level = [n \in 0 .. MaxJsonDepth + 1 |->
                      IF n = 0 THEN {Root} ELSE UNION {children[node] : node \in Level[n - 1]}]
  <1> DEFINE Is(f) == f = [n \in 0 .. MaxJsonDepth + 1 |->
                            IF n = 0 THEN {Root} ELSE UNION {children[node] : node \in f[n - 1]}]
  <1> DEFINE Children == [S \in SUBSET Node |-> UNION {children[node] : node \in S}]
  <1> DEFINE step == [n \in 1 .. MaxJsonDepth + 1 |-> Children]
  <1>1. step \in [1 .. MaxJsonDepth + 1 -> [SUBSET Node -> SUBSET Node]] /\ {Root} \in SUBSET Node
    BY AuditValuesAssumption
  <1>2. MaxJsonDepth + 1 \in Nat
    BY AuditValuesAssumption
  <1>3. PICK f : Iterated(f, MaxJsonDepth + 1, SUBSET Node, {Root}, step)
    <2> HIDE DEF step
    <2>1. QED BY <1>1, <1>2, Iterates
  <1>4. Is(f)
    <2>1. f \in [0 .. MaxJsonDepth + 1 -> SUBSET Node] /\ f[0] = {Root}
      BY <1>3 DEF Iterated
    <2>2. ASSUME NEW n \in 1 .. MaxJsonDepth + 1
          PROVE  f[n] = UNION {children[node] : node \in f[n - 1]}
      <3>1. f[n] = step[n][f[n - 1]]
        BY <1>3 DEF Iterated
      <3>2. n - 1 \in 0 .. MaxJsonDepth + 1
        BY AuditValuesAssumption
      <3>3. f[n - 1] \in SUBSET Node
        BY <2>1, <3>2
      <3>4. QED BY <3>1, <3>3
    <2>3. \A n \in 0 .. MaxJsonDepth + 1 :
            f[n] = IF n = 0 THEN {Root} ELSE UNION {children[node] : node \in f[n - 1]}
      <3>1. SUFFICES ASSUME NEW n \in 0 .. MaxJsonDepth + 1, n # 0
                     PROVE  f[n] = UNION {children[node] : node \in f[n - 1]}
        BY <2>1
      <3>2. n \in 1 .. MaxJsonDepth + 1
        BY <3>1
      <3>3. QED BY <2>2, <3>2
    <2>4. f = [n \in 0 .. MaxJsonDepth + 1 |-> f[n]]
      BY <2>1
    <2>5. QED BY <2>3, <2>4
  <1>5. Level = CHOOSE one : Is(one)
    BY DEF Level
  <1> HIDE DEF Is
  <1>6. Is(Level)
    BY <1>4, <1>5
  <1>7. QED BY <1>6 DEF Is

\* The same for what can be reached from a node.
LEMMA BelowIsDefined ==
    ASSUME children \in [Node -> SUBSET Node]
    PROVE  Below = [n \in 0 .. MaxJsonDepth |->
                      [node \in Node |->
                         IF n = 0 THEN children[node]
                         ELSE Below[n - 1][node] \cup UNION {children[below] : below \in Below[n - 1][node]}]]
  <1> DEFINE Is(f) == f = [n \in 0 .. MaxJsonDepth |->
                             [node \in Node |->
                                IF n = 0 THEN children[node]
                                ELSE f[n - 1][node] \cup UNION {children[below] : below \in f[n - 1][node]}]]
  <1> DEFINE Further == [g \in [Node -> SUBSET Node] |->
                           [node \in Node |-> g[node] \cup UNION {children[below] : below \in g[node]}]]
  <1> DEFINE step == [n \in 1 .. MaxJsonDepth |-> Further]
  <1>1. step \in [1 .. MaxJsonDepth -> [[Node -> SUBSET Node] -> [Node -> SUBSET Node]]]
    OBVIOUS
  <1>2. PICK f : Iterated(f, MaxJsonDepth, [Node -> SUBSET Node], children, step)
    <2> HIDE DEF step
    <2>1. QED BY <1>1, Iterates, AuditValuesAssumption
  <1>3. f \in [0 .. MaxJsonDepth -> [Node -> SUBSET Node]] /\ f[0] = children
    BY <1>2 DEF Iterated
  <1>4. \A n \in 0 .. MaxJsonDepth :
          f[n] = [node \in Node |->
                    IF n = 0 THEN children[node]
                    ELSE f[n - 1][node] \cup UNION {children[below] : below \in f[n - 1][node]}]
    <2>1. SUFFICES ASSUME NEW n \in 0 .. MaxJsonDepth, n # 0
                   PROVE  f[n] = [node \in Node |->
                             f[n - 1][node] \cup UNION {children[below] : below \in f[n - 1][node]}]
      BY <1>3
    <2>2. n \in 1 .. MaxJsonDepth /\ n - 1 \in 0 .. MaxJsonDepth
      BY <2>1, AuditValuesAssumption
    <2>3. f[n] = step[n][f[n - 1]]
      BY <1>2, <2>2 DEF Iterated
    <2>4. f[n - 1] \in [Node -> SUBSET Node]
      BY <1>3, <2>2
    <2>5. QED BY <2>2, <2>3, <2>4
  <1>5. Is(f)
    <2>1. f = [n \in 0 .. MaxJsonDepth |-> f[n]]
      BY <1>3
    <2>2. QED BY <2>1, <1>4
  <1>6. Below = CHOOSE one : Is(one)
    BY DEF Below
  <1> HIDE DEF Is
  <1>7. Is(Below)
    BY <1>5, <1>6
  <1>8. QED BY <1>7 DEF Is

\* A set of numbers up to K has a largest member, which is its Max.
LEMMA LargestOf ==
    ASSUME NEW K \in Nat, NEW S \in SUBSET (0 .. K), S # {}
    PROVE  Max(S) \in S /\ \A x \in S : x <= Max(S)
  <1> DEFINE Missing == {k \in 0 .. K : K - k \in S}
  <1>1. Missing \in SUBSET Nat /\ Missing # {}
    <2>1. PICK x \in S : TRUE
      OBVIOUS
    <2>2. K - x \in 0 .. K /\ K - (K - x) = x
      BY <2>1
    <2>3. K - x \in Missing
      BY <2>1, <2>2
    <2>4. Missing # {}
      <3> HIDE DEF Missing
      <3>1. QED BY <2>3
    <2>5. QED BY <2>4
  <1>2. PICK least \in Missing : \A k \in Missing : least <= k
    <2> HIDE DEF Missing
    <2>1. QED BY <1>1, LeastNatural
  <1>3. ASSUME NEW x \in S PROVE x <= K - least
    <2>1. K - x \in 0 .. K /\ K - (K - x) = x
      BY <1>3
    <2>2. least <= K - x
      BY <1>2, <2>1
    <2>3. QED BY <1>2, <2>1, <2>2
  <1>4. K - least \in S
    BY <1>2
  <1>5. \E x \in S : \A y \in S : x >= y
    BY <1>3, <1>4
  <1>6. QED BY <1>5 DEF Max

\* For the depths the iteration starts past the limit and goes to the root.
LEMMA DepthIsDefined ==
    ASSUME children \in [Node -> SUBSET Node]
    PROVE  getMaxDepth = [currentDepth \in 0 .. MaxJsonDepth + 1 |->
              [node \in Node |->
                 IF PastLimit(currentDepth) THEN currentDepth
                 ELSE Max({currentDepth} \cup {getMaxDepth[currentDepth + 1][child] : child \in Values(node)})]]
  <1> DEFINE Is(f) == f = [currentDepth \in 0 .. MaxJsonDepth + 1 |->
                [node \in Node |->
                   IF PastLimit(currentDepth) THEN currentDepth
                   ELSE Max({currentDepth} \cup {f[currentDepth + 1][child] : child \in Values(node)})]]
  <1> DEFINE Depths == 0 .. MaxJsonDepth + 1
  <1> DEFINE V == [Node -> Depths]
  <1> DEFINE first == [node \in Node |-> MaxJsonDepth + 1]
  <1> DEFINE Back(n, g) ==
        [node \in Node |-> Max({MaxJsonDepth + 1 - n} \cup {g[child] : child \in children[node]})]
  <1> DEFINE step == [n \in 1 .. MaxJsonDepth + 1 |-> [g \in V |-> Back(n, g)]]
  <1>1. ASSUME NEW n \in 1 .. MaxJsonDepth + 1, NEW g \in V
        PROVE  Back(n, g) \in V
    <2>1. ASSUME NEW node \in Node
          PROVE  Max({MaxJsonDepth + 1 - n} \cup {g[child] : child \in children[node]}) \in Depths
      <3>1. /\ {MaxJsonDepth + 1 - n} \cup {g[child] : child \in children[node]} \in SUBSET Depths
            /\ {MaxJsonDepth + 1 - n} \cup {g[child] : child \in children[node]} # {}
            /\ MaxJsonDepth + 1 \in Nat
        BY AuditValuesAssumption
      <3>2. QED BY <3>1, LargestOf
    <2>2. QED BY <2>1
  <1>2. step \in [1 .. MaxJsonDepth + 1 -> [V -> V]] /\ first \in V /\ MaxJsonDepth + 1 \in Nat
    <2> HIDE DEF Back
    <2>1. step \in [1 .. MaxJsonDepth + 1 -> [V -> V]]
      BY <1>1
    <2>2. QED BY <2>1, AuditValuesAssumption
  <1>3. PICK f : Iterated(f, MaxJsonDepth + 1, V, first, step)
    <2> HIDE DEF step, first, V
    <2>1. QED BY <1>2, Iterates
  <1>4. f \in [Depths -> V] /\ f[0] = first
    BY <1>3 DEF Iterated
  <1> DEFINE h == [currentDepth \in Depths |-> f[MaxJsonDepth + 1 - currentDepth]]
  <1>5. \A currentDepth \in Depths : MaxJsonDepth + 1 - currentDepth \in Depths
    BY AuditValuesAssumption
  <1>6. h \in [Depths -> V]
    BY <1>4, <1>5
  <1>7. ASSUME NEW currentDepth \in Depths
        PROVE  h[currentDepth] = [node \in Node |->
                   IF PastLimit(currentDepth) THEN currentDepth
                   ELSE Max({currentDepth} \cup {h[currentDepth + 1][child] : child \in Values(node)})]
    <2>1. CASE PastLimit(currentDepth)
      <3>1. currentDepth = MaxJsonDepth + 1 /\ MaxJsonDepth + 1 - currentDepth = 0
        BY <2>1, AuditValuesAssumption DEF PastLimit
      <3>2. h[currentDepth] = first
        BY <3>1, <1>4
      <3>3. QED BY <3>1, <3>2, <2>1
    <2>2. CASE ~PastLimit(currentDepth)
      <3> DEFINE n == MaxJsonDepth + 1 - currentDepth
      <3>1. /\ n \in 1 .. MaxJsonDepth + 1 /\ n - 1 \in Depths /\ MaxJsonDepth + 1 - n = currentDepth
            /\ currentDepth + 1 \in Depths /\ MaxJsonDepth + 1 - (currentDepth + 1) = n - 1
        BY <2>2, AuditValuesAssumption DEF PastLimit
      <3>2. h[currentDepth] = f[n] /\ h[currentDepth + 1] = f[n - 1]
        BY <3>1
      <3> HIDE DEF n, h
      <3>3. f[n] = step[n][f[n - 1]]
        <4> HIDE DEF step, first, V
        <4>1. QED BY <1>3, <3>1 DEF Iterated
      <3>4. f[n - 1] \in V
        BY <1>4, <3>1
      <3>5. f[n] = Back(n, f[n - 1])
        <4> HIDE DEF Back
        <4>1. QED BY <3>1, <3>3, <3>4
      <3>6. h[currentDepth] = [node \in Node |->
                 Max({currentDepth} \cup {h[currentDepth + 1][child] : child \in children[node]})]
        BY <3>1, <3>2, <3>5
      <3>7. QED BY <3>6, <2>2 DEF Values
    <2>3. QED BY <2>1, <2>2
  <1>8. Is(h)
    <2>1. h = [currentDepth \in Depths |-> h[currentDepth]]
      BY <1>6
    <2> HIDE DEF h
    <2>2. QED BY <2>1, <1>7
  <1>9. getMaxDepth = CHOOSE one : Is(one)
    BY DEF getMaxDepth
  <1>10. Is(getMaxDepth)
    <2> HIDE DEF Is, h
    <2>1. QED BY <1>8, <1>9
  <1>11. QED BY <1>10

\* A search exceeds the limit if and only if that of a child does.
LEMMA DepthFacts ==
    ASSUME children \in [Node -> SUBSET Node]
    PROVE  /\ \A currentDepth \in 0 .. MaxJsonDepth + 1, node \in Node :
                getMaxDepth[currentDepth][node] \in 0 .. MaxJsonDepth + 1
           /\ \A node \in Node : getMaxDepth[MaxJsonDepth + 1][node] > MaxJsonDepth
           /\ \A currentDepth \in 0 .. MaxJsonDepth, node \in Node :
                getMaxDepth[currentDepth][node] > MaxJsonDepth
                  <=> \E child \in children[node] : getMaxDepth[currentDepth + 1][child] > MaxJsonDepth
  <1> DEFINE Depths == 0 .. MaxJsonDepth + 1
  <1> DEFINE Candidates(currentDepth, node) ==
        {currentDepth} \cup {getMaxDepth[currentDepth + 1][child] : child \in children[node]}
  <1> DEFINE Typed == {n \in Depths : \A node \in Node : getMaxDepth[MaxJsonDepth + 1 - n][node] \in Depths}
  <1>1. \A node \in Node : getMaxDepth[MaxJsonDepth + 1][node] = MaxJsonDepth + 1
    <2>1. MaxJsonDepth + 1 \in 0 .. MaxJsonDepth + 1 /\ PastLimit(MaxJsonDepth + 1)
      BY AuditValuesAssumption DEF PastLimit
    <2>2. QED BY <2>1, DepthIsDefined
  <1>2. \A currentDepth \in 0 .. MaxJsonDepth, node \in Node :
          getMaxDepth[currentDepth][node] = Max(Candidates(currentDepth, node))
    BY DepthIsDefined, AuditValuesAssumption DEF PastLimit, Values
  <1>3. ASSUME NEW currentDepth \in 0 .. MaxJsonDepth, NEW node \in Node,
               \A below \in Node : getMaxDepth[currentDepth + 1][below] \in Depths
        PROVE  /\ getMaxDepth[currentDepth][node] \in Candidates(currentDepth, node)
               /\ \A x \in Candidates(currentDepth, node) : x <= getMaxDepth[currentDepth][node]
               /\ Candidates(currentDepth, node) \subseteq Depths
    <2>1. /\ Candidates(currentDepth, node) \in SUBSET Depths
          /\ Candidates(currentDepth, node) # {}
          /\ MaxJsonDepth + 1 \in Nat
      BY <1>3, AuditValuesAssumption
    <2> HIDE DEF Candidates
    <2>2. QED BY <2>1, <1>2, LargestOf
  <1>4. 0 \in Typed
    BY <1>1, AuditValuesAssumption
  <1>5. ASSUME NEW n \in 0 .. (MaxJsonDepth + 1) - 1, n \in Typed
        PROVE  n + 1 \in Typed
    <2> DEFINE currentDepth == MaxJsonDepth + 1 - (n + 1)
    <2>1. /\ currentDepth \in 0 .. MaxJsonDepth /\ currentDepth + 1 = MaxJsonDepth + 1 - n
          /\ n + 1 \in Depths
      BY AuditValuesAssumption
    <2>2. \A below \in Node : getMaxDepth[currentDepth + 1][below] \in Depths
      BY <1>5, <2>1
    <2> HIDE DEF currentDepth
    <2>3. \A node \in Node : getMaxDepth[currentDepth][node] \in Depths
      <3> HIDE DEF Candidates, Depths
      <3>1. QED BY <1>3, <2>1, <2>2
    <2>4. QED BY <2>1, <2>3 DEF currentDepth
  <1>6. \A n \in Depths : n \in Typed
    <2> HIDE DEF Typed
    <2>1. MaxJsonDepth + 1 \in Nat
      BY AuditValuesAssumption
    <2>2. QED BY <2>1, <1>4, <1>5, UpTo
  <1>7. \A currentDepth \in Depths, node \in Node : getMaxDepth[currentDepth][node] \in Depths
    <2>1. SUFFICES ASSUME NEW currentDepth \in Depths
                   PROVE  \A node \in Node : getMaxDepth[currentDepth][node] \in Depths
      OBVIOUS
    <2>2. /\ MaxJsonDepth + 1 - currentDepth \in Depths
          /\ MaxJsonDepth + 1 - (MaxJsonDepth + 1 - currentDepth) = currentDepth
      BY AuditValuesAssumption
    <2>3. MaxJsonDepth + 1 - currentDepth \in Typed
      BY <1>6, <2>2
    <2>4. QED BY <2>2, <2>3
  <1>8. ASSUME NEW currentDepth \in 0 .. MaxJsonDepth, NEW node \in Node
        PROVE  getMaxDepth[currentDepth][node] > MaxJsonDepth
                 <=> \E child \in children[node] : getMaxDepth[currentDepth + 1][child] > MaxJsonDepth
    <2>1. \A below \in Node : getMaxDepth[currentDepth + 1][below] \in Depths
      <3>1. currentDepth + 1 \in Depths
        BY AuditValuesAssumption
      <3>2. QED BY <3>1, <1>7
    <2>2. /\ getMaxDepth[currentDepth][node] \in Candidates(currentDepth, node)
          /\ \A x \in Candidates(currentDepth, node) : x <= getMaxDepth[currentDepth][node]
          /\ Candidates(currentDepth, node) \subseteq Depths
      <3> HIDE DEF Candidates, Depths
      <3>1. QED BY <1>3, <2>1
    <2>3. QED BY <2>1, <2>2, AuditValuesAssumption
  <1>9. QED BY <1>1, <1>7, <1>8, AuditValuesAssumption

\* Each level holds the children of the one before.
LEMMA LevelFacts ==
    ASSUME children \in [Node -> SUBSET Node]
    PROVE  /\ Level[0] = {Root}
           /\ \A n \in 0 .. MaxJsonDepth :
                Level[n + 1] = UNION {children[node] : node \in Level[n]}
           /\ \A n \in 0 .. MaxJsonDepth + 1 : Level[n] \subseteq Node
  <1>1. Level[0] = {Root}
    <2>1. 0 \in 0 .. MaxJsonDepth + 1
      BY AuditValuesAssumption
    <2>2. QED BY <2>1, LevelIsDefined
  <1>2. \A n \in 0 .. MaxJsonDepth : Level[n + 1] = UNION {children[node] : node \in Level[n]}
    <2>1. SUFFICES ASSUME NEW n \in 0 .. MaxJsonDepth
                   PROVE  Level[n + 1] = UNION {children[node] : node \in Level[n]}
      OBVIOUS
    <2>2. n + 1 \in 0 .. MaxJsonDepth + 1 /\ n + 1 # 0 /\ (n + 1) - 1 = n
      BY AuditValuesAssumption
    <2>3. QED BY <2>2, LevelIsDefined
  <1> DEFINE Typed == {n \in 0 .. MaxJsonDepth + 1 : Level[n] \subseteq Node}
  <1>3. 0 \in Typed
    BY <1>1, AuditValuesAssumption
  <1>4. ASSUME NEW n \in 0 .. (MaxJsonDepth + 1) - 1, n \in Typed
        PROVE  n + 1 \in Typed
    <2>1. n \in 0 .. MaxJsonDepth /\ n + 1 \in 0 .. MaxJsonDepth + 1
      BY AuditValuesAssumption
    <2>2. Level[n + 1] \subseteq Node
      BY <1>2, <1>4, <2>1
    <2>3. QED BY <2>1, <2>2
  <1>5. \A n \in 0 .. MaxJsonDepth + 1 : n \in Typed
    <2> HIDE DEF Typed
    <2>1. MaxJsonDepth + 1 \in Nat
      BY AuditValuesAssumption
    <2>2. QED BY <2>1, <1>3, <1>4, UpTo
  <1>6. QED BY <1>1, <1>2, <1>5

\* The search from the root exceeds the limit exactly if a walk does: going one
\* level down changes neither.
LEMMA DeepIsUnbounded ==
    ASSUME children \in [Node -> SUBSET Node]
    PROVE  getMaxDepth[0][Root] > MaxJsonDepth <=> ~Bounded
  <1> DEFINE Deep(depth) == \E node \in Level[depth] : getMaxDepth[depth][node] > MaxJsonDepth
  <1> DEFINE Same == {depth \in 0 .. MaxJsonDepth + 1 : Deep(0) <=> Deep(depth)}
  <1>1. \A depth \in 0 .. MaxJsonDepth : Deep(depth) <=> Deep(depth + 1)
    <2>1. SUFFICES ASSUME NEW depth \in 0 .. MaxJsonDepth PROVE Deep(depth) <=> Deep(depth + 1)
      OBVIOUS
    <2>2. Level[depth + 1] = UNION {children[node] : node \in Level[depth]} /\ Level[depth] \subseteq Node
      BY LevelFacts, AuditValuesAssumption
    <2>3. \A node \in Node : getMaxDepth[depth][node] > MaxJsonDepth
            <=> \E child \in children[node] : getMaxDepth[depth + 1][child] > MaxJsonDepth
      BY DepthFacts
    <2>4. QED BY <2>2, <2>3
  <1>2. 0 \in Same
    BY AuditValuesAssumption
  <1>3. ASSUME NEW depth \in 0 .. (MaxJsonDepth + 1) - 1, depth \in Same
        PROVE  depth + 1 \in Same
    <2>1. depth \in 0 .. MaxJsonDepth /\ depth + 1 \in 0 .. MaxJsonDepth + 1
      BY AuditValuesAssumption
    <2>2. Deep(depth) <=> Deep(depth + 1)
      BY <2>1, <1>1
    <2> HIDE DEF Deep
    <2>3. QED BY <2>1, <2>2, <1>3
  <1>4. MaxJsonDepth + 1 \in Same
    <2> HIDE DEF Same
    <2>1. MaxJsonDepth + 1 \in Nat
      BY AuditValuesAssumption
    <2>2. \A depth \in 0 .. MaxJsonDepth + 1 : depth \in Same
      BY <2>1, <1>2, <1>3, UpTo
    <2>3. QED BY <2>1, <2>2
  <1>5. Deep(0) <=> getMaxDepth[0][Root] > MaxJsonDepth
    BY LevelFacts
  <1>6. Deep(MaxJsonDepth + 1) <=> ~Bounded
    <2>1. Level[MaxJsonDepth + 1] \subseteq Node
      BY LevelFacts, AuditValuesAssumption
    <2>2. QED BY <2>1, DepthFacts DEF Bounded
  <1> HIDE DEF Deep
  <1>7. QED BY <1>4, <1>5, <1>6

\* A stack as a function, and with one more node.
LEMMA StackFacts ==
    /\ <<>> \in Stacks
    /\ \A stack \in Stacks :
         /\ Len(stack) \in 0 .. MaxJsonDepth + 1
         /\ stack \in [1 .. Len(stack) -> Node]
         /\ ToSet(stack) = {stack[i] : i \in 1 .. Len(stack)}
         /\ \A node \in Node :
              /\ Len(stack) <= MaxJsonDepth => Append(stack, node) \in Stacks
              /\ Len(Append(stack, node)) = Len(stack) + 1
              /\ \A i \in 1 .. Len(stack) : Append(stack, node)[i] = stack[i]
              /\ Append(stack, node)[Len(stack) + 1] = node
  <1>1. ASSUME NEW size \in Nat, NEW stack \in [1 .. size -> Node]
        PROVE  stack \in Seq(Node) /\ Len(stack) = size /\ DOMAIN stack = 1 .. size
    OBVIOUS
  <1>2. ASSUME NEW size \in 0 .. MaxJsonDepth + 1, NEW stack \in [1 .. size -> Node]
        PROVE  stack \in Stacks
    BY <1>2 DEF Stacks
  <1>3. <<>> \in Stacks
    <2>1. <<>> \in [1 .. 0 -> Node] /\ 0 \in 0 .. MaxJsonDepth + 1
      BY AuditValuesAssumption
    <2>2. QED BY <2>1, <1>2
  <1>4. ASSUME NEW stack \in Stacks
        PROVE  /\ Len(stack) \in 0 .. MaxJsonDepth + 1
               /\ stack \in Seq(Node)
               /\ stack \in [1 .. Len(stack) -> Node]
    <2>1. PICK size \in 0 .. MaxJsonDepth + 1 : stack \in [1 .. size -> Node]
      BY DEF Stacks
    <2>2. size \in Nat
      BY AuditValuesAssumption
    <2>3. QED BY <2>1, <2>2, <1>1
  <1>5. ASSUME NEW stack \in Stacks, NEW node \in Node
        PROVE  /\ Len(Append(stack, node)) = Len(stack) + 1
               /\ \A i \in 1 .. Len(stack) : Append(stack, node)[i] = stack[i]
               /\ Append(stack, node)[Len(stack) + 1] = node
               /\ Append(stack, node) \in [1 .. Len(stack) + 1 -> Node]
    <2>1. stack \in Seq(Node)
      BY <1>4
    <2>2. Append(stack, node) \in Seq(Node) /\ Len(Append(stack, node)) = Len(stack) + 1
      BY <2>1, AppendProperties
    <2>3. Append(stack, node) \in [1 .. Len(stack) + 1 -> Node]
      <3> DEFINE longer == Append(stack, node)
      <3>1. longer \in Seq(Node) /\ Len(longer) = Len(stack) + 1
        BY <2>2
      <3> HIDE DEF longer
      <3>2. longer \in [1 .. Len(longer) -> Node]
        BY <3>1, LenProperties
      <3>3. longer \in [1 .. Len(stack) + 1 -> Node]
        BY <3>1, <3>2
      <3>4. QED BY <3>3 DEF longer
    <2>4. QED BY <2>1, <2>2, <2>3, AppendProperties
  <1>6. ASSUME NEW stack \in Stacks, NEW node \in Node, Len(stack) <= MaxJsonDepth
        PROVE  Append(stack, node) \in Stacks
    <2>1. Len(stack) + 1 \in 0 .. MaxJsonDepth + 1
      BY <1>4, <1>6, AuditValuesAssumption
    <2>2. QED BY <2>1, <1>5, <1>2
  <1>7. ASSUME NEW stack \in Stacks
        PROVE  ToSet(stack) = {stack[i] : i \in 1 .. Len(stack)}
    BY <1>4 DEF ToSet
  <1>8. QED BY <1>3, <1>4, <1>5, <1>6, <1>7

\* For the cycles the iteration starts with full stacks and goes to the empty one.
LEMMA CircularIsDefined ==
    hasCircularReference = [stack \in Stacks |->
        [node \in Node |->
            /\ ~PastLimit(Len(stack))
            /\ \/ node \in ToSet(stack)
               \/ \E child \in Values(node) : hasCircularReference[Append(stack, node)][child]]]
  <1> DEFINE Is(f) == f = [stack \in Stacks |->
        [node \in Node |->
            /\ ~PastLimit(Len(stack))
            /\ \/ node \in ToSet(stack)
               \/ \E child \in Values(node) : f[Append(stack, node)][child]]]
  <1> DEFINE V == [Stacks -> [Node -> BOOLEAN]]
  <1> DEFINE first == [stack \in Stacks |-> [node \in Node |-> FALSE]]
  <1> DEFINE Found(g, stack, node) ==
        node \in ToSet(stack) \/ \E child \in Values(node) : g[Append(stack, node)][child] = TRUE
  <1> DEFINE Back == [g \in V |-> [stack \in Stacks |-> [node \in Node |-> Found(g, stack, node)]]]
  <1> DEFINE step == [n \in 1 .. MaxJsonDepth + 1 |-> Back]
  <1>1. step \in [1 .. MaxJsonDepth + 1 -> [V -> V]] /\ first \in V /\ MaxJsonDepth + 1 \in Nat
    <2> DEFINE Searched(g) == [stack \in Stacks |-> [node \in Node |-> Found(g, stack, node)]]
    <2>1. \A g \in V : Searched(g) \in V
      <3>1. \A g, stack, node : Found(g, stack, node) \in BOOLEAN
        OBVIOUS
      <3> HIDE DEF Found
      <3>2. QED BY <3>1
    <2> HIDE DEF Searched
    <2>2. Back \in [V -> V]
      BY <2>1 DEF Searched
    <2> HIDE DEF Back
    <2>3. QED BY <2>2, AuditValuesAssumption
  <1>2. PICK f : Iterated(f, MaxJsonDepth + 1, V, first, step)
    <2> HIDE DEF step, first, V
    <2>1. QED BY <1>1, Iterates
  <1>3. f \in [0 .. MaxJsonDepth + 1 -> V] /\ f[0] = first
    BY <1>2 DEF Iterated
  <1> DEFINE h == [stack \in Stacks |-> f[MaxJsonDepth + 1 - Len(stack)][stack]]
  <1>4. ASSUME NEW stack \in Stacks, NEW node \in Node
        PROVE  h[stack][node] = (/\ ~PastLimit(Len(stack))
                                 /\ \/ node \in ToSet(stack)
                                    \/ \E child \in Values(node) : h[Append(stack, node)][child])
    <2>1. CASE PastLimit(Len(stack))
      <3>1. MaxJsonDepth + 1 - Len(stack) = 0
        BY <2>1, StackFacts, AuditValuesAssumption DEF PastLimit
      <3>2. h[stack] = first[stack]
        BY <3>1, <1>3
      <3>3. h[stack][node] = FALSE
        BY <3>2
      <3>4. QED BY <3>3, <2>1
    <2>2. CASE ~PastLimit(Len(stack))
      <3> DEFINE n == MaxJsonDepth + 1 - Len(stack)
      <3>1. /\ n \in 1 .. MaxJsonDepth + 1 /\ n - 1 \in 0 .. MaxJsonDepth + 1
            /\ Append(stack, node) \in Stacks
            /\ MaxJsonDepth + 1 - Len(Append(stack, node)) = n - 1
        <4>1. Len(stack) \in 0 .. MaxJsonDepth /\ Len(Append(stack, node)) = Len(stack) + 1
          BY <2>2, StackFacts, AuditValuesAssumption DEF PastLimit
        <4>2. Append(stack, node) \in Stacks
          BY <4>1, StackFacts, AuditValuesAssumption
        <4>3. QED BY <4>1, <4>2, AuditValuesAssumption
      <3>2. h[stack] = f[n][stack] /\ h[Append(stack, node)] = f[n - 1][Append(stack, node)]
        BY <3>1
      <3> HIDE DEF n, h
      <3>3. f[n] = Back[f[n - 1]]
        <4>1. f[n] = step[n][f[n - 1]]
          <5> HIDE DEF step, first, V
          <5>1. QED BY <1>2, <3>1 DEF Iterated
        <4> HIDE DEF Back
        <4>2. QED BY <4>1, <3>1
      <3>4. f[n - 1] \in V
        BY <1>3, <3>1
      <3>5. f[n][stack][node] = Found(f[n - 1], stack, node)
        <4> HIDE DEF Found
        <4>1. QED BY <3>3, <3>4
      <3>6. \A child \in Values(node) : f[n - 1][Append(stack, node)][child] = TRUE
              <=> h[Append(stack, node)][child]
        BY <3>2
      <3>7. h[stack][node] = Found(f[n - 1], stack, node)
        BY <3>2, <3>5
      <3>8. Found(f[n - 1], stack, node) = (\/ node \in ToSet(stack)
                                    \/ \E child \in Values(node) : h[Append(stack, node)][child])
        BY <3>6
      <3> HIDE DEF Found
      <3>9. QED BY <3>7, <3>8, <2>2
    <2>3. QED BY <2>1, <2>2
  <1>5. \A stack \in Stacks : h[stack] \in [Node -> BOOLEAN]
    <2>1. SUFFICES ASSUME NEW stack \in Stacks PROVE h[stack] \in [Node -> BOOLEAN]
      OBVIOUS
    <2>2. MaxJsonDepth + 1 - Len(stack) \in 0 .. MaxJsonDepth + 1
      BY StackFacts, AuditValuesAssumption
    <2>3. QED BY <2>2, <1>3
  <1>6. Is(h)
    <2>1. h = [stack \in Stacks |-> h[stack]]
      OBVIOUS
    <2>2. \A stack \in Stacks : h[stack] = [node \in Node |-> h[stack][node]]
      <3> HIDE DEF h
      <3>1. QED BY <1>5
    <2> HIDE DEF h
    <2>3. \A stack \in Stacks : h[stack] = [node \in Node |->
                                /\ ~PastLimit(Len(stack))
                                 /\ \/ node \in ToSet(stack)
                                    \/ \E child \in Values(node) : h[Append(stack, node)][child]]
      BY <2>2, <1>4
    <2>4. QED BY <2>1, <2>3
  <1>7. hasCircularReference = CHOOSE one : Is(one)
    BY DEF hasCircularReference
  <1>8. Is(hasCircularReference)
    <2> HIDE DEF Is, h
    <2>1. QED BY <1>6, <1>7
  <1>9. QED BY <1>8

\* What is below a node stays below it, as do its children.
LEMMA BelowFacts ==
    ASSUME children \in [Node -> SUBSET Node]
    PROVE  /\ Below[0] = children
           /\ \A n \in 0 .. MaxJsonDepth, node \in Node : Below[n][node] \subseteq Below[MaxJsonDepth][node]
           /\ \A n \in 0 .. MaxJsonDepth - 1, node \in Node :
                \A below \in Below[n][node] : children[below] \subseteq Below[n + 1][node]
  <1>1. Below[0] = children
    <2>1. 0 \in 0 .. MaxJsonDepth
      BY AuditValuesAssumption
    <2>2. QED BY <2>1, BelowIsDefined
  <1>2. ASSUME NEW n \in 0 .. MaxJsonDepth - 1, NEW node \in Node
        PROVE  Below[n + 1][node] = Below[n][node] \cup UNION {children[below] : below \in Below[n][node]}
    <2>1. n + 1 \in 0 .. MaxJsonDepth /\ n + 1 # 0 /\ (n + 1) - 1 = n
      BY AuditValuesAssumption
    <2>2. Below[n + 1] = [other \in Node |->
                            Below[n][other] \cup UNION {children[below] : below \in Below[n][other]}]
      BY <2>1, BelowIsDefined
    <2>3. QED BY <2>2
  <1>3. ASSUME NEW first \in 0 .. MaxJsonDepth, NEW node \in Node
        PROVE  Below[first][node] \subseteq Below[MaxJsonDepth][node]
    <2> DEFINE Wider == {n \in 0 .. MaxJsonDepth : n >= first => Below[first][node] \subseteq Below[n][node]}
    <2>1. 0 \in Wider
      BY AuditValuesAssumption
    <2>2. ASSUME NEW n \in 0 .. MaxJsonDepth - 1, n \in Wider
          PROVE  n + 1 \in Wider
      <3>1. n + 1 \in 0 .. MaxJsonDepth
        BY AuditValuesAssumption
      <3>2. CASE n >= first
        BY <3>1, <3>2, <2>2, <1>2
      <3>3. CASE ~(n >= first)
        <4>1. n + 1 >= first => n + 1 = first
          BY <3>1, <3>3
        <4>2. QED BY <4>1, <3>1
      <3>4. QED BY <3>2, <3>3
    <2>3. MaxJsonDepth \in Wider
      <3> HIDE DEF Wider
      <3>1. \A n \in 0 .. MaxJsonDepth : n \in Wider
        BY <2>1, <2>2, UpTo, AuditValuesAssumption
      <3>2. QED BY <3>1, AuditValuesAssumption
    <2>4. QED BY <2>3, AuditValuesAssumption
  <1>4. QED BY <1>1, <1>2, <1>3

\* The stack holds a walk from the root, and the node is its next step.
OnTheWay(stack, node) ==
    /\ (Append(stack, node))[1] = Root
    /\ \A i \in 1 .. Len(stack) :
         (Append(stack, node))[i + 1] \in children[(Append(stack, node))[i]]

\* Some object contains itself, however deep.
Cyclic == \E node \in Node : node \in Below[MaxJsonDepth][node]

\* A node met again closes a cycle: following the walk leads from the node to
\* itself, and going round leads to as many levels as one likes.
LEMMA CycleOnTheWay ==
    ASSUME children \in [Node -> SUBSET Node],
           NEW stack \in Stacks, NEW node \in Node,
           Len(stack) <= MaxJsonDepth, OnTheWay(stack, node), node \in ToSet(stack)
    PROVE  Cyclic /\ ~Bounded
  <1> DEFINE path == Append(stack, node)
  <1> DEFINE size == Len(stack)
  <1>1. /\ size \in 0 .. MaxJsonDepth /\ size \in Nat /\ path[size + 1] = node
        /\ \A i \in 1 .. size + 1 : path[i] \in Node
        /\ \A i \in 1 .. size : path[i + 1] \in children[path[i]]
        /\ path[1] = Root
    <2>1. /\ size \in 0 .. MaxJsonDepth + 1 /\ path[size + 1] = node
          /\ \A i \in 1 .. size : path[i] = stack[i] /\ stack[i] \in Node
      BY StackFacts
    <2>2. \A i \in 1 .. size + 1 : i \in 1 .. size \/ i = size + 1
      BY <2>1
    <2> HIDE DEF path, size
    <2>3. QED BY <2>1, <2>2, AuditValuesAssumption DEF OnTheWay, path, size
  <1>2. PICK start \in 1 .. size : path[start] = node
    BY StackFacts
  <1> HIDE DEF path, size
  <1>3. Cyclic
    <2> DEFINE Ahead == {n \in 0 .. MaxJsonDepth :
                           start + n <= size => path[start + n + 1] \in Below[n][node]}
    <2>1. 0 \in Ahead
      BY <1>1, <1>2, BelowFacts, AuditValuesAssumption
    <2>2. ASSUME NEW n \in 0 .. MaxJsonDepth - 1, n \in Ahead
          PROVE  n + 1 \in Ahead
      <3>1. n + 1 \in 0 .. MaxJsonDepth
        BY AuditValuesAssumption
      <3>2. SUFFICES ASSUME start + (n + 1) <= size
                     PROVE  path[start + (n + 1) + 1] \in Below[n + 1][node]
        BY <3>1
      <3>3. path[start + n + 1] \in Below[n][node]
        BY <3>2, <2>2, <1>1
      <3>4. start + n + 1 \in 1 .. size /\ (start + n + 1) + 1 = start + (n + 1) + 1
        BY <3>2, <1>1
      <3>5. path[start + (n + 1) + 1] \in children[path[start + n + 1]]
        BY <3>4, <1>1
      <3>6. QED BY <3>3, <3>5, BelowFacts
    <2>3. \A n \in 0 .. MaxJsonDepth : n \in Ahead
      <3> HIDE DEF Ahead
      <3>1. QED BY <2>1, <2>2, UpTo, AuditValuesAssumption
    <2>4. /\ size - start \in 0 .. MaxJsonDepth /\ start + (size - start) <= size
          /\ start + (size - start) + 1 = size + 1
      BY <1>1, AuditValuesAssumption
    <2>5. node \in Below[size - start][node]
      BY <2>3, <2>4, <1>1
    <2>6. QED BY <2>4, <2>5, BelowFacts DEF Cyclic
  <1> DEFINE Cycle == {path[i] : i \in start .. size}
  <1>4. \A member \in Cycle : member \in Node /\ \E next \in Cycle : next \in children[member]
    <2>1. SUFFICES ASSUME NEW i \in start .. size
                   PROVE  path[i] \in Node /\ \E next \in Cycle : next \in children[path[i]]
      OBVIOUS
    <2>2. i \in 1 .. size /\ path[i + 1] \in children[path[i]] /\ path[i] \in Node
      BY <1>1
    <2>3. CASE i = size
      <3>1. path[i + 1] = path[start] /\ start \in start .. size
        BY <2>3, <1>1, <1>2
      <3>2. QED BY <3>1, <2>2
    <2>4. CASE i # size
      <3>1. i + 1 \in start .. size
        BY <2>4, <1>1
      <3>2. QED BY <3>1, <2>2
    <2>5. QED BY <2>3, <2>4
  <1>5. ~Bounded
    <2> DEFINE Alive == {n \in 0 .. MaxJsonDepth + 1 :
                           IF n < start THEN path[n + 1] \in Level[n] ELSE \E member \in Cycle : member \in Level[n]}
    <2>1. 0 \in Alive
      BY <1>1, LevelFacts, AuditValuesAssumption
    <2>2. ASSUME NEW n \in 0 .. (MaxJsonDepth + 1) - 1, n \in Alive
          PROVE  n + 1 \in Alive
      <3>1. /\ n \in 0 .. MaxJsonDepth /\ n + 1 \in 0 .. MaxJsonDepth + 1
            /\ Level[n + 1] = UNION {children[member] : member \in Level[n]}
        <4>1. n \in 0 .. MaxJsonDepth /\ n + 1 \in 0 .. MaxJsonDepth + 1
          BY AuditValuesAssumption
        <4>2. QED BY <4>1, LevelFacts
      <3>2. CASE n < start
        <4>1. n + 1 \in 1 .. size /\ path[n + 1] \in Level[n]
          BY <3>2, <2>2, <1>1
        <4>2. path[(n + 1) + 1] \in Level[n + 1]
          BY <4>1, <3>1, <1>1
        <4>3. CASE n + 1 < start
          BY <4>2, <4>3, <3>1
        <4>4. CASE ~(n + 1 < start)
          <5>1. n + 1 = start
            BY <4>4, <3>2, <3>1
          <5>2. PICK next \in Cycle : next \in children[path[n + 1]]
            <6>1. path[n + 1] \in Cycle
              BY <5>1, <1>1
            <6> HIDE DEF Cycle
            <6>2. QED BY <6>1, <1>4
          <5>3. next \in Level[n + 1]
            BY <5>2, <4>1, <3>1
          <5> HIDE DEF Cycle
          <5>4. QED BY <5>2, <5>3, <4>4, <3>1
        <4>5. QED BY <4>3, <4>4
      <3>3. CASE ~(n < start)
        <4> HIDE DEF Cycle
        <4>1. PICK member \in Cycle : member \in Level[n]
          BY <3>3, <2>2
        <4>2. PICK next \in Cycle : next \in children[member]
          BY <1>4
        <4>3. next \in Level[n + 1]
          BY <4>1, <4>2, <3>1
        <4>4. ~(n + 1 < start)
          BY <3>3, <3>1
        <4>5. QED BY <4>2, <4>3, <4>4, <3>1
      <3>4. QED BY <3>2, <3>3
    <2>3. MaxJsonDepth + 1 \in Alive
      <3> HIDE DEF Alive
      <3>1. MaxJsonDepth + 1 \in Nat
        BY AuditValuesAssumption
      <3>2. \A n \in 0 .. MaxJsonDepth + 1 : n \in Alive
        BY <3>1, <2>1, <2>2, UpTo
      <3>3. QED BY <3>1, <3>2
    <2>4. ~(MaxJsonDepth + 1 < start)
      BY <1>1, AuditValuesAssumption
    <2> HIDE DEF Cycle
    <2>5. QED BY <2>3, <2>4 DEF Bounded
  <1>6. QED BY <1>3, <1>5

\* A search that finds something has found a node on its own stack; the
\* induction is over the depth that is left to the search.
LEMMA CircularHasCycle ==
    ASSUME children \in [Node -> SUBSET Node], hasCircularReference[<<>>][Root]
    PROVE  Cyclic /\ ~Bounded
  <1> DEFINE Sound == {toGo \in 0 .. MaxJsonDepth + 1 :
                \A stack \in Stacks, node \in Node :
                   /\ Len(stack) = MaxJsonDepth + 1 - toGo
                   /\ OnTheWay(stack, node)
                   /\ hasCircularReference[stack][node]
                   => Cyclic /\ ~Bounded}
  <1>1. \A stack \in Stacks, node \in Node : hasCircularReference[stack][node] =>
            /\ Len(stack) <= MaxJsonDepth
            /\ \/ node \in ToSet(stack)
               \/ \E child \in children[node] : hasCircularReference[Append(stack, node)][child]
    <2>1. SUFFICES ASSUME NEW stack \in Stacks, NEW node \in Node, hasCircularReference[stack][node]
                   PROVE  /\ Len(stack) <= MaxJsonDepth
                          /\ \/ node \in ToSet(stack)
                             \/ \E child \in children[node] : hasCircularReference[Append(stack, node)][child]
      OBVIOUS
    <2>2. hasCircularReference[stack][node] = (
            /\ ~PastLimit(Len(stack))
            /\ \/ node \in ToSet(stack)
               \/ \E child \in Values(node) : hasCircularReference[Append(stack, node)][child])
      <3>1. hasCircularReference[stack] = [other \in Node |->
            /\ ~PastLimit(Len(stack))
            /\ \/ other \in ToSet(stack)
               \/ \E child \in Values(other) : hasCircularReference[Append(stack, other)][child]]
        BY CircularIsDefined
      <3>2. QED BY <3>1
    <2>3. Len(stack) \in Nat
      BY StackFacts, AuditValuesAssumption
    <2>4. ~PastLimit(Len(stack)) => Len(stack) <= MaxJsonDepth
      BY <2>3, AuditValuesAssumption DEF PastLimit
    <2>5. QED BY <2>1, <2>2, <2>4 DEF Values
  <1>2. 0 \in Sound
    <2>1. \A stack \in Stacks, node \in Node :
            ~(Len(stack) = MaxJsonDepth + 1 - 0 /\ hasCircularReference[stack][node])
      BY <1>1, AuditValuesAssumption
    <2>2. QED BY <2>1, AuditValuesAssumption
  <1>3. ASSUME NEW toGo \in 0 .. (MaxJsonDepth + 1) - 1, toGo \in Sound
        PROVE  toGo + 1 \in Sound
    <2>1. toGo + 1 \in 0 .. MaxJsonDepth + 1
      BY AuditValuesAssumption
    <2>2. SUFFICES ASSUME NEW stack \in Stacks, NEW node \in Node,
                          Len(stack) = MaxJsonDepth + 1 - (toGo + 1),
                          OnTheWay(stack, node),
                          hasCircularReference[stack][node]
                   PROVE  Cyclic /\ ~Bounded
      BY <2>1
    <2>3. Len(stack) <= MaxJsonDepth
      BY <2>2, <1>1
    <2>4. CASE node \in ToSet(stack)
      BY <2>2, <2>3, <2>4, CycleOnTheWay
    <2>5. CASE node \notin ToSet(stack)
      <3> DEFINE longer == Append(stack, node)
      <3>1. PICK child \in children[node] : hasCircularReference[longer][child]
        BY <2>2, <2>5, <1>1
      <3>2. longer \in Stacks /\ child \in Node /\ Len(longer) = MaxJsonDepth + 1 - toGo
        <4>1. longer \in Stacks /\ child \in Node /\ Len(longer) = Len(stack) + 1
          BY <2>3, StackFacts
        <4>2. Len(stack) + 1 = MaxJsonDepth + 1 - toGo
          BY <2>2, AuditValuesAssumption
        <4> HIDE DEF longer
        <4>3. QED BY <4>1, <4>2
      <3>3. OnTheWay(longer, child)
        <4>1. /\ Len(longer) = Len(stack) + 1 /\ Len(stack) \in Nat
              /\ longer[Len(stack) + 1] = node
              /\ longer[1] = Root
              /\ \A i \in 1 .. Len(stack) : longer[i + 1] \in children[longer[i]]
          <5>1. Len(longer) = Len(stack) + 1 /\ longer[Len(stack) + 1] = node
            BY StackFacts
          <5>2. Len(stack) \in Nat
            BY StackFacts, AuditValuesAssumption
          <5>3. QED BY <2>2, <5>1, <5>2 DEF OnTheWay
        <4> HIDE DEF longer
        <4>2. /\ \A i \in 1 .. Len(longer) : Append(longer, child)[i] = longer[i]
              /\ Append(longer, child)[Len(longer) + 1] = child
          BY <3>2, StackFacts
        <4>3. Append(longer, child)[1] = Root
          BY <4>1, <4>2
        <4>4. ASSUME NEW i \in 1 .. Len(longer)
              PROVE  Append(longer, child)[i + 1] \in children[Append(longer, child)[i]]
          <5>1. CASE i = Len(longer)
            BY <5>1, <4>1, <4>2
          <5>2. CASE i # Len(longer)
            <6>1. i \in 1 .. Len(stack) /\ i + 1 \in 1 .. Len(longer)
              BY <5>2, <4>1
            <6>2. QED BY <6>1, <4>1, <4>2
          <5>3. QED BY <5>1, <5>2
        <4>5. QED BY <4>3, <4>4 DEF OnTheWay
      <3> HIDE DEF longer
      <3>4. QED BY <1>3, <3>1, <3>2, <3>3
    <2>6. QED BY <2>4, <2>5
  <1>4. MaxJsonDepth + 1 \in Sound
    <2> HIDE DEF Sound
    <2>1. MaxJsonDepth + 1 \in Nat
      BY AuditValuesAssumption
    <2>2. \A toGo \in 0 .. MaxJsonDepth + 1 : toGo \in Sound
      BY <2>1, <1>2, <1>3, UpTo
    <2>3. QED BY <2>1, <2>2
  <1>5. Len(<<>>) = MaxJsonDepth + 1 - (MaxJsonDepth + 1) /\ <<>> \in Stacks /\ Root \in Node
    BY StackFacts, AuditValuesAssumption
  <1>6. OnTheWay(<<>>, Root)
    <2>1. Append(<<>>, Root) = <<Root>>
      OBVIOUS
    <2>2. QED BY <2>1 DEF OnTheWay
  <1>7. QED BY <1>4, <1>5, <1>6

\* Levels and cycles change with the graph only.
LEMMA GraphDecides ==
    ASSUME children' = children
    PROVE  (Bounded' <=> Bounded) /\ Below' = Below
  <1>1. Level' = Level
    BY DEF Level
  <1>2. Below' = Below
    BY DEF Below
  <1>3. QED BY <1>1, <1>2 DEF Bounded

ValuesInv ==
    /\ children \in [Node -> SUBSET Node]
    /\ large \in BOOLEAN
    /\ AcceptsBoundedTrees

\* The schema decides once, and each verdict is what the searches have found.
LEMMA ValuesInvKept == ValuesInv /\ [ValuesNext]_valuesVars => ValuesInv'
  <1> SUFFICES ASSUME ValuesInv, [ValuesNext]_valuesVars PROVE ValuesInv'
    OBVIOUS
  <1>1. children' = children /\ large' = large
    BY DEF ValuesNext, valuesVars, RejectCircular, RejectDeep, RejectLarge, AcceptValues
  <1>2. (Bounded' <=> Bounded) /\ Below' = Below
    BY <1>1, GraphDecides
  <1>3. CASE RejectCircular
    <2>1. verdict' = "circular" /\ Cyclic /\ ~Bounded
      BY <1>3, CircularHasCycle DEF ValuesInv, RejectCircular
    <2>2. QED BY <1>1, <1>2, <2>1 DEF ValuesInv, AcceptsBoundedTrees, Cyclic
  <1>4. CASE RejectDeep
    <2>1. verdict' = "deep" /\ ~Bounded
      BY <1>4, DeepIsUnbounded DEF ValuesInv, RejectDeep
    <2>2. QED BY <1>1, <1>2, <2>1 DEF ValuesInv, AcceptsBoundedTrees
  <1>5. CASE RejectLarge
    BY <1>1, <1>5 DEF ValuesInv, AcceptsBoundedTrees, RejectLarge
  <1>6. CASE AcceptValues
    <2>1. verdict' = "accepted" /\ ~large /\ getMaxDepth[0][Root] <= MaxJsonDepth
      BY <1>6 DEF AcceptValues
    <2>2. getMaxDepth[0][Root] \in 0 .. MaxJsonDepth + 1
      BY DepthFacts, AuditValuesAssumption DEF ValuesInv
    <2>3. Bounded
      BY <2>1, <2>2, DeepIsUnbounded, AuditValuesAssumption DEF ValuesInv
    <2>4. QED BY <1>1, <1>2, <2>1, <2>3 DEF ValuesInv, AcceptsBoundedTrees
  <1>7. CASE UNCHANGED valuesVars
    BY <1>1, <1>2, <1>7 DEF ValuesInv, AcceptsBoundedTrees, valuesVars
  <1>8. QED BY <1>3, <1>4, <1>5, <1>6, <1>7 DEF ValuesNext

\* Whatever is logged and whatever the limit (createAuditLogValuesSchema): what
\* is accepted is small and has no walk longer than the limit, although each
\* search stops there and relies on the other; and what is refused as circular
\* or as deep is so.
THEOREM LogAdmitsBoundedTrees == ValuesSpec => []AcceptsBoundedTrees
  <1>1. ValuesInit => ValuesInv
    BY DEF ValuesInit, ValuesInv, AcceptsBoundedTrees
  <1>2. ValuesInv => AcceptsBoundedTrees
    BY DEF ValuesInv
  <1>3. QED BY <1>1, <1>2, ValuesInvKept, PTL DEF ValuesSpec

=============================================================================
