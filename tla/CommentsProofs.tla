--------------------------- MODULE CommentsProofs --------------------------
(***************************************************************************)
(* Proofs about Comments, for any sets of people, tickets, comments and    *)
(* requests: who can have written what.                                    *)
(***************************************************************************)
EXTENDS Comments, TLAPS

-----------------------------------------------------------------------------
(***************************************************************************)
(* Kinds of steps.  A step leaves rows and history alone, or it changes    *)
(* one row and writes one entry about it.                                  *)
(***************************************************************************)
Undisturbed == UNCHANGED <<comments, history>>

\* Somebody who is a member and the author, or an admin.
Entitled(actor, c) ==
    /\ IsMember(actor)
    /\ \/ ~comments[c].exists
       \/ comments[c].author = actor
       \/ HasRole(roles[actor], "admin")

\* The entry takes up where the row before was left and leads to the new one.
Follows(entry, before, row) ==
    /\ AgreesWithRow(entry, row)
    /\ before.exists => ~before.deleted /\ entry.action # "create"
                          /\ entry.old = before.content
    /\ ~before.exists => entry.action = "create"

\* The author of a row never changes, and new words are the author's.
Written(r) ==
    \E c \in Comment, row \in Row, entry \in HistoryEntry :
        /\ comments' = [comments EXCEPT ![c] = row]
        /\ history' = Append(history, entry)
        /\ entry.comment = c
        /\ entry.action # "delete" => entry.actor = row.author
        /\ comments[c].exists => comments[c].author = row.author
        /\ Follows(entry, comments[c], row)
        /\ requests[r].stage = "scoped"
        /\ Entitled(requests[r].actor, c)
        /\ UNCHANGED <<roles, tickets>>

LEMMA RequestForm ==
    ASSUME TypeOK, NEW r \in Request, requests[r].stage = "scoped"
    PROVE  requests[r].actor \in User /\ requests[r].op \in Op
  BY DEF TypeOK, RequestState, Idle

LEMMA VisibleIsRow ==
    ASSUME TypeOK, NEW c \in Comment, comments[c].exists
    PROVE  comments[c] \in Row
  BY DEF TypeOK, NoComment

LEMMA AnswerTypes ==
    ASSUME TypeOK, NEW r \in Request, NEW outcome \in Outcome, Answer(r, outcome)
    PROVE  /\ requests' \in [Request -> RequestState]
           /\ \A s \in Request : s # r => requests'[s] = requests[s]
  <1>1. [stage |-> "answered", outcome |-> outcome] \in RequestState
    BY DEF RequestState
  <1> QED
    BY <1>1 DEF TypeOK, Answer

LEMMA CreateIsWritten ==
    ASSUME TypeOK, NEW r \in Request, createComment(r)
    PROVE  /\ Written(r) \/ Undisturbed
           /\ \E outcome \in Outcome : Answer(r, outcome)
  <1> DEFINE actor == requests[r].actor
  <1>1. PICK t \in Ticket, c \in Comment, content \in Content :
           /\ ~comments[c].exists
           /\ Answer(r, CreateOutcome(actor, t))
           /\ \/ /\ CreateOutcome(actor, t) = "ok"
                 /\ comments' = [comments EXCEPT ![c] = CommentRow(t, actor, content)]
                 /\ history' = Append(history,
                                      Entry(c, "create", actor, "nothing", content))
              \/ /\ CreateOutcome(actor, t) # "ok"
                 /\ UNCHANGED <<comments, history>>
    BY DEF createComment
  <1>2. actor \in User /\ requests[r].stage = "scoped" /\ UNCHANGED <<roles, tickets>>
    BY RequestForm DEF createComment, IsPending
  <1>3. CreateOutcome(actor, t) \in Outcome
    BY DEF CreateOutcome, Outcome
  <1>4. ASSUME CreateOutcome(actor, t) = "ok"
        PROVE  Written(r)
    <2> DEFINE row == CommentRow(t, actor, content)
               entry == Entry(c, "create", actor, "nothing", content)
    <2>1. row \in Row /\ row.author = actor
      BY <1>2 DEF CommentRow, Row
    <2>2. entry \in HistoryEntry /\ entry.comment = c /\ entry.actor = actor
      BY <1>2 DEF Entry, HistoryEntry, Op
    <2>3. Entitled(actor, c)
      BY <1>1, <1>4 DEF Entitled, CreateOutcome
    <2>4. comments' = [comments EXCEPT ![c] = row] /\ history' = Append(history, entry)
      BY <1>1, <1>4
    <2>5. Follows(entry, comments[c], row)
      BY <1>1 DEF Follows, AgreesWithRow, Entry, CommentRow
    <2> HIDE DEF row, entry
    <2> QED
      BY <1>1, <1>2, <2>1, <2>2, <2>3, <2>4, <2>5 DEF Written
  <1> QED
    BY <1>1, <1>3, <1>4 DEF Undisturbed

LEMMA UpdateIsWritten ==
    ASSUME TypeOK, NEW r \in Request, updateComment(r)
    PROVE  /\ Written(r) \/ Undisturbed
           /\ \E outcome \in Outcome : Answer(r, outcome)
  <1> DEFINE actor == requests[r].actor
  <1>1. PICK t \in Ticket, c \in Comment, content \in Content :
           /\ Answer(r, UpdateOutcome(actor, t, c, content))
           /\ \/ /\ UpdateOutcome(actor, t, c, content) = "ok"
                 /\ comments' = [comments EXCEPT ![c].content = content]
                 /\ history' = Append(history,
                                      Entry(c, "update", actor, OldContent(c), content))
              \/ /\ UpdateOutcome(actor, t, c, content) # "ok"
                 /\ UNCHANGED <<comments, history>>
    BY DEF updateComment
  <1>2. actor \in User /\ requests[r].stage = "scoped" /\ UNCHANGED <<roles, tickets>>
    BY RequestForm DEF updateComment, IsPending
  <1>3. UpdateOutcome(actor, t, c, content) \in Outcome
    BY DEF UpdateOutcome, Outcome
  <1>4. ASSUME UpdateOutcome(actor, t, c, content) = "ok"
        PROVE  Written(r)
    <2>1. IsMember(actor) /\ Visible(c) /\ comments[c].exists /\ comments[c].author = actor
      BY <1>4 DEF UpdateOutcome, Visible, CanEditComment
    <2> DEFINE row == [comments[c] EXCEPT !.content = content]
               entry == Entry(c, "update", actor, OldContent(c), content)
    <2>2. comments[c] \in Row
      BY <2>1, VisibleIsRow
    <2>3. row \in Row /\ row.author = actor
      BY <2>1, <2>2 DEF Row
    <2>4. entry \in HistoryEntry /\ entry.comment = c /\ entry.actor = actor
      BY <1>2, <2>2 DEF Entry, HistoryEntry, Op, OldContent, Row
    <2>5. comments' = [comments EXCEPT ![c] = row] /\ history' = Append(history, entry)
      BY <1>1, <1>4
    <2>6. Follows(entry, comments[c], row)
      BY <2>1, <2>2 DEF Follows, AgreesWithRow, Entry, OldContent, Row, Visible
    <2> HIDE DEF row, entry
    <2> QED
      BY <1>1, <1>2, <2>1, <2>3, <2>4, <2>5, <2>6 DEF Written, Entitled
  <1> QED
    BY <1>1, <1>3, <1>4 DEF Undisturbed

\* The level the check asks for is the one of the role.
LEMMA AdminLevel ==
    ASSUME NEW role \in Role, getRoleLevel[role] >= getRoleLevel["admin"]
    PROVE  HasRole(role, "admin")
  BY DEF HasRole, getRoleLevel, Role

LEMMA DeleteIsWritten ==
    ASSUME TypeOK, NEW r \in Request, deleteComment(r)
    PROVE  /\ Written(r) \/ Undisturbed
           /\ \E outcome \in Outcome : Answer(r, outcome)
  <1> DEFINE actor == requests[r].actor
  <1>1. PICK t \in Ticket, c \in Comment :
           /\ Answer(r, DeleteOutcome(r, t, c))
           /\ \/ /\ DeleteOutcome(r, t, c) = "ok"
                 /\ comments' = [comments EXCEPT ![c] = SoftDeleted(comments[c])]
                 /\ history' = Append(history,
                       Entry(c, "delete", actor, comments[c].content, "nothing"))
              \/ /\ DeleteOutcome(r, t, c) # "ok"
                 /\ UNCHANGED <<comments, history>>
    BY DEF deleteComment
  <1>2. actor \in User /\ requests[r].stage = "scoped" /\ UNCHANGED <<roles, tickets>>
    BY RequestForm DEF deleteComment, IsPending
  <1>3. DeleteOutcome(r, t, c) \in Outcome
    BY DEF DeleteOutcome, Outcome
  <1>4. ASSUME DeleteOutcome(r, t, c) = "ok"
        PROVE  Written(r)
    <2>1. /\ roles[actor] # "none" /\ Visible(c) /\ comments[c].exists
          /\ canDeleteComment(comments[c].author, actor, roles[actor])
      BY <1>4 DEF DeleteOutcome, DeletingRole, Visible
    <2>2. roles[actor] \in Role
      BY <1>2, <2>1, MemberRoleAssumption DEF TypeOK
    <2>3. Entitled(actor, c)
      BY <2>1, <2>2, AdminLevel DEF Entitled, IsMember, canDeleteComment
    <2> DEFINE row == SoftDeleted(comments[c])
               entry == Entry(c, "delete", actor, comments[c].content, "nothing")
    <2>4. comments[c] \in Row
      BY <2>1, VisibleIsRow
    <2>5. row \in Row /\ row.author = comments[c].author
      BY <2>4 DEF Row, SoftDeleted
    <2>6. entry \in HistoryEntry /\ entry.comment = c /\ entry.action = "delete"
      BY <1>2, <2>4 DEF Entry, HistoryEntry, Op, Row
    <2>7. comments' = [comments EXCEPT ![c] = row] /\ history' = Append(history, entry)
      BY <1>1, <1>4
    <2>8. Follows(entry, comments[c], row)
      BY <2>1, <2>4 DEF Follows, AgreesWithRow, Entry, SoftDeleted, Row, Visible
    <2> HIDE DEF row, entry
    <2> QED
      BY <1>2, <2>3, <2>5, <2>6, <2>7, <2>8 DEF Written
  <1> QED
    BY <1>1, <1>3, <1>4 DEF Undisturbed

-----------------------------------------------------------------------------
(***************************************************************************)
(* Types, and the authors of the history.                                  *)
(***************************************************************************)
CommentsInv == TypeOK /\ OnlyAuthorsSpeak

Tables ==
    /\ comments \in [Comment -> {NoComment} \cup Row]
    /\ history \in Seq(HistoryEntry)
    /\ \A i \in DOMAIN history : comments[history[i].comment].exists
    /\ OnlyAuthorsSpeak

LEMMA UndisturbedTables ==
    ASSUME CommentsInv, Undisturbed
    PROVE  Tables'
  <1>1. comments' = comments /\ history' = history
    BY DEF Undisturbed
  <1>2. Tables
    BY DEF CommentsInv, TypeOK, Tables
  <1> QED
    BY <1>1, <1>2 DEF Tables, OnlyAuthorsSpeak

LEMMA WrittenTables ==
    ASSUME CommentsInv, NEW r, Written(r)
    PROVE  Tables'
  <1>1. PICK c \in Comment, row \in Row, entry \in HistoryEntry :
           /\ comments' = [comments EXCEPT ![c] = row]
           /\ history' = Append(history, entry)
           /\ entry.comment = c
           /\ entry.action # "delete" => entry.actor = row.author
           /\ comments[c].exists => comments[c].author = row.author
    BY DEF Written
  <1>2. comments' \in [Comment -> {NoComment} \cup Row]
    BY <1>1 DEF CommentsInv, TypeOK
  <1>3. comments'[c] = row /\ \A d \in Comment : d # c => comments'[d] = comments[d]
    BY <1>1 DEF CommentsInv, TypeOK
  <1>4. row.exists
    BY DEF Row
  <1>5. history \in Seq(HistoryEntry)
    BY DEF CommentsInv, TypeOK
  <1>6. history' \in Seq(HistoryEntry)
    BY <1>1, <1>5
  <1>7. \A i \in DOMAIN history' :
           (i \in DOMAIN history /\ history'[i] = history[i]) \/ history'[i] = entry
    BY <1>1, <1>5
  <1>8. \A i \in DOMAIN history :
           /\ history[i].comment \in Comment
           /\ comments[history[i].comment].exists
           /\ history[i].action # "delete"
                => history[i].actor = comments[history[i].comment].author
    <2>1. \A i \in DOMAIN history : history[i] \in HistoryEntry
      BY <1>5
    <2> QED
      BY <2>1 DEF CommentsInv, TypeOK, OnlyAuthorsSpeak, HistoryEntry
  <1>9. ASSUME NEW i \in DOMAIN history'
        PROVE  /\ comments'[history'[i].comment].exists
               /\ history'[i].action # "delete"
                    => history'[i].actor = comments'[history'[i].comment].author
    <2>1. CASE history'[i] = entry
      BY <1>1, <1>3, <1>4, <2>1
    <2>2. CASE i \in DOMAIN history /\ history'[i] = history[i]
      <3>1. CASE history[i].comment = c
        BY <1>1, <1>3, <1>4, <1>8, <2>2, <3>1
      <3>2. CASE history[i].comment # c
        BY <1>3, <1>8, <2>2, <3>2
      <3> QED
        BY <3>1, <3>2
    <2> QED
      BY <1>7, <2>1, <2>2
  <1> QED
    BY <1>2, <1>6, <1>9 DEF Tables, OnlyAuthorsSpeak

\* A step answers a request or lets one in, or is of the environment.
LEMMA StepKinds ==
    ASSUME TypeOK, [Next]_vars
    PROVE  /\ roles' \in [User -> MemberRole \cup {"none"}]
           /\ tickets' \subseteq Ticket
           /\ requests' \in [Request -> RequestState]
           /\ \/ Undisturbed
              \/ \E r \in Request : /\ Written(r)
                                    /\ \A s \in Request : s # r => requests'[s] = requests[s]
  <1>1. ASSUME NEW r \in Request, createComment(r) \/ updateComment(r) \/ deleteComment(r)
        PROVE  /\ requests' \in [Request -> RequestState]
               /\ UNCHANGED <<roles, tickets>>
               /\ Undisturbed \/ /\ Written(r)
                                 /\ \A s \in Request : s # r => requests'[s] = requests[s]
    <2>1. /\ Written(r) \/ Undisturbed
          /\ \E outcome \in Outcome : Answer(r, outcome)
      BY <1>1, CreateIsWritten, UpdateIsWritten, DeleteIsWritten
    <2> QED
      BY <1>1, <2>1, AnswerTypes DEF createComment, updateComment, deleteComment
  <1>2. ASSUME NEW r \in Request, EnterCommentScope(r)
        PROVE  requests' \in [Request -> RequestState] /\ UNCHANGED <<roles, tickets>> /\ Undisturbed
    <2>1. PICK op \in Op, actor \in User :
             IsMember(actor) /\ requests' = [requests EXCEPT ![r] = Scoped(op, actor)]
      BY <1>2 DEF EnterCommentScope
    <2>2. Scoped(op, actor) \in RequestState
      BY <2>1 DEF Scoped, RequestState, IsMember, TypeOK
    <2> QED
      BY <1>2, <2>1, <2>2 DEF EnterCommentScope, TypeOK, Undisturbed
  <1>3. ASSUME NEW r \in Request, TransactionFails(r)
        PROVE  requests' \in [Request -> RequestState] /\ UNCHANGED <<roles, tickets>> /\ Undisturbed
    BY <1>3, AnswerTypes DEF TransactionFails, Outcome, Undisturbed
  <1>4. ASSUME NEW u \in User, NEW role \in MemberRole \cup {"none"}, ChangeMembership(u, role)
        PROVE  roles' \in [User -> MemberRole \cup {"none"}] /\ UNCHANGED <<tickets, requests>>
                 /\ Undisturbed
    BY <1>4 DEF ChangeMembership, ChangeRole, TypeOK, Undisturbed
  <1>5. ASSUME NEW t \in Ticket, DeleteTicket(t)
        PROVE  tickets' \subseteq Ticket /\ UNCHANGED <<roles, requests>> /\ Undisturbed
    BY <1>5 DEF DeleteTicket, TypeOK, Undisturbed
  <1>6. CASE UNCHANGED vars
    BY <1>6 DEF vars, TypeOK, Undisturbed
  <1>7. TypeOK
    OBVIOUS
  <1> QED
    BY <1>1, <1>2, <1>3, <1>4, <1>5, <1>6, <1>7 DEF Next, TypeOK

LEMMA CommentsInit == Init => CommentsInv
  <1> SUFFICES ASSUME Init PROVE CommentsInv
    OBVIOUS
  <1>1. history \in Seq(HistoryEntry) /\ DOMAIN history = {}
    BY DEF Init
  <1> QED
    BY <1>1 DEF Init, RolesInit, CommentsInv, TypeOK, OnlyAuthorsSpeak, RequestState, Idle

LEMMA CommentsStep == CommentsInv /\ [Next]_vars => CommentsInv'
  <1> SUFFICES ASSUME CommentsInv, [Next]_vars PROVE CommentsInv'
    OBVIOUS
  <1>1. Tables'
    BY StepKinds, UndisturbedTables, WrittenTables DEF CommentsInv
  <1> QED
    BY <1>1, StepKinds DEF CommentsInv, Tables, TypeOK

\* Every row, entry and request has the form of its schema.
THEOREM CommentTypesCorrect == Spec => []TypeOK
  BY CommentsInit, CommentsStep, PTL DEF Spec, CommentsInv

\* Every word of a comment is its author's, whoever administers.
THEOREM AuthorsSpeak == Spec => []OnlyAuthorsSpeak
  BY CommentsInit, CommentsStep, PTL DEF Spec, CommentsInv

LEMMA EntitledStep ==
    ASSUME TypeOK, [Next]_vars
    PROVE  \A r \in Request, c \in Comment :
              comments'[c] # comments[c] /\ requests'[r] # requests[r] =>
                 Entitled(requests[r].actor, c)
  <1> SUFFICES ASSUME NEW r \in Request, NEW c \in Comment,
                      comments'[c] # comments[c], requests'[r] # requests[r]
               PROVE  Entitled(requests[r].actor, c)
    OBVIOUS
  <1>1. PICK s \in Request : Written(s) /\ \A q \in Request : q # s => requests'[q] = requests[q]
    BY StepKinds DEF Undisturbed
  <1>2. s = r
    BY <1>1
  <1> QED
    BY <1>1, <1>2 DEF Written, TypeOK

\* Whatever the middleware read earlier, the actor is entitled at the commit.
THEOREM ActorsAreEntitled == Spec => EntitledAtCommit
  <1>1. TypeOK /\ [Next]_vars =>
           [\A r \in Request, c \in Comment :
               comments'[c] # comments[c] /\ requests'[r] # requests[r] =>
                  /\ IsMember(requests[r].actor)
                  /\ \/ ~comments[c].exists
                     \/ comments[c].author = requests[r].actor
                     \/ HasRole(roles[requests[r].actor], "admin")]_vars
    BY EntitledStep DEF Entitled
  <1> QED
    BY <1>1, CommentTypesCorrect, PTL DEF Spec, EntitledAtCommit

-----------------------------------------------------------------------------
(***************************************************************************)
(* The history of a comment is complete.                                   *)
(***************************************************************************)
Trail(log, c) == {i \in DOMAIN log : log[i].comment = c}

\* CommentHistoryComplete, of one comment and any log.
Complete(log, c, row) ==
    /\ row.exists <=> Trail(log, c) # {}
    /\ \A i \in Trail(log, c) : (\A k \in Trail(log, c) : i <= k) => log[i].action = "create"
    /\ \A i, j \in Trail(log, c) :
          i < j /\ (\A k \in Trail(log, c) : k <= i \/ j <= k) => Chained(log[i], log[j])
    /\ \A i \in Trail(log, c) : (\A k \in Trail(log, c) : k <= i) => AgreesWithRow(log[i], row)

LEMMA AppendTrails ==
    ASSUME NEW log \in Seq(HistoryEntry), NEW entry \in HistoryEntry, NEW c
    PROVE  /\ Trail(Append(log, entry), c) =
                 IF entry.comment = c THEN Trail(log, c) \cup {Len(log) + 1}
                 ELSE Trail(log, c)
           /\ \A i \in Trail(log, c) :
                 Append(log, entry)[i] = log[i] /\ i \in Nat /\ i < Len(log) + 1
           /\ Append(log, entry)[Len(log) + 1] = entry /\ Len(log) + 1 \in Nat
  <1> DEFINE longer == Append(log, entry)
             n == Len(log) + 1
  <1>1. longer \in Seq(HistoryEntry) /\ n \in Nat /\ longer[n] = entry
    OBVIOUS
  <1>2. DOMAIN log = 1 .. Len(log) /\ DOMAIN longer = DOMAIN log \cup {n}
    BY <1>1
  <1>3. \A i \in DOMAIN log : longer[i] = log[i] /\ i \in Nat /\ i < n
    BY <1>2
  <1> HIDE DEF longer, n
  <1>4. Trail(longer, c) = IF entry.comment = c THEN Trail(log, c) \cup {n} ELSE Trail(log, c)
    BY <1>1, <1>2, <1>3 DEF Trail
  <1>5. Trail(log, c) \subseteq DOMAIN log
    BY DEF Trail
  <1> QED
    BY <1>1, <1>3, <1>4, <1>5 DEF longer, n

\* A log stays complete when an entry follows, and one about another comment
\* does not disturb it.
LEMMA CompleteFollows ==
    ASSUME NEW log \in Seq(HistoryEntry), NEW entry \in HistoryEntry,
           NEW before, NEW row \in Row, Complete(log, entry.comment, before),
           Follows(entry, before, row), before.exists \in BOOLEAN
    PROVE  Complete(Append(log, entry), entry.comment, row)
  <1> DEFINE c == entry.comment
             trail == Trail(log, c)
             longer == Append(log, entry)
             n == Len(log) + 1
  <1>1. /\ Trail(longer, c) = trail \cup {n}
        /\ \A i \in trail : longer[i] = log[i] /\ i \in Nat /\ i < n
        /\ longer[n] = entry /\ n \in Nat
    BY AppendTrails
  <1>2. /\ before.exists <=> trail # {}
        /\ \A i \in trail : (\A k \in trail : i <= k) => log[i].action = "create"
        /\ \A i, j \in trail :
              i < j /\ (\A k \in trail : k <= i \/ j <= k) => Chained(log[i], log[j])
        /\ \A i \in trail : (\A k \in trail : k <= i) => AgreesWithRow(log[i], before)
    BY DEF Complete
  <1> HIDE DEF c, trail, longer, n
  <1>3. ASSUME NEW i \in trail \cup {n}, \A k \in trail \cup {n} : i <= k
        PROVE  longer[i].action = "create"
    <2>1. CASE trail = {}
      BY <1>1, <1>2, <1>3, <2>1 DEF Follows
    <2>2. CASE trail # {}
      <3>1. PICK k \in trail : TRUE
        BY <2>2
      <3>2. i \in trail
        BY <1>1, <1>3, <3>1
      <3> QED
        BY <1>1, <1>2, <1>3, <3>2
    <2> QED
      BY <2>1, <2>2
  <1>4. ASSUME NEW i \in trail \cup {n}, NEW j \in trail \cup {n}, i < j,
               \A k \in trail \cup {n} : k <= i \/ j <= k
        PROVE  Chained(longer[i], longer[j])
    <2>1. i \in trail /\ longer[i] = log[i]
      BY <1>1, <1>4
    <2>2. CASE j = n
      <3>1. ASSUME NEW k \in trail PROVE k <= i
        <4>1. k <= i \/ n <= k
          BY <1>4, <2>2
        <4>2. k \in Nat /\ k < n /\ n \in Nat
          BY <1>1
        <4> QED
          BY <4>1, <4>2
      <3>2. AgreesWithRow(log[i], before)
        BY <1>2, <2>1, <3>1
      <3>3. before.exists
        BY <1>2, <2>1
      <3> QED
        BY <1>1, <2>1, <2>2, <3>2, <3>3 DEF Chained, AgreesWithRow, Follows
    <2>3. CASE j \in trail
      BY <1>1, <1>2, <1>4, <2>1, <2>3
    <2> QED
      BY <2>2, <2>3
  <1>5. ASSUME NEW i \in trail \cup {n}, \A k \in trail \cup {n} : k <= i
        PROVE  AgreesWithRow(longer[i], row)
    <2>1. i = n
      BY <1>1, <1>5
    <2> QED
      BY <1>1, <2>1 DEF Follows
  <1>6. row.exists
    BY DEF Row
  <1>7. Complete(longer, c, row)
    BY <1>1, <1>3, <1>4, <1>5, <1>6 DEF Complete
  <1> QED
    BY <1>7 DEF longer, c

LEMMA CompleteSkips ==
    ASSUME NEW log \in Seq(HistoryEntry), NEW entry \in HistoryEntry, NEW c, NEW row,
           entry.comment # c, Complete(log, c, row)
    PROVE  Complete(Append(log, entry), c, row)
  <1> DEFINE longer == Append(log, entry)
             trail == Trail(log, c)
  <1>1. Trail(longer, c) = trail /\ \A i \in trail : longer[i] = log[i]
    <2>1. /\ Trail(longer, c) = IF entry.comment = c THEN trail \cup {Len(log) + 1} ELSE trail
          /\ \A i \in trail : longer[i] = log[i] /\ i \in Nat /\ i < Len(log) + 1
          /\ longer[Len(log) + 1] = entry /\ Len(log) + 1 \in Nat
      BY AppendTrails
    <2> QED
      BY <2>1
  <1>2. Complete(log, c, row)
    OBVIOUS
  <1> HIDE DEF longer, trail
  <1>3. Complete(longer, c, row)
    BY <1>1, <1>2 DEF Complete, trail
  <1> QED
    BY <1>3 DEF longer

AllComplete == \A c \in Comment : Complete(history, c, comments[c])

LEMMA CompleteStep ==
    ASSUME TypeOK, AllComplete, [Next]_vars
    PROVE  AllComplete'
  <1>1. CASE Undisturbed
    BY <1>1 DEF Undisturbed, AllComplete
  <1>2. ASSUME NEW r \in Request, Written(r)
        PROVE  AllComplete'
    <2>1. PICK c \in Comment, row \in Row, entry \in HistoryEntry :
             /\ comments' = [comments EXCEPT ![c] = row]
             /\ history' = Append(history, entry)
             /\ entry.comment = c
             /\ Follows(entry, comments[c], row)
      BY <1>2 DEF Written
    <2>2. comments'[c] = row /\ \A d \in Comment : d # c => comments'[d] = comments[d]
      BY <2>1 DEF TypeOK
    <2>3. history \in Seq(HistoryEntry) /\ comments[c] \in {NoComment} \cup Row
      BY DEF TypeOK
    <2>4. comments[c].exists \in BOOLEAN
      <3>1. NoComment.exists = FALSE
        BY DEF NoComment
      <3>2. \A other \in Row : other.exists = TRUE
        BY DEF Row
      <3> QED
        BY <2>3, <3>1, <3>2
    <2>5. ASSUME NEW d \in Comment
          PROVE  Complete(history', d, comments'[d])
      <3>1. Complete(history, d, comments[d])
        BY DEF AllComplete
      <3>2. CASE d = c
        BY <2>1, <2>2, <2>3, <2>4, <3>1, <3>2, CompleteFollows
      <3>3. CASE d # c
        BY <2>1, <2>2, <2>3, <3>1, <3>3, CompleteSkips
      <3> QED
        BY <3>2, <3>3
    <2> QED
      BY <2>5 DEF AllComplete
  <1> QED
    BY <1>1, <1>2, StepKinds

\* No interleaving leaves a gap in the history of a comment.
THEOREM CommentHistoriesComplete == Spec => []CommentHistoryComplete
  <1>1. Init => CommentsInv /\ AllComplete
    <2>1. Init => DOMAIN history = {} /\ \A c \in Comment : comments[c].exists = FALSE
      BY DEF Init, NoComment
    <2> QED
      BY <2>1, CommentsInit DEF AllComplete, Complete, Trail
  <1>2. CommentsInv /\ AllComplete /\ [Next]_vars => (CommentsInv /\ AllComplete)'
    BY CommentsStep, CompleteStep DEF CommentsInv
  <1>3. AllComplete => CommentHistoryComplete
    BY DEF AllComplete, Complete, Trail, CommentHistoryComplete
  <1> QED
    BY <1>1, <1>2, <1>3, PTL DEF Spec

=============================================================================
