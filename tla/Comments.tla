------------------------------ MODULE Comments -----------------------------
(***************************************************************************)
(* The comments on the tickets of one organization and their history in    *)
(* the audit log (services/comments-service.ts).                           *)
(*                                                                         *)
(* The middleware admits any member; who may edit or delete is decided in  *)
(* the transaction of the service, on the membership read there.  In       *)
(* between memberships change and tickets are deleted; Membership,         *)
(* Invitations and Tickets say how, here it happens at any time.           *)
(***************************************************************************)
EXTENDS OrganizationRoles, Sequences

CONSTANTS
    Ticket,      \* tickets, all of them visible at first
    Comment,     \* comment ids, each used once
    Content,     \* texts of comments
    Request      \* HTTP requests that write comments

ASSUME MemberRoleAssumption == MemberRole \subseteq Role

VARIABLES
    tickets,   \* the tickets that are not deleted
    comments,  \* rows of the table comments, deleted ones included
    history,   \* audit_logs rows with entity type comment, in insertion order
    requests   \* progress of every request

vars == <<roles, tickets, comments, history, requests>>

IsMember(u) == roles[u] # "none"

NoComment == [exists |-> FALSE]

CommentRow(t, author, content) ==
    [exists |-> TRUE, ticket |-> t, author |-> author, content |-> content,
     deleted |-> FALSE]

\* findCommentById hides deleted rows.
Visible(c) == comments[c].exists /\ ~comments[c].deleted

Idle == [stage |-> "idle"]

\* The role the middleware has read stays in the context of the request.
Scoped(op, actor) ==
    [stage |-> "scoped", op |-> op, actor |-> actor, role |-> roles[actor]]

Answer(r, outcome) ==
    requests' = [requests EXCEPT ![r] = [stage |-> "answered", outcome |-> outcome]]

Op == {"create", "update", "delete"}

IsPending(r, op) == requests[r].stage = "scoped" /\ requests[r].op = op

Entry(c, action, actor, old, new) ==
    [comment |-> c, action |-> action, actor |-> actor, old |-> old, new |-> new]

-----------------------------------------------------------------------------
(***************************************************************************)
(* The environment of the service.                                         *)
(***************************************************************************)
EnterCommentScope(r) ==
    /\ requests[r] = Idle
    /\ \E op \in Op, actor \in User :
          /\ IsMember(actor)
          /\ HasRole(roles[actor], "member")
          /\ requests' = [requests EXCEPT ![r] = Scoped(op, actor)]
    /\ UNCHANGED <<roles, tickets, comments, history>>

\* Somebody joins, changes role or is removed.
ChangeMembership(u, role) ==
    /\ ChangeRole(u, role)
    /\ UNCHANGED <<tickets, comments, history, requests>>

\* The comments of a deleted ticket stay as they are.
DeleteTicket(t) ==
    /\ t \in tickets
    /\ tickets' = tickets \ {t}
    /\ UNCHANGED <<roles, comments, history, requests>>

-----------------------------------------------------------------------------
(***************************************************************************)
(* createComment                                                           *)
(***************************************************************************)
CreateOutcome(actor, t) ==
    IF t \notin tickets THEN "ticket-not-found"
    ELSE IF ~IsMember(actor) THEN "author-not-member"
    ELSE "ok"

createComment(r) ==
    LET actor == requests[r].actor IN
    /\ IsPending(r, "create")
    /\ \E t \in Ticket, c \in Comment, content \in Content :
          /\ ~comments[c].exists
          /\ Answer(r, CreateOutcome(actor, t))
          /\ \/ /\ CreateOutcome(actor, t) = "ok"
                /\ comments' = [comments EXCEPT ![c] = CommentRow(t, actor, content)]
                /\ history' = Append(history,
                                     Entry(c, "create", actor, "nothing", content))
             \/ /\ CreateOutcome(actor, t) # "ok"
                /\ UNCHANGED <<comments, history>>
    /\ UNCHANGED <<roles, tickets>>

-----------------------------------------------------------------------------
(***************************************************************************)
(* updateComment: the ticket only has to be the one of the comment; it is  *)
(* not looked up.                                                          *)
(***************************************************************************)
\* Plausible slip: whoever may delete a comment may edit it.
CanEditComment_LikeDelete(author, actor) ==
    author = actor \/ getRoleLevel[roles[actor]] >= getRoleLevel["admin"]

CanEditComment(author, actor) == author = actor

UpdateOutcome(actor, t, c, content) ==
    IF ~IsMember(actor) THEN "author-not-member"
    ELSE IF ~Visible(c) THEN "comment-not-found"
    ELSE IF comments[c].ticket # t THEN "comment-not-found"
    ELSE IF ~CanEditComment(comments[c].author, actor) THEN "not-comment-author"
    ELSE IF comments[c].content = content THEN "unchanged"
    ELSE "ok"

\* Plausible slip: the old content is read after the UPDATE.
OldContent_ReadBack(c) == comments'[c].content

OldContent(c) == comments[c].content

updateComment(r) ==
    LET actor == requests[r].actor IN
    /\ IsPending(r, "update")
    /\ \E t \in Ticket, c \in Comment, content \in Content :
          LET outcome == UpdateOutcome(actor, t, c, content) IN
          /\ Answer(r, outcome)
          /\ \/ /\ outcome = "ok"
                /\ comments' = [comments EXCEPT ![c].content = content]
                /\ history' = Append(history,
                                     Entry(c, "update", actor, OldContent(c), content))
             \/ /\ outcome # "ok"
                /\ UNCHANGED <<comments, history>>
    /\ UNCHANGED <<roles, tickets>>

-----------------------------------------------------------------------------
(***************************************************************************)
(* deleteComment                                                           *)
(***************************************************************************)
canDeleteComment(author, actor, role) ==
    author = actor \/ getRoleLevel[role] >= getRoleLevel["admin"]

\* Plausible slip: the decision uses what the middleware has read.
DeletingRole_TrustsMiddleware(r) == requests[r].role

\* The role of the actor, read in the transaction.
DeletingRole(r) == roles[requests[r].actor]

DeleteOutcome(r, t, c) ==
    IF DeletingRole(r) = "none" THEN "author-not-member"
    ELSE IF ~Visible(c) THEN "comment-not-found"
    ELSE IF comments[c].ticket # t THEN "comment-not-found"
    ELSE IF canDeleteComment(comments[c].author, requests[r].actor, DeletingRole(r))
         THEN "ok"
    ELSE "not-comment-author"

SoftDeleted(row) == [row EXCEPT !.deleted = TRUE]

deleteComment(r) ==
    /\ IsPending(r, "delete")
    /\ \E t \in Ticket, c \in Comment :
          /\ Answer(r, DeleteOutcome(r, t, c))
          /\ \/ /\ DeleteOutcome(r, t, c) = "ok"
                /\ comments' = [comments EXCEPT ![c] = SoftDeleted(comments[c])]
                /\ history' = Append(history,
                      Entry(c, "delete", requests[r].actor, comments[c].content, "nothing"))
             \/ /\ DeleteOutcome(r, t, c) # "ok"
                /\ UNCHANGED <<comments, history>>
    /\ UNCHANGED <<roles, tickets>>

\* The transaction rolls back (audit entry refused, busy database), or the
\* process dies before it.
TransactionFails(r) ==
    /\ requests[r].stage = "scoped"
    /\ Answer(r, "unknown-error")
    /\ UNCHANGED <<roles, tickets, comments, history>>

-----------------------------------------------------------------------------
Init ==
    /\ RolesInit
    /\ tickets = Ticket
    /\ comments = [c \in Comment |-> NoComment]
    /\ history = <<>>
    /\ requests = [r \in Request |-> Idle]

Next ==
    \/ \E r \in Request : EnterCommentScope(r)
    \/ \E u \in User, role \in MemberRole \cup {"none"} : ChangeMembership(u, role)
    \/ \E t \in Ticket : DeleteTicket(t)
    \/ \E r \in Request : createComment(r)
    \/ \E r \in Request : updateComment(r)
    \/ \E r \in Request : deleteComment(r)
    \/ \E r \in Request : TransactionFails(r)

Spec == Init /\ [][Next]_vars

-----------------------------------------------------------------------------
(***************************************************************************)
(* Properties.                                                             *)
(***************************************************************************)
Row == [exists : {TRUE}, ticket : Ticket, author : User, content : Content,
        deleted : BOOLEAN]

Outcome == {"ok", "unchanged", "ticket-not-found", "comment-not-found",
            "author-not-member", "not-comment-author", "unknown-error"}

RequestState ==
    {Idle} \cup [stage : {"scoped"}, op : Op, actor : User, role : MemberRole]
      \cup [stage : {"answered"}, outcome : Outcome]

HistoryEntry ==
    [comment : Comment, action : Op, actor : User, old : Content \cup {"nothing"},
     new : Content \cup {"nothing"}]

\* Types; and every entry of the history is about a row of the table, since
\* rows are deleted softly.
TypeOK ==
    /\ roles \in [User -> MemberRole \cup {"none"}]
    /\ tickets \subseteq Ticket
    /\ comments \in [Comment -> {NoComment} \cup Row]
    /\ history \in Seq(HistoryEntry)
    /\ \A i \in DOMAIN history : comments[history[i].comment].exists
    /\ requests \in [Request -> RequestState]

\* The history of a comment is complete: it begins with the creation, every
\* change starts from the content the one before has left, a deletion ends it,
\* and its last entry agrees with the row.
Chained(before, after) ==
    /\ before.action # "delete"
    /\ after.action # "create"
    /\ after.old = before.new

AgreesWithRow(entry, row) ==
    IF row.deleted THEN entry.action = "delete" /\ entry.old = row.content
    ELSE entry.action # "delete" /\ entry.new = row.content

CommentHistoryComplete ==
    \A c \in Comment :
        LET trail == {i \in DOMAIN history : history[i].comment = c} IN
        /\ comments[c].exists <=> trail # {}
        /\ \A i \in trail : (\A k \in trail : i <= k) => history[i].action = "create"
        /\ \A i, j \in trail :
              i < j /\ (\A k \in trail : k <= i \/ j <= k) => Chained(history[i], history[j])
        /\ \A i \in trail :
              (\A k \in trail : k <= i) => AgreesWithRow(history[i], comments[c])

\* Nobody ever puts words into somebody else's mouth: whatever a comment has
\* said was written by its author, admins and owners included.
OnlyAuthorsSpeak ==
    \A i \in DOMAIN history :
        history[i].action # "delete"
          => history[i].actor = comments[history[i].comment].author

\* Whoever changes a comment is a member when the change commits, and is its
\* author or an admin then, whatever the middleware saw before.
EntitledAtCommit ==
    [][\A r \in Request, c \in Comment :
          comments'[c] # comments[c] /\ requests'[r] # requests[r] =>
             /\ IsMember(requests[r].actor)
             /\ \/ ~comments[c].exists
                \/ comments[c].author = requests[r].actor
                \/ HasRole(roles[requests[r].actor], "admin")]_vars

=============================================================================
