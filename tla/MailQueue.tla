----------------------------- MODULE MailQueue -----------------------------
(***************************************************************************)
(* The in-memory queue that sends invitation mails                         *)
(* (lib/invitation-mail-queue.ts).                                         *)
(*                                                                         *)
(* The queue runs on one event loop: everything between two awaits or two  *)
(* callbacks is one step.  The callbacks that can be outstanding are the   *)
(* setImmediate that starts processNext, the send it awaits, and one timer *)
(* per mail that waits for its retry.                                      *)
(***************************************************************************)
EXTENDS Naturals, Sequences, FiniteSets

CONSTANT Mail  \* invitation mails, each handed to the queue at most once

VARIABLES
    queue,                \* items waiting, oldest first
    isProcessing,         \* the flag that a worker is scheduled or sending
    immediates,           \* processNext callbacks scheduled and not yet run
    sending,              \* items whose send is awaited
    pendingRetryTimeouts, \* items waiting for the timer of their retry
    enqueued,             \* history: mails in the order they were handed over
    sends,                \* history: number of sends started for each mail
    failures,             \* history: number of sends that failed for each mail
    delivered, abandoned, lost  \* history: what became of the mails

queueVars == <<queue, isProcessing, immediates, sending, pendingRetryTimeouts>>
history == <<enqueued, sends, failures, delivered, abandoned, lost>>
vars == <<queueVars, history>>

MAX_RETRIES == 3

Item(mail, attempt) == [mail |-> mail, attempt |-> attempt]

MailsOf(items) == {item.mail : item \in items}

Waiting == {queue[i] : i \in DOMAIN queue}

Handed == {enqueued[i] : i \in DOMAIN enqueued}

-----------------------------------------------------------------------------
\* Called with the contents of the queue and the value of the flag at the call.
scheduleProcess(items, busy) ==
    /\ isProcessing' = (busy \/ items # <<>>)
    /\ immediates' = IF busy \/ items = <<>> THEN immediates ELSE immediates + 1

Pushed(item) == Append(queue, item)

enqueueInvitationEmail(mail) ==
    /\ mail \notin Handed
    /\ enqueued' = Append(enqueued, mail)
    /\ queue' = Pushed(Item(mail, 0))
    /\ scheduleProcess(queue', isProcessing)
    /\ UNCHANGED <<sending, pendingRetryTimeouts, sends, failures,
                   delivered, abandoned, lost>>

Shifted == Tail(queue)

\* processNext up to its await.
processNext ==
    /\ immediates > 0
    /\ immediates' = immediates - 1
    /\ \/ /\ queue = <<>>
          /\ isProcessing' = FALSE
          /\ UNCHANGED <<queue, sending, sends>>
       \/ /\ queue # <<>>
          /\ queue' = Shifted
          /\ sending' = sending \cup {Head(queue)}
          /\ sends' = [sends EXCEPT ![Head(queue).mail] = @ + 1]
          /\ UNCHANGED isProcessing
    /\ UNCHANGED <<pendingRetryTimeouts, enqueued, failures, delivered, abandoned, lost>>

\* The send resolves; the finally block hands the flag on.
sendResolves(item) ==
    /\ item \in sending
    /\ sending' = sending \ {item}
    /\ delivered' = delivered \cup {item.mail}
    /\ scheduleProcess(queue, FALSE)
    /\ UNCHANGED <<queue, pendingRetryTimeouts, enqueued, sends, failures,
                   abandoned, lost>>

\* Plausible slip: one retry too many.
HasRetryLeft_OneMore(item) == item.attempt <= MAX_RETRIES

HasRetryLeft(item) == item.attempt < MAX_RETRIES

\* Plausible slip: the retried item keeps its attempt number.
Retried_NotCounted(item) == item

Retried(item) == Item(item.mail, item.attempt + 1)

\* The send rejects: a retry is scheduled, or the mail is given up.
sendRejects(item) ==
    /\ item \in sending
    /\ sending' = sending \ {item}
    /\ failures' = [failures EXCEPT ![item.mail] = @ + 1]
    /\ \/ /\ HasRetryLeft(item)
          /\ pendingRetryTimeouts' = pendingRetryTimeouts \cup {Retried(item)}
          /\ UNCHANGED abandoned
       \/ /\ ~HasRetryLeft(item)
          /\ abandoned' = abandoned \cup {item.mail}
          /\ UNCHANGED pendingRetryTimeouts
    /\ scheduleProcess(queue, FALSE)
    /\ UNCHANGED <<queue, enqueued, sends, delivered, lost>>

\* Plausible slip: the timer puts the item back and nobody looks at it.
WakeForRetry_Forgotten(items) == UNCHANGED <<isProcessing, immediates>>

WakeForRetry(items) == scheduleProcess(items, isProcessing)

\* The timer of a retry fires; with delays of 1, 5 and 15 seconds and sends of
\* any duration the timers of different mails fire in any order.
retryTimeout(item) ==
    /\ item \in pendingRetryTimeouts
    /\ pendingRetryTimeouts' = pendingRetryTimeouts \ {item}
    /\ queue' = Pushed(item)
    /\ WakeForRetry(queue')
    /\ UNCHANGED <<sending, history>>

\* Plausible slip: the reset also claims that nobody is processing.
FlagAfterReset_Cleared == FALSE

FlagAfterReset == isProcessing

\* A callback scheduled and a send awaited survive the reset, with the retries
\* of the latter.
resetInvitationMailQueue ==
    /\ queue' = <<>>
    /\ pendingRetryTimeouts' = {}
    /\ isProcessing' = FlagAfterReset
    /\ lost' = lost \cup MailsOf(Waiting \cup pendingRetryTimeouts)
    /\ UNCHANGED <<immediates, sending, enqueued, sends, failures, delivered, abandoned>>

\* The process dies and starts again with an empty queue.
Crash ==
    /\ queue' = <<>>
    /\ isProcessing' = FALSE
    /\ immediates' = 0
    /\ sending' = {}
    /\ pendingRetryTimeouts' = {}
    /\ lost' = lost \cup MailsOf(Waiting \cup pendingRetryTimeouts \cup sending)
    /\ UNCHANGED <<enqueued, sends, failures, delivered, abandoned>>

-----------------------------------------------------------------------------
Init ==
    /\ queue = <<>>
    /\ isProcessing = FALSE
    /\ immediates = 0
    /\ sending = {}
    /\ pendingRetryTimeouts = {}
    /\ enqueued = <<>>
    /\ sends = [mail \in Mail |-> 0]
    /\ failures = [mail \in Mail |-> 0]
    /\ delivered = {}
    /\ abandoned = {}
    /\ lost = {}

Next ==
    \/ \E mail \in Mail : enqueueInvitationEmail(mail)
    \/ processNext
    \/ \E item \in sending : sendResolves(item)
    \/ \E item \in sending : sendRejects(item)
    \/ \E item \in pendingRetryTimeouts : retryTimeout(item)
    \/ resetInvitationMailQueue
    \/ Crash

Spec == Init /\ [][Next]_vars

\* The event loop runs every callback; the mailer settles every send (the
\* present one resolves at once); every timer fires.
Items == [mail : Mail, attempt : 0..MAX_RETRIES]

Fairness ==
    /\ WF_vars(processNext)
    /\ \A item \in Items :
          /\ WF_vars(sendResolves(item) \/ sendRejects(item))
          /\ WF_vars(retryTimeout(item))

FairSpec == Spec /\ Fairness

-----------------------------------------------------------------------------
(***************************************************************************)
(* Properties.                                                             *)
(***************************************************************************)
TypeOK ==
    /\ queue \in Seq(Items)
    /\ isProcessing \in BOOLEAN
    /\ immediates \in Nat
    /\ sending \in SUBSET Items
    /\ pendingRetryTimeouts \in SUBSET Items
    /\ enqueued \in Seq(Mail)
    /\ sends \in [Mail -> Nat]
    /\ failures \in [Mail -> Nat]
    /\ delivered \in SUBSET Mail
    /\ abandoned \in SUBSET Mail
    /\ lost \in SUBSET Mail

\* The flag tells the truth: it is set exactly when one worker is scheduled or
\* sending, so no two mails are ever sent at the same time, and the queue never
\* holds a mail that nobody will look at.
OneWorker ==
    /\ immediates + Cardinality(sending) = IF isProcessing THEN 1 ELSE 0
    /\ queue # <<>> => isProcessing

\* A mail is sent at most four times, and is given up only after four failures.
AttemptsBounded ==
    /\ \A mail \in Mail : sends[mail] <= MAX_RETRIES + 1
    /\ \A mail \in abandoned : failures[mail] = MAX_RETRIES + 1

\* Every mail handed over is delivered, given up after its last retry, or lost
\* with the process or with a reset.
EveryMailHandled ==
    \A mail \in Mail : mail \in Handed ~> mail \in delivered \cup abandoned \cup lost

StatusOf(mail) ==
    IF mail \in delivered THEN "delivered"
    ELSE IF mail \in abandoned THEN "abandoned"
    ELSE IF mail \in lost THEN "lost"
    ELSE IF mail \in Handed THEN "taken"
    ELSE "new"

TriesOf(mail) == failures[mail] + IF mail \in delivered THEN 1 ELSE 0

Delivery == INSTANCE MailDelivery WITH
    Attempts <- MAX_RETRIES + 1,
    status <- [mail \in Mail |-> StatusOf(mail)],
    tries <- [mail \in Mail |-> TriesOf(mail)]

\* The queue implements what it promises.
ImplementsDelivery == Delivery!DeliverySpec

=============================================================================
