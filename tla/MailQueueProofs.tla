-------------------------- MODULE MailQueueProofs --------------------------
(***************************************************************************)
(* Proofs about MailQueue, for any set of mails.                           *)
(***************************************************************************)
EXTENDS MailQueue, FiniteSetTheorems, SequenceTheorems, TLAPS

-----------------------------------------------------------------------------
(***************************************************************************)
(* The inductive invariant.                                                *)
(***************************************************************************)
\* The worker is absent, scheduled or sending; it is absent only when there is
\* nothing to do.
WorkerState ==
    \/ isProcessing = FALSE /\ immediates = 0 /\ sending = {} /\ queue = <<>>
    \/ isProcessing = TRUE /\ immediates = 1 /\ sending = {}
    \/ isProcessing = TRUE /\ immediates = 0 /\ \E item \in Items : sending = {item}

\* The attempt number of an item counts the sends of its mail, all of which
\* have failed, except the one under way.
Counted(item, started) ==
    /\ item.mail \in Handed
    /\ failures[item.mail] = item.attempt
    /\ sends[item.mail] = item.attempt + started

ItemsCounted ==
    /\ \A i \in DOMAIN queue : Counted(queue[i], 0)
    /\ \A item \in pendingRetryTimeouts : Counted(item, 0)
    /\ \A item \in sending : Counted(item, 1)

\* A mail has one item at most.
OneItemEach ==
    /\ \A i, j \in DOMAIN queue : queue[i].mail = queue[j].mail => i = j
    /\ \A x, y \in pendingRetryTimeouts : x.mail = y.mail => x = y
    /\ \A i \in DOMAIN queue, x \in pendingRetryTimeouts : queue[i].mail # x.mail

NewUntouched == \A mail \in Mail \ Handed : sends[mail] = 0 /\ failures[mail] = 0

QueueInv ==
    /\ TypeOK
    /\ WorkerState
    /\ ItemsCounted
    /\ OneItemEach
    /\ NewUntouched
    /\ AttemptsBounded

-----------------------------------------------------------------------------
\* What the promise about the worker amounts to.
LEMMA WorkerStateIsOneWorker == WorkerState => OneWorker
<1> SUFFICES ASSUME WorkerState PROVE OneWorker
  OBVIOUS
<1>1. Cardinality({}) = 0
  BY FS_EmptySet
<1>2. \A item \in Items : Cardinality({item}) = 1
  BY FS_Singleton
<1> QED
  BY <1>1, <1>2 DEF WorkerState, OneWorker

\* scheduleProcess leaves a worker behind whenever there is something to do.
LEMMA ScheduleWorks ==
    ASSUME NEW items, NEW busy \in BOOLEAN, scheduleProcess(items, busy),
           \/ busy = FALSE /\ immediates = 0 /\ sending' = {}
           \/ busy = TRUE /\ immediates = 1 /\ sending' = {}
           \/ busy = TRUE /\ immediates = 0 /\ \E item \in Items : sending' = {item},
           queue' = items
    PROVE  WorkerState' /\ isProcessing' \in BOOLEAN /\ immediates' \in Nat
<1>1. CASE busy = TRUE
  <2>1. isProcessing' = TRUE /\ immediates' = immediates
    BY <1>1 DEF scheduleProcess
  <2> QED
    BY <1>1, <2>1 DEF WorkerState
<1>2. CASE busy = FALSE /\ items = <<>>
  <2>1. isProcessing' = FALSE /\ immediates' = immediates
    BY <1>2 DEF scheduleProcess
  <2>2. immediates = 0 /\ sending' = {} /\ queue' = <<>>
    BY <1>2
  <2> QED
    BY <2>1, <2>2 DEF WorkerState
<1>3. CASE busy = FALSE /\ items # <<>>
  <2>1. isProcessing' = TRUE /\ immediates' = immediates + 1
    BY <1>3 DEF scheduleProcess
  <2> QED
    BY <1>3, <2>1 DEF WorkerState
<1> QED
  BY <1>1, <1>2, <1>3

LEMMA InitQueueInv == Init => QueueInv
<1> SUFFICES ASSUME Init PROVE QueueInv
  OBVIOUS
<1>1. TypeOK
  <2>1. <<>> \in Seq(Items) /\ <<>> \in Seq(Mail)
    OBVIOUS
  <2>2. [mail \in Mail |-> 0] \in [Mail -> Nat]
    OBVIOUS
  <2> QED
    BY <2>1, <2>2 DEF Init, TypeOK
<1>4. WorkerState
  BY DEF Init, WorkerState
<1>2. ItemsCounted /\ OneItemEach
  BY DEF Init, ItemsCounted, OneItemEach
<1>3. NewUntouched /\ AttemptsBounded
  BY DEF Init, NewUntouched, AttemptsBounded, MAX_RETRIES
<1> QED
  BY <1>1, <1>2, <1>3, <1>4 DEF QueueInv

\* What Append does to the queue.
LEMMA PushedFacts ==
    ASSUME TypeOK, NEW item \in Items, queue' = Pushed(item)
    PROVE  /\ queue' \in Seq(Items)
           /\ Len(queue) \in Nat
           /\ DOMAIN queue = 1..Len(queue)
           /\ DOMAIN queue' = 1..(Len(queue) + 1)
           /\ queue'[Len(queue) + 1] = item
           /\ \A i \in DOMAIN queue : queue'[i] = queue[i]
  BY DEF TypeOK, Pushed

\* What Append does to the mails handed over.
LEMMA HandedGrows ==
    ASSUME TypeOK, NEW mail \in Mail, enqueued' = Append(enqueued, mail)
    PROVE  enqueued' \in Seq(Mail) /\ Handed' = Handed \cup {mail}
<1>1. /\ enqueued' \in Seq(Mail)
      /\ Len(enqueued) \in Nat
      /\ DOMAIN enqueued = 1..Len(enqueued)
      /\ DOMAIN enqueued' = 1..(Len(enqueued) + 1)
      /\ enqueued'[Len(enqueued) + 1] = mail
      /\ \A i \in DOMAIN enqueued : enqueued'[i] = enqueued[i]
  BY DEF TypeOK
<1>2. DOMAIN enqueued' = (DOMAIN enqueued) \cup {Len(enqueued) + 1}
  BY <1>1
<1> QED
  BY <1>1, <1>2 DEF Handed

LEMMA EnqueueInv ==
    ASSUME QueueInv, NEW mail \in Mail, enqueueInvitationEmail(mail)
    PROVE  QueueInv'
<1> USE DEF QueueInv
<1> DEFINE item == Item(mail, 0)
<1>1. item \in Items /\ item.mail = mail /\ item.attempt = 0
  BY DEF Item, Items, MAX_RETRIES
<1>2. queue' = Pushed(item)
  BY DEF enqueueInvitationEmail
<1> HIDE DEF item
<1>3. /\ queue' \in Seq(Items)
      /\ Len(queue) \in Nat
      /\ DOMAIN queue = 1..Len(queue)
      /\ DOMAIN queue' = 1..(Len(queue) + 1)
      /\ queue'[Len(queue) + 1] = item
      /\ \A i \in DOMAIN queue : queue'[i] = queue[i]
  BY <1>1, <1>2, PushedFacts
<1>4. /\ mail \notin Handed
      /\ enqueued' = Append(enqueued, mail)
      /\ UNCHANGED <<sending, pendingRetryTimeouts, sends, failures,
                     delivered, abandoned, lost>>
  BY DEF enqueueInvitationEmail
<1>5. enqueued' \in Seq(Mail) /\ Handed' = Handed \cup {mail}
  BY <1>4, HandedGrows
<1>6. WorkerState' /\ isProcessing' \in BOOLEAN /\ immediates' \in Nat
  <2>1. scheduleProcess(queue', isProcessing)
    BY DEF enqueueInvitationEmail
  <2> QED
    BY <1>4, <2>1, ScheduleWorks DEF WorkerState, TypeOK
<1>7. TypeOK'
  BY <1>3, <1>4, <1>5, <1>6 DEF TypeOK
<1>8. sends[mail] = 0 /\ failures[mail] = 0
  BY <1>4 DEF NewUntouched
<1>9. ItemsCounted'
  <2>1. Counted(item, 0)'
    BY <1>1, <1>4, <1>5, <1>8 DEF Counted
  <2>2. \A x : \A n \in {0, 1} : Counted(x, n) => Counted(x, n)'
    BY <1>4, <1>5 DEF Counted
  <2> QED
    BY <1>3, <1>4, <2>1, <2>2 DEF ItemsCounted, Counted
<1>10. OneItemEach'
  <2>1. \A i \in DOMAIN queue : queue[i].mail # mail
    BY <1>4 DEF ItemsCounted, Counted
  <2>2. \A x \in pendingRetryTimeouts : x.mail # mail
    BY <1>4 DEF ItemsCounted, Counted
  <2> QED
    BY <1>1, <1>3, <1>4, <2>1, <2>2 DEF OneItemEach
<1>11. NewUntouched' /\ AttemptsBounded'
  BY <1>4, <1>5 DEF NewUntouched, AttemptsBounded
<1> QED
  BY <1>6, <1>7, <1>9, <1>10, <1>11

LEMMA ProcessInv ==
    ASSUME QueueInv, processNext PROVE QueueInv'
<1> USE DEF QueueInv
<1>1. /\ immediates = 1 /\ isProcessing = TRUE /\ sending = {} /\ immediates' = 0
      /\ UNCHANGED <<pendingRetryTimeouts, enqueued, failures, delivered,
                     abandoned, lost>>
  BY DEF processNext, WorkerState, TypeOK
<1>2. CASE queue = <<>>
  <2>1. isProcessing' = FALSE /\ UNCHANGED <<queue, sending, sends>>
    BY <1>2 DEF processNext
  <2>2. WorkerState' /\ TypeOK'
    BY <1>1, <1>2, <2>1 DEF WorkerState, TypeOK
  <2>3. ItemsCounted'
    BY <1>1, <2>1 DEF ItemsCounted, Counted, Handed
  <2>4. OneItemEach' /\ NewUntouched' /\ AttemptsBounded'
    BY <1>1, <2>1 DEF OneItemEach, NewUntouched, AttemptsBounded, Handed
  <2> QED
    BY <2>2, <2>3, <2>4
<1>3. CASE queue # <<>>
  <2>0. PICK item : item = Head(queue)
    OBVIOUS
  <2>1. /\ queue' = Tail(queue)
        /\ sending' = {item}
        /\ sends' = [sends EXCEPT ![item.mail] = @ + 1]
        /\ isProcessing' = isProcessing
    BY <1>1, <1>3, <2>0 DEF processNext, Shifted
  <2>2. /\ Len(queue) \in Nat \ {0} /\ DOMAIN queue = 1..Len(queue)
        /\ 1 \in DOMAIN queue /\ item = queue[1] /\ item \in Items
        /\ queue' \in Seq(Items)
        /\ DOMAIN queue' = 1..(Len(queue) - 1)
        /\ \A i \in DOMAIN queue' : queue'[i] = queue[i + 1] /\ i + 1 \in DOMAIN queue
    BY <1>3, <2>0, <2>1 DEF TypeOK
  <2>3. Counted(item, 0) /\ item.mail \in Mail /\ item.attempt \in 0..3
    BY <2>2 DEF ItemsCounted, Items, MAX_RETRIES
  <2>4. sends' \in [Mail -> Nat] /\ sends'[item.mail] = item.attempt + 1
    BY <2>1, <2>3 DEF Counted, TypeOK
  <2>5. \A mail \in Mail : mail # item.mail => sends'[mail] = sends[mail]
    BY <2>1, <2>3 DEF TypeOK
  <2>6. TypeOK'
    BY <1>1, <2>1, <2>2, <2>4 DEF TypeOK
  <2>7. WorkerState'
    BY <1>1, <2>1, <2>2 DEF WorkerState
  <2>8. ItemsCounted'
    <3>1. \A i \in DOMAIN queue' : queue'[i].mail # item.mail
      BY <2>2 DEF OneItemEach
    <3>2. \A x \in pendingRetryTimeouts : x.mail # item.mail
      BY <2>2 DEF OneItemEach
    <3>3. \A x \in Items : Counted(x, 0) /\ x.mail # item.mail => Counted(x, 0)'
      BY <1>1, <2>5 DEF Counted, Items, Handed
    <3>4. Counted(item, 1)'
      BY <1>1, <2>3, <2>4 DEF Counted, Handed
    <3>5. ASSUME NEW i \in DOMAIN queue' PROVE Counted(queue[i], 0)'
      <4>1. PICK x : x = queue'[i]
        OBVIOUS
      <4>2. x \in Items /\ Counted(x, 0) /\ x.mail # item.mail
        BY <2>2, <3>1, <4>1 DEF ItemsCounted, TypeOK
      <4>3. Counted(x, 0)'
        BY <3>3, <4>2
      <4> QED
        BY <4>1, <4>3 DEF Counted
    <3>6. \A x \in pendingRetryTimeouts' : Counted(x, 0)'
      BY <1>1, <3>2, <3>3 DEF ItemsCounted, TypeOK
    <3> QED
      BY <2>1, <3>4, <3>5, <3>6 DEF ItemsCounted
  <2>9. OneItemEach'
    BY <1>1, <2>2 DEF OneItemEach
  <2>10. NewUntouched'
    BY <1>1, <2>3, <2>5 DEF NewUntouched, Counted, Handed
  <2>11. AttemptsBounded'
    BY <1>1, <2>3, <2>4, <2>5 DEF AttemptsBounded, MAX_RETRIES
  <2> QED
    BY <2>6, <2>7, <2>8, <2>9, <2>10, <2>11
<1> QED
  BY <1>2, <1>3

\* The worker is the one sending; when its send ends the flag is handed on.
LEMMA SendEnds ==
    ASSUME QueueInv, NEW item \in sending, sending' = sending \ {item},
           scheduleProcess(queue, FALSE), UNCHANGED queue
    PROVE  /\ sending = {item} /\ sending' = {} /\ item \in Items
           /\ WorkerState' /\ isProcessing' \in BOOLEAN /\ immediates' \in Nat
<1>1. sending = {item} /\ immediates = 0 /\ item \in Items
  BY DEF QueueInv, WorkerState, TypeOK
<1> QED
  BY <1>1, ScheduleWorks

LEMMA ResolveInv ==
    ASSUME QueueInv, NEW item \in sending, sendResolves(item) PROVE QueueInv'
<1> USE DEF QueueInv
<1>1. /\ item \in Items /\ sending' = {} /\ WorkerState'
      /\ isProcessing' \in BOOLEAN /\ immediates' \in Nat
  BY SendEnds DEF sendResolves
<1>2. /\ delivered' = delivered \cup {item.mail}
      /\ UNCHANGED <<queue, pendingRetryTimeouts, enqueued, sends, failures,
                     abandoned, lost>>
  BY DEF sendResolves
<1>3. TypeOK'
  BY <1>1, <1>2 DEF TypeOK, Items
<1>4. ItemsCounted'
  BY <1>1, <1>2 DEF ItemsCounted, Counted, Handed
<1>5. OneItemEach' /\ NewUntouched' /\ AttemptsBounded'
  BY <1>2 DEF OneItemEach, NewUntouched, AttemptsBounded, Handed
<1> QED
  BY <1>1, <1>3, <1>4, <1>5

LEMMA RejectInv ==
    ASSUME QueueInv, NEW item \in sending, sendRejects(item) PROVE QueueInv'
<1> USE DEF QueueInv
<1>1. /\ sending = {item} /\ item \in Items /\ sending' = {} /\ WorkerState'
      /\ isProcessing' \in BOOLEAN /\ immediates' \in Nat
  BY SendEnds DEF sendRejects
<1>2. /\ failures' = [failures EXCEPT ![item.mail] = @ + 1]
      /\ UNCHANGED <<queue, enqueued, sends, delivered, lost>>
  BY DEF sendRejects
<1>3. item.mail \in Mail /\ item.attempt \in 0..3 /\ Counted(item, 1)
  BY <1>1 DEF Items, MAX_RETRIES, ItemsCounted
<1>4. failures' \in [Mail -> Nat] /\ failures'[item.mail] = item.attempt + 1
  BY <1>2, <1>3 DEF Counted, TypeOK
<1>5. \A mail \in Mail : mail # item.mail => failures'[mail] = failures[mail]
  BY <1>2, <1>3 DEF TypeOK
<1>6. /\ \A i \in DOMAIN queue : queue[i] \in Items /\ queue[i].mail # item.mail
      /\ \A x \in pendingRetryTimeouts : x \in Items /\ x.mail # item.mail
  <2>1. \A x \in Items : Counted(x, 0) => x.mail # item.mail
    BY <1>3 DEF Counted, Items
  <2>2. /\ \A i \in DOMAIN queue : queue[i] \in Items /\ Counted(queue[i], 0)
        /\ \A x \in pendingRetryTimeouts : x \in Items /\ Counted(x, 0)
    BY DEF ItemsCounted, TypeOK
  <2> QED
    BY <2>1, <2>2
<1>7. \A x \in Items : Counted(x, 0) /\ x.mail # item.mail => Counted(x, 0)'
  BY <1>2, <1>5 DEF Counted, Items, Handed
<1>8. NewUntouched'
  BY <1>2, <1>3, <1>5 DEF NewUntouched, Counted, Handed
<1>9. CASE item.attempt < MAX_RETRIES
  <2> DEFINE next == Item(item.mail, item.attempt + 1)
  <2>1. pendingRetryTimeouts' = pendingRetryTimeouts \cup {next} /\ abandoned' = abandoned
    BY <1>9 DEF sendRejects, HasRetryLeft, Retried
  <2>2. next \in Items /\ next.mail = item.mail /\ next.attempt = item.attempt + 1
    BY <1>3, <1>9 DEF Item, Items, MAX_RETRIES
  <2> HIDE DEF next
  <2>3. TypeOK'
    BY <1>1, <1>2, <1>4, <2>1, <2>2 DEF TypeOK
  <2>4. Counted(next, 0)'
    BY <1>2, <1>3, <1>4, <2>2 DEF Counted, Handed
  <2>5. ItemsCounted'
    BY <1>1, <1>2, <1>6, <1>7, <2>1, <2>4 DEF ItemsCounted
  <2>6. OneItemEach'
    BY <1>2, <1>6, <2>1, <2>2 DEF OneItemEach
  <2>7. AttemptsBounded'
    BY <1>2, <1>3, <1>5, <2>1 DEF AttemptsBounded, Counted, MAX_RETRIES, TypeOK
  <2> QED
    BY <1>1, <1>8, <2>3, <2>5, <2>6, <2>7
<1>10. CASE ~(item.attempt < MAX_RETRIES)
  <2>1. pendingRetryTimeouts' = pendingRetryTimeouts /\ abandoned' = abandoned \cup {item.mail}
    BY <1>10 DEF sendRejects, HasRetryLeft
  <2>2. TypeOK'
    BY <1>1, <1>2, <1>3, <1>4, <2>1 DEF TypeOK
  <2>3. ItemsCounted'
    BY <1>1, <1>2, <1>6, <1>7, <2>1 DEF ItemsCounted
  <2>4. OneItemEach'
    BY <1>2, <2>1 DEF OneItemEach
  <2>5. AttemptsBounded'
    BY <1>2, <1>3, <1>4, <1>5, <1>10, <2>1
       DEF AttemptsBounded, Counted, MAX_RETRIES, TypeOK
  <2> QED
    BY <1>1, <1>8, <2>2, <2>3, <2>4, <2>5
<1> QED
  BY <1>9, <1>10

LEMMA RetryInv ==
    ASSUME QueueInv, NEW item \in pendingRetryTimeouts, retryTimeout(item)
    PROVE  QueueInv'
<1> USE DEF QueueInv
<1>1. /\ item \in Items
      /\ queue' = Pushed(item)
      /\ pendingRetryTimeouts' = pendingRetryTimeouts \ {item}
      /\ UNCHANGED <<sending, enqueued, sends, failures, delivered, abandoned, lost>>
  BY DEF retryTimeout, TypeOK, history
<1>2. /\ queue' \in Seq(Items)
      /\ Len(queue) \in Nat
      /\ DOMAIN queue = 1..Len(queue)
      /\ DOMAIN queue' = 1..(Len(queue) + 1)
      /\ queue'[Len(queue) + 1] = item
      /\ \A i \in DOMAIN queue : queue'[i] = queue[i]
  BY <1>1, PushedFacts
<1>3. WorkerState' /\ isProcessing' \in BOOLEAN /\ immediates' \in Nat
  <2>1. scheduleProcess(queue', isProcessing)
    BY DEF retryTimeout, WakeForRetry
  <2> QED
    BY <1>1, <2>1, ScheduleWorks DEF WorkerState, TypeOK
<1>4. TypeOK'
  BY <1>1, <1>2, <1>3 DEF TypeOK
<1>5. ItemsCounted'
  <2>1. \A x : \A n \in {0, 1} : Counted(x, n)' <=> Counted(x, n)
    BY <1>1 DEF Counted, Handed
  <2> QED
    BY <1>1, <1>2, <2>1 DEF ItemsCounted
<1>6. OneItemEach'
  BY <1>1, <1>2 DEF OneItemEach
<1>7. NewUntouched' /\ AttemptsBounded'
  BY <1>1 DEF NewUntouched, AttemptsBounded, Handed
<1> QED
  BY <1>3, <1>4, <1>5, <1>6, <1>7

\* A reset and a crash empty the queue and stop the timers.
LEMMA EmptyingInv ==
    ASSUME QueueInv, resetInvitationMailQueue \/ Crash PROVE QueueInv'
<1> USE DEF QueueInv
<1>1. /\ queue' = <<>> /\ pendingRetryTimeouts' = {}
      /\ sending' \in {sending, {}}
      /\ UNCHANGED <<enqueued, sends, failures, delivered, abandoned>>
  BY DEF resetInvitationMailQueue, Crash
<1>2. lost' \in SUBSET Mail
  <2> DEFINE all == Waiting \cup pendingRetryTimeouts \cup sending
             kept == Waiting \cup pendingRetryTimeouts
  <2>0. Waiting \subseteq Items
    BY DEF Waiting, TypeOK
  <2>3. all \subseteq Items /\ kept \subseteq Items
    BY <2>0 DEF TypeOK
  <2> HIDE DEF all, kept
  <2>1. MailsOf(all) \subseteq Mail
    BY <2>3 DEF MailsOf, Items
  <2>2. MailsOf(kept) \subseteq Mail
    BY <2>3 DEF MailsOf, Items
  <2> USE DEF all, kept
  <2> QED
    BY <2>1, <2>2 DEF resetInvitationMailQueue, Crash, TypeOK
<1>3. WorkerState' /\ isProcessing' \in BOOLEAN /\ immediates' \in Nat
  <2>1. CASE resetInvitationMailQueue
    <3>1. queue' = <<>> /\ UNCHANGED <<isProcessing, immediates, sending>>
      BY <2>1 DEF resetInvitationMailQueue, FlagAfterReset
    <3> QED
      BY <3>1 DEF WorkerState, TypeOK
  <2>2. CASE Crash
    BY <2>2 DEF Crash, WorkerState
  <2> QED
    BY <2>1, <2>2
<1>4. TypeOK'
  BY <1>1, <1>2, <1>3 DEF TypeOK
<1>5. ItemsCounted'
  BY <1>1 DEF ItemsCounted, Counted, Handed
<1>6. OneItemEach' /\ NewUntouched' /\ AttemptsBounded'
  BY <1>1 DEF OneItemEach, NewUntouched, AttemptsBounded, Handed
<1> QED
  BY <1>3, <1>4, <1>5, <1>6

LEMMA NextQueueInv == QueueInv /\ [Next]_vars => QueueInv'
<1> SUFFICES ASSUME QueueInv, [Next]_vars PROVE QueueInv'
  OBVIOUS
<1>1. CASE UNCHANGED vars
  BY <1>1 DEF vars, queueVars, history, QueueInv, TypeOK, WorkerState, ItemsCounted,
              Counted, OneItemEach, NewUntouched, AttemptsBounded, Handed
<1> QED
  BY <1>1, EnqueueInv, ProcessInv, ResolveInv, RejectInv, RetryInv, EmptyingInv DEF Next

-----------------------------------------------------------------------------
(***************************************************************************)
(* The refinement of MailDelivery.  A mail that is delivered, given up or  *)
(* lost has no item left, so that nothing can become of it any more.       *)
(***************************************************************************)
Settled == delivered \cup abandoned \cup lost

SettledAreGone ==
    /\ Settled \subseteq Handed
    /\ \A i \in DOMAIN queue : queue[i].mail \notin Settled
    /\ \A item \in pendingRetryTimeouts : item.mail \notin Settled
    /\ \A item \in sending : item.mail \notin Settled

\* The item under way is the only one of its mail.
LEMMA SendingIsApart ==
    ASSUME QueueInv, NEW item \in sending
    PROVE  /\ sending = {item} /\ item \in Items /\ item.mail \in Handed
           /\ \A i \in DOMAIN queue : queue[i].mail # item.mail
           /\ \A x \in pendingRetryTimeouts : x.mail # item.mail
<1> USE DEF QueueInv
<1>1. sending = {item} /\ item \in Items
  BY DEF WorkerState, TypeOK
<1>2. /\ item.mail \in Handed
      /\ sends[item.mail] = failures[item.mail] + 1
      /\ failures[item.mail] \in 0..3
  BY <1>1 DEF ItemsCounted, Counted, Items, MAX_RETRIES
<1>3. \A i \in DOMAIN queue : queue[i].mail # item.mail
  <2>1. \A i \in DOMAIN queue : sends[queue[i].mail] = failures[queue[i].mail]
    <3>1. \A i \in DOMAIN queue : queue[i] \in Items
      BY DEF TypeOK
    <3>2. QED BY <3>1 DEF ItemsCounted, Counted, Items, MAX_RETRIES
  <2>2. QED BY <1>2, <2>1
<1>4. \A x \in pendingRetryTimeouts : x.mail # item.mail
  <2>1. \A x \in pendingRetryTimeouts : sends[x.mail] = failures[x.mail]
    BY DEF ItemsCounted, Counted, Items, MAX_RETRIES, TypeOK
  <2>2. QED BY <1>2, <2>1
<1>5. QED BY <1>1, <1>2, <1>3, <1>4

\* No item of a settled mail appears: a mail is queued once, and its item goes
\* on only as long as nothing has become of it.
LEMMA SettledAreGoneKept ==
    ASSUME QueueInv, SettledAreGone, [Next]_vars PROVE SettledAreGone'
<1>1. ASSUME NEW mail \in Mail, enqueueInvitationEmail(mail) PROVE SettledAreGone'
  <2>1. /\ mail \notin Handed
        /\ enqueued' = Append(enqueued, mail)
        /\ queue' = Pushed(Item(mail, 0))
        /\ UNCHANGED <<sending, pendingRetryTimeouts, delivered, abandoned, lost>>
    BY <1>1 DEF enqueueInvitationEmail
  <2>2. /\ Item(mail, 0) \in Items /\ Item(mail, 0).mail = mail
        /\ Settled' = Settled
    BY <2>1 DEF Item, Items, MAX_RETRIES, Settled
  <2>3. /\ DOMAIN queue' = 1..(Len(queue) + 1) /\ DOMAIN queue = 1..Len(queue)
        /\ Len(queue) \in Nat
        /\ queue'[Len(queue) + 1].mail = mail
        /\ \A i \in DOMAIN queue : queue'[i] = queue[i]
    BY <2>1, <2>2, PushedFacts DEF QueueInv
  <2>4. mail \notin Settled
    BY <2>1 DEF SettledAreGone
  <2>5. Handed \subseteq Handed'
    BY <2>1, HandedGrows DEF QueueInv
  <2>6. \A i \in DOMAIN queue' : queue'[i].mail \notin Settled
    <3>1. \A i \in DOMAIN queue' : i \in DOMAIN queue \/ i = Len(queue) + 1
      BY <2>3
    <3>2. QED BY <2>3, <2>4, <3>1 DEF SettledAreGone
  <2>7. QED BY <2>1, <2>2, <2>5, <2>6 DEF SettledAreGone
<1>2. CASE processNext
  <2>1. UNCHANGED <<pendingRetryTimeouts, enqueued, delivered, abandoned, lost>>
    BY <1>2 DEF processNext
  <2>2. Settled' = Settled /\ Handed' = Handed
    BY <2>1 DEF Settled, Handed
  <2>3. CASE queue = <<>>
    <3>1. UNCHANGED <<queue, sending>>
      BY <1>2, <2>3 DEF processNext
    <3>2. QED BY <2>1, <2>2, <3>1 DEF SettledAreGone
  <2>4. CASE queue # <<>>
    <3>1. queue' = Tail(queue) /\ sending' = sending \cup {Head(queue)}
      BY <1>2, <2>4 DEF processNext, Shifted
    <3>2. /\ 1 \in DOMAIN queue /\ Head(queue) = queue[1]
          /\ \A i \in DOMAIN queue' : queue'[i] = queue[i + 1] /\ i + 1 \in DOMAIN queue
      BY <2>4, <3>1 DEF QueueInv, TypeOK
    <3>3. QED BY <2>1, <2>2, <3>1, <3>2 DEF SettledAreGone
  <2>5. QED BY <2>3, <2>4
<1>3. ASSUME NEW item \in sending, sendResolves(item) PROVE SettledAreGone'
  <2>1. /\ sending' = sending \ {item} /\ delivered' = delivered \cup {item.mail}
        /\ UNCHANGED <<queue, pendingRetryTimeouts, enqueued, abandoned, lost>>
    BY <1>3 DEF sendResolves
  <2>2. Settled' = Settled \cup {item.mail} /\ Handed' = Handed
    BY <2>1 DEF Settled, Handed
  <2>3. QED BY <2>1, <2>2, SendingIsApart DEF SettledAreGone
<1>4. ASSUME NEW item \in sending, sendRejects(item) PROVE SettledAreGone'
  <2>1. /\ sending' = sending \ {item}
        /\ UNCHANGED <<queue, enqueued, delivered, lost>>
    BY <1>4 DEF sendRejects
  <2>2. /\ sending' = {} /\ Handed' = Handed /\ item.mail \in Handed
    BY <2>1, SendingIsApart DEF Handed
  <2>3. CASE HasRetryLeft(item)
    <3>1. /\ pendingRetryTimeouts' = pendingRetryTimeouts \cup {Retried(item)}
          /\ abandoned' = abandoned
      BY <1>4, <2>3 DEF sendRejects
    <3>2. Settled' = Settled /\ Retried(item).mail = item.mail
      BY <2>1, <3>1 DEF Settled, Retried, Item
    <3>3. QED BY <2>1, <2>2, <3>1, <3>2 DEF SettledAreGone
  <2>4. CASE ~HasRetryLeft(item)
    <3>1. /\ pendingRetryTimeouts' = pendingRetryTimeouts
          /\ abandoned' = abandoned \cup {item.mail}
      BY <1>4, <2>4 DEF sendRejects
    <3>2. Settled' = Settled \cup {item.mail}
      BY <2>1, <3>1 DEF Settled
    <3>3. QED BY <2>1, <2>2, <3>1, <3>2, SendingIsApart DEF SettledAreGone
  <2>5. QED BY <2>3, <2>4
<1>5. ASSUME NEW item \in pendingRetryTimeouts, retryTimeout(item) PROVE SettledAreGone'
  <2>1. /\ pendingRetryTimeouts' = pendingRetryTimeouts \ {item}
        /\ queue' = Pushed(item)
        /\ UNCHANGED <<sending, enqueued, delivered, abandoned, lost>>
    BY <1>5 DEF retryTimeout, history
  <2>2. Settled' = Settled /\ Handed' = Handed /\ item \in Items
    BY <2>1 DEF Settled, Handed, QueueInv, TypeOK
  <2>3. /\ DOMAIN queue' = 1..(Len(queue) + 1) /\ DOMAIN queue = 1..Len(queue)
        /\ Len(queue) \in Nat
        /\ queue'[Len(queue) + 1] = item
        /\ \A i \in DOMAIN queue : queue'[i] = queue[i]
    BY <2>1, <2>2, PushedFacts DEF QueueInv
  <2>4. \A i \in DOMAIN queue' : i \in DOMAIN queue \/ i = Len(queue) + 1
    BY <2>3
  <2>5. QED BY <2>1, <2>2, <2>3, <2>4 DEF SettledAreGone
<1>6. CASE resetInvitationMailQueue
  <2>1. /\ queue' = <<>> /\ pendingRetryTimeouts' = {}
        /\ lost' = lost \cup MailsOf(Waiting \cup pendingRetryTimeouts)
        /\ UNCHANGED <<sending, enqueued, delivered, abandoned>>
    BY <1>6 DEF resetInvitationMailQueue
  <2>2. Settled' = Settled \cup MailsOf(Waiting \cup pendingRetryTimeouts) /\ Handed' = Handed
    BY <2>1 DEF Settled, Handed
  <2>3. ASSUME NEW mail \in MailsOf(Waiting \cup pendingRetryTimeouts)
        PROVE  mail \in Handed /\ \A item \in sending : item.mail # mail
    <3>1. \/ \E i \in DOMAIN queue : mail = queue[i].mail
          \/ \E x \in pendingRetryTimeouts : mail = x.mail
      BY <2>3 DEF MailsOf, Waiting
    <3>2. mail \in Handed
      BY <3>1 DEF QueueInv, ItemsCounted, Counted
    <3>3. \A item \in sending : item.mail # mail
      BY <3>1, SendingIsApart
    <3>4. QED BY <3>2, <3>3
  <2>4. DOMAIN queue' = {}
    BY <2>1
  <2>5. QED BY <2>1, <2>2, <2>3, <2>4 DEF SettledAreGone
<1>7. CASE Crash
  <2>1. /\ queue' = <<>> /\ pendingRetryTimeouts' = {} /\ sending' = {}
        /\ lost' = lost \cup MailsOf(Waiting \cup pendingRetryTimeouts \cup sending)
        /\ UNCHANGED <<enqueued, delivered, abandoned>>
    BY <1>7 DEF Crash
  <2>2. /\ Settled' = Settled \cup MailsOf(Waiting \cup pendingRetryTimeouts \cup sending)
        /\ Handed' = Handed
    BY <2>1 DEF Settled, Handed
  <2>3. MailsOf(Waiting \cup pendingRetryTimeouts \cup sending) \subseteq Handed
    BY DEF MailsOf, Waiting, QueueInv, ItemsCounted, Counted
  <2>4. DOMAIN queue' = {}
    BY <2>1
  <2>5. QED BY <2>1, <2>2, <2>3, <2>4 DEF SettledAreGone
<1>8. CASE UNCHANGED vars
  BY <1>8 DEF SettledAreGone, Settled, Handed, vars, queueVars, history
<1>9. QED BY <1>1, <1>2, <1>3, <1>4, <1>5, <1>6, <1>7, <1>8 DEF Next

\* What the refinement mapping says of two states that differ in one mail.
LEMMA OneMailChanges ==
    ASSUME NEW mail \in Mail,
           \A other \in Mail : other # mail => /\ StatusOf(other)' = StatusOf(other)
                                               /\ TriesOf(other)' = TriesOf(other)
    PROVE  /\ [m \in Mail |-> StatusOf(m)]'
                  = [[m \in Mail |-> StatusOf(m)] EXCEPT ![mail] = StatusOf(mail)']
           /\ [m \in Mail |-> TriesOf(m)]'
                  = [[m \in Mail |-> TriesOf(m)] EXCEPT ![mail] = TriesOf(mail)']
  OBVIOUS

LEMMA EnqueueTakes ==
    ASSUME QueueInv, SettledAreGone, NEW mail \in Mail, enqueueInvitationEmail(mail)
    PROVE  Delivery!Take(mail)
<1>1. /\ mail \notin Handed
      /\ enqueued' = Append(enqueued, mail)
      /\ UNCHANGED <<failures, delivered, abandoned, lost>>
  BY DEF enqueueInvitationEmail
<1>2. Handed' = Handed \cup {mail}
  BY <1>1, HandedGrows DEF QueueInv
<1>3. mail \notin delivered /\ mail \notin abandoned /\ mail \notin lost
  BY <1>1 DEF SettledAreGone, Settled
<1>4. StatusOf(mail) = "new" /\ StatusOf(mail)' = "taken"
  BY <1>1, <1>2, <1>3 DEF StatusOf
<1>5. \A other \in Mail : TriesOf(other)' = TriesOf(other)
  BY <1>1 DEF TriesOf
<1>6. \A other \in Mail : other # mail => StatusOf(other)' = StatusOf(other)
  BY <1>1, <1>2 DEF StatusOf
<1>7. [m \in Mail |-> StatusOf(m)]'
          = [[m \in Mail |-> StatusOf(m)] EXCEPT ![mail] = "taken"]
  BY <1>4, <1>5, <1>6, OneMailChanges
<1>8. [m \in Mail |-> TriesOf(m)]' = [m \in Mail |-> TriesOf(m)]
  BY <1>5
<1>9. QED BY <1>4, <1>7, <1>8 DEF Delivery!Take

\* The mail under way is taken, with fewer ends of sends than are allowed.
LEMMA SendingIsTaken ==
    ASSUME QueueInv, SettledAreGone, NEW item \in sending
    PROVE  /\ item.mail \in Mail /\ StatusOf(item.mail) = "taken"
           /\ TriesOf(item.mail) = failures[item.mail]
           /\ failures[item.mail] = item.attempt
           /\ item.attempt \in 0..MAX_RETRIES
<1>1. /\ item \in Items /\ item.mail \in Handed
  BY SendingIsApart
<1>2. item.mail \notin delivered /\ item.mail \notin abandoned /\ item.mail \notin lost
  BY DEF SettledAreGone, Settled
<1>3. item.mail \in Mail /\ item.attempt \in 0..MAX_RETRIES
  BY <1>1 DEF Items
<1>4. failures[item.mail] = item.attempt
  BY DEF QueueInv, ItemsCounted, Counted
<1>5. StatusOf(item.mail) = "taken"
  BY <1>1, <1>2 DEF StatusOf
<1>6. TriesOf(item.mail) = failures[item.mail]
  BY <1>2, <1>3, <1>4 DEF TriesOf, MAX_RETRIES
<1>7. QED BY <1>3, <1>4, <1>5, <1>6

LEMMA ResolveDelivers ==
    ASSUME QueueInv, SettledAreGone, NEW item \in sending, sendResolves(item)
    PROVE  Delivery!Deliver(item.mail)
<1>1. /\ delivered' = delivered \cup {item.mail}
      /\ UNCHANGED <<enqueued, failures, abandoned, lost>>
  BY DEF sendResolves
<1>2. PICK mail \in Mail : mail = item.mail
  BY SendingIsTaken
<1>3. /\ StatusOf(mail) = "taken" /\ TriesOf(mail) = failures[mail]
      /\ failures[mail] \in 0..MAX_RETRIES
  BY <1>2, SendingIsTaken
<1>4. Handed' = Handed
  BY <1>1 DEF Handed
<1>5. StatusOf(mail)' = "delivered"
  BY <1>1, <1>2 DEF StatusOf
<1>6. TriesOf(mail)' = TriesOf(mail) + 1
  BY <1>1, <1>2, <1>3 DEF TriesOf
<1>7. \A other \in Mail : other # mail => /\ StatusOf(other)' = StatusOf(other)
                                          /\ TriesOf(other)' = TriesOf(other)
  BY <1>1, <1>2, <1>4 DEF StatusOf, TriesOf
<1>8. /\ [m \in Mail |-> StatusOf(m)]'
             = [[m \in Mail |-> StatusOf(m)] EXCEPT ![mail] = "delivered"]
      /\ [m \in Mail |-> TriesOf(m)]'
             = [[m \in Mail |-> TriesOf(m)] EXCEPT ![mail] = @ + 1]
  BY <1>5, <1>6, <1>7, OneMailChanges
<1>9. TriesOf(mail) < MAX_RETRIES + 1
  BY <1>3 DEF MAX_RETRIES
<1>10. Delivery!Deliver(mail)
  BY <1>3, <1>8, <1>9 DEF Delivery!Deliver
<1>11. QED BY <1>2, <1>10

LEMMA RejectFails ==
    ASSUME QueueInv, SettledAreGone, NEW item \in sending, sendRejects(item)
    PROVE  Delivery!Fail(item.mail)
<1>1. /\ failures' = [failures EXCEPT ![item.mail] = @ + 1]
      /\ UNCHANGED <<enqueued, delivered, lost>>
      /\ abandoned' = IF HasRetryLeft(item) THEN abandoned ELSE abandoned \cup {item.mail}
  BY DEF sendRejects
<1>2. PICK mail \in Mail : mail = item.mail
  BY SendingIsTaken
<1>3. /\ StatusOf(mail) = "taken" /\ TriesOf(mail) = failures[mail]
      /\ failures[mail] = item.attempt /\ item.attempt \in 0..MAX_RETRIES
      /\ mail \in Handed
      /\ mail \notin delivered /\ mail \notin abandoned /\ mail \notin lost
  BY <1>2, SendingIsTaken, SendingIsApart DEF SettledAreGone, Settled
<1>4. Handed' = Handed
  BY <1>1 DEF Handed
<1>5. failures \in [Mail -> Nat]
  BY DEF QueueInv, TypeOK
<1>6. /\ failures'[mail] = failures[mail] + 1
      /\ \A other \in Mail : other # mail => failures'[other] = failures[other]
  BY <1>1, <1>2, <1>5
<1>7. TriesOf(mail)' = TriesOf(mail) + 1
  BY <1>1, <1>3, <1>6 DEF TriesOf, MAX_RETRIES
<1>8. StatusOf(mail)' = IF TriesOf(mail) + 1 = MAX_RETRIES + 1 THEN "abandoned" ELSE "taken"
  <2>1. CASE HasRetryLeft(item)
    <3>1. abandoned' = abandoned /\ item.attempt < MAX_RETRIES
      BY <1>1, <2>1 DEF HasRetryLeft
    <3>2. TriesOf(mail) + 1 # MAX_RETRIES + 1
      BY <1>3, <3>1 DEF MAX_RETRIES
    <3>3. StatusOf(mail)' = "taken"
      BY <1>1, <1>3, <1>4, <3>1 DEF StatusOf
    <3>4. QED BY <3>2, <3>3
  <2>2. CASE ~HasRetryLeft(item)
    <3>1. abandoned' = abandoned \cup {mail} /\ ~(item.attempt < MAX_RETRIES)
      BY <1>1, <1>2, <2>2 DEF HasRetryLeft
    <3>2. TriesOf(mail) + 1 = MAX_RETRIES + 1
      BY <1>3, <3>1 DEF MAX_RETRIES
    <3>3. StatusOf(mail)' = "abandoned"
      BY <1>1, <1>3, <3>1 DEF StatusOf
    <3>4. QED BY <3>2, <3>3
  <2>3. QED BY <2>1, <2>2
<1>9. \A other \in Mail : other # mail => /\ StatusOf(other)' = StatusOf(other)
                                          /\ TriesOf(other)' = TriesOf(other)
  <2>1. \A other \in Mail : other # mail => (other \in abandoned' <=> other \in abandoned)
    BY <1>1, <1>2
  <2>2. QED BY <1>1, <1>4, <1>6, <2>1 DEF StatusOf, TriesOf
<1>10. /\ [m \in Mail |-> StatusOf(m)]'
              = [[m \in Mail |-> StatusOf(m)] EXCEPT ![mail] =
                    IF TriesOf(mail) + 1 = MAX_RETRIES + 1 THEN "abandoned" ELSE "taken"]
       /\ [m \in Mail |-> TriesOf(m)]'
              = [[m \in Mail |-> TriesOf(m)] EXCEPT ![mail] = @ + 1]
  BY <1>7, <1>8, <1>9, OneMailChanges
<1>11. TriesOf(mail) < MAX_RETRIES + 1
  BY <1>3 DEF MAX_RETRIES
<1>12. Delivery!Fail(mail)
  BY <1>3, <1>10, <1>11 DEF Delivery!Fail
<1>13. QED BY <1>2, <1>12

\* A reset or a crash loses mails that were taken and not settled.
LEMMA MailsAreLost ==
    ASSUME QueueInv, SettledAreGone, NEW mails, lost' = lost \cup mails,
           \A mail \in mails : mail \in Mail /\ mail \in Handed /\ mail \notin Settled,
           UNCHANGED <<enqueued, failures, delivered, abandoned>>
    PROVE  mails \in SUBSET Mail /\ Delivery!Lose(mails)
<1>1. Handed' = Handed
  BY DEF Handed
<1>2. \A mail \in mails : StatusOf(mail) = "taken"
  BY DEF StatusOf, Settled
<1>3. \A mail \in Mail : StatusOf(mail)' = IF mail \in mails THEN "lost" ELSE StatusOf(mail)
  BY <1>1 DEF StatusOf, Settled
<1>4. \A mail \in Mail : TriesOf(mail)' = TriesOf(mail)
  BY DEF TriesOf
<1>5. [m \in Mail |-> StatusOf(m)]'
          = [mail \in Mail |-> IF mail \in mails THEN "lost"
                               ELSE [m \in Mail |-> StatusOf(m)][mail]]
  BY <1>3
<1>6. [m \in Mail |-> TriesOf(m)]' = [m \in Mail |-> TriesOf(m)]
  BY <1>4
<1>7. \A mail \in mails : [m \in Mail |-> StatusOf(m)][mail] = "taken"
  BY <1>2
<1>8. QED BY <1>5, <1>6, <1>7 DEF Delivery!Lose

\* Steps that the promise does not see.
LEMMA HiddenSteps ==
    ASSUME UNCHANGED <<enqueued, failures, delivered, abandoned, lost>>
    PROVE  UNCHANGED Delivery!deliveryVars
<1>1. \A mail \in Mail : StatusOf(mail)' = StatusOf(mail) /\ TriesOf(mail)' = TriesOf(mail)
  BY DEF StatusOf, TriesOf, Handed
<1>2. /\ [m \in Mail |-> StatusOf(m)]' = [m \in Mail |-> StatusOf(m)]
      /\ [m \in Mail |-> TriesOf(m)]' = [m \in Mail |-> TriesOf(m)]
  BY <1>1
<1>3. QED BY <1>2 DEF Delivery!deliveryVars

\* The items that are outstanding belong to mails that are taken.
LEMMA OutstandingAreTaken ==
    ASSUME QueueInv, SettledAreGone,
           NEW mail \in MailsOf(Waiting \cup pendingRetryTimeouts \cup sending)
    PROVE  mail \in Mail /\ mail \in Handed /\ mail \notin Settled
<1>1. \/ \E i \in DOMAIN queue : mail = queue[i].mail
      \/ \E x \in pendingRetryTimeouts \cup sending : mail = x.mail
  BY DEF MailsOf, Waiting
<1>2. mail \in Handed
  BY <1>1 DEF QueueInv, ItemsCounted, Counted
<1>3. mail \notin Settled
  BY <1>1 DEF SettledAreGone
<1>4. mail \in Mail
  BY <1>2 DEF QueueInv, TypeOK, Handed
<1>5. QED BY <1>2, <1>3, <1>4

LEMMA StepsImplementDelivery ==
    ASSUME QueueInv, SettledAreGone, [Next]_vars
    PROVE  [Delivery!DeliveryNext]_(Delivery!deliveryVars)
<1>1. ASSUME NEW mail \in Mail, enqueueInvitationEmail(mail)
      PROVE  Delivery!DeliveryNext
  BY <1>1, EnqueueTakes DEF Delivery!DeliveryNext
<1>2. CASE processNext
  BY <1>2, HiddenSteps DEF processNext
<1>3. ASSUME NEW item \in sending, sendResolves(item)
      PROVE  Delivery!DeliveryNext
  BY <1>3, ResolveDelivers, SendingIsTaken DEF Delivery!DeliveryNext
<1>4. ASSUME NEW item \in sending, sendRejects(item)
      PROVE  Delivery!DeliveryNext
  BY <1>4, RejectFails, SendingIsTaken DEF Delivery!DeliveryNext
<1>5. ASSUME NEW item \in pendingRetryTimeouts, retryTimeout(item)
      PROVE  UNCHANGED Delivery!deliveryVars
  BY <1>5, HiddenSteps DEF retryTimeout, history
<1>6. CASE resetInvitationMailQueue
  <2>1. /\ lost' = lost \cup MailsOf(Waiting \cup pendingRetryTimeouts)
        /\ UNCHANGED <<enqueued, failures, delivered, abandoned>>
    BY <1>6 DEF resetInvitationMailQueue
  <2>2. MailsOf(Waiting \cup pendingRetryTimeouts)
            \subseteq MailsOf(Waiting \cup pendingRetryTimeouts \cup sending)
    BY DEF MailsOf
  <2>3. QED BY <2>1, <2>2, OutstandingAreTaken, MailsAreLost DEF Delivery!DeliveryNext
<1>7. CASE Crash
  <2>1. /\ lost' = lost \cup MailsOf(Waiting \cup pendingRetryTimeouts \cup sending)
        /\ UNCHANGED <<enqueued, failures, delivered, abandoned>>
    BY <1>7 DEF Crash
  <2>2. QED BY <2>1, OutstandingAreTaken, MailsAreLost DEF Delivery!DeliveryNext
<1>8. CASE UNCHANGED vars
  BY <1>8, HiddenSteps DEF vars, history
<1>9. QED BY <1>1, <1>2, <1>3, <1>4, <1>5, <1>6, <1>7, <1>8 DEF Next

-----------------------------------------------------------------------------
(***************************************************************************)
(* Nothing is forgotten.  A mail that is not settled has an item in one of *)
(* the three places where a callback will find it.                         *)
(***************************************************************************)
\* The items that wait for a callback of any kind.
Outstanding == Waiting \cup pendingRetryTimeouts \cup sending

\* A mail that is handed over is settled or has an item.
Accounted == \A mail \in Handed : mail \in Settled \/ \E item \in Outstanding : item.mail = mail

\* Two things never become of one mail.
FatesDisjoint ==
    delivered \cap abandoned = {} /\ delivered \cap lost = {} /\ abandoned \cap lost = {}

\* Something that is going to happen moves every mail that is not settled.
LookedAfter ==
    \A mail \in Handed \ Settled :
        \/ mail \in MailsOf(pendingRetryTimeouts \cup sending)
        \/ mail \in MailsOf(Waiting) /\ isProcessing /\ (immediates # 0 \/ sending # {})

\* What has become of a mail stays so, and it is not sent any more.
OneFate ==
    [][\A mail \in Settled : mail \in Settled' /\ sends'[mail] = sends[mail]]_vars

\* Where the items of the next state come from.
LEMMA PushedItems ==
    ASSUME TypeOK, NEW item \in Items, queue' = Pushed(item)
    PROVE  Waiting' = Waiting \cup {item}
<1>1. /\ Len(queue) \in Nat
      /\ DOMAIN queue = 1..Len(queue)
      /\ DOMAIN queue' = 1..(Len(queue) + 1)
      /\ queue'[Len(queue) + 1] = item
      /\ \A i \in DOMAIN queue : queue'[i] = queue[i]
  BY PushedFacts
<1>2. DOMAIN queue' = (DOMAIN queue) \cup {Len(queue) + 1}
  BY <1>1
<1>3. QED BY <1>1, <1>2 DEF Waiting

LEMMA ShiftedItems ==
    ASSUME TypeOK, queue # <<>>, queue' = Shifted
    PROVE  Waiting \subseteq Waiting' \cup {Head(queue)}
<1>1. /\ Len(queue) \in Nat /\ DOMAIN queue = 1..Len(queue)
      /\ DOMAIN queue' = 1..(Len(queue) - 1)
      /\ Head(queue) = queue[1]
      /\ \A i \in DOMAIN queue' : queue'[i] = queue[i + 1]
  BY DEF TypeOK, Shifted
<1>2. ASSUME NEW i \in DOMAIN queue, i # 1 PROVE queue[i] \in Waiting'
  <2>1. i - 1 \in DOMAIN queue' /\ queue'[i - 1] = queue[i]
    BY <1>1, <1>2
  <2>2. QED BY <2>1 DEF Waiting
<1>3. QED BY <1>1, <1>2 DEF Waiting

\* An item that leaves the three places leaves one of the same mail there, or a
\* settled mail.
LEMMA AccountedMoves ==
    ASSUME Accounted, Handed' = Handed, Settled \subseteq Settled',
           \A item \in Outstanding :
              item.mail \in Settled' \/ \E next \in Outstanding' : next.mail = item.mail
    PROVE  Accounted'
<1>1. SUFFICES ASSUME NEW mail \in Handed
               PROVE  mail \in Settled' \/ \E item \in Outstanding' : item.mail = mail
  BY DEF Accounted
<1>2. CASE mail \in Settled
  BY <1>2
<1>3. ASSUME NEW item \in Outstanding, item.mail = mail
      PROVE  mail \in Settled' \/ \E next \in Outstanding' : next.mail = mail
  BY <1>3
<1>4. QED BY <1>2, <1>3 DEF Accounted

LEMMA AccountedKept ==
    ASSUME QueueInv, Accounted, [Next]_vars PROVE Accounted'
<1>1. TypeOK
  BY DEF QueueInv
<1>2. ASSUME NEW mail \in Mail, enqueueInvitationEmail(mail) PROVE Accounted'
  <2>1. /\ enqueued' = Append(enqueued, mail)
        /\ queue' = Pushed(Item(mail, 0))
        /\ UNCHANGED <<sending, pendingRetryTimeouts, delivered, abandoned, lost>>
    BY <1>2 DEF enqueueInvitationEmail
  <2>2. Item(mail, 0) \in Items /\ Item(mail, 0).mail = mail
    BY DEF Item, Items, MAX_RETRIES
  <2>3. Waiting' = Waiting \cup {Item(mail, 0)} /\ Handed' = Handed \cup {mail}
    BY <1>1, <2>1, <2>2, PushedItems, HandedGrows
  <2>4. Outstanding' = Outstanding \cup {Item(mail, 0)} /\ Settled' = Settled
    BY <2>1, <2>3 DEF Outstanding, Settled
  <2>5. QED BY <2>2, <2>3, <2>4 DEF Accounted
<1>3. CASE processNext
  <2>1. UNCHANGED <<pendingRetryTimeouts, enqueued, delivered, abandoned, lost>>
    BY <1>3 DEF processNext
  <2>2. Handed' = Handed /\ Settled' = Settled
    BY <2>1 DEF Handed, Settled
  <2>3. CASE queue = <<>>
    <3>1. Outstanding' = Outstanding
      BY <1>3, <2>1, <2>3 DEF processNext, Outstanding, Waiting
    <3>2. QED BY <2>2, <3>1 DEF Accounted
  <2>4. CASE queue # <<>>
    <3>1. queue' = Shifted /\ sending' = sending \cup {Head(queue)}
      BY <1>3, <2>4 DEF processNext
    <3>2. Waiting \subseteq Waiting' \cup {Head(queue)}
      BY <1>1, <2>4, <3>1, ShiftedItems
    <3>3. Outstanding \subseteq Outstanding'
      BY <2>1, <3>1, <3>2 DEF Outstanding
    <3>4. QED BY <2>2, <3>3, AccountedMoves
  <2>5. QED BY <2>3, <2>4
<1>4. ASSUME NEW item \in sending, sendResolves(item) PROVE Accounted'
  <2>1. /\ sending' = sending \ {item} /\ delivered' = delivered \cup {item.mail}
        /\ UNCHANGED <<queue, pendingRetryTimeouts, enqueued, abandoned, lost>>
    BY <1>4 DEF sendResolves
  <2>2. /\ Handed' = Handed /\ Settled' = Settled \cup {item.mail}
        /\ Outstanding \subseteq Outstanding' \cup {item}
    BY <2>1 DEF Handed, Settled, Outstanding, Waiting
  <2>3. QED BY <2>2, AccountedMoves
<1>5. ASSUME NEW item \in sending, sendRejects(item) PROVE Accounted'
  <2>1. /\ sending' = sending \ {item}
        /\ UNCHANGED <<queue, enqueued, delivered, lost>>
    BY <1>5 DEF sendRejects
  <2>2. Handed' = Handed /\ Waiting' = Waiting
    BY <2>1 DEF Handed, Waiting
  <2>3. CASE HasRetryLeft(item)
    <3>1. /\ pendingRetryTimeouts' = pendingRetryTimeouts \cup {Retried(item)}
          /\ abandoned' = abandoned
      BY <1>5, <2>3 DEF sendRejects
    <3>2. Settled' = Settled /\ Retried(item).mail = item.mail
      BY <2>1, <3>1 DEF Settled, Retried, Item
    <3>3. Outstanding \subseteq Outstanding' \cup {item} /\ Retried(item) \in Outstanding'
      BY <2>1, <2>2, <3>1 DEF Outstanding
    <3>4. QED BY <2>2, <3>2, <3>3, AccountedMoves
  <2>4. CASE ~HasRetryLeft(item)
    <3>1. /\ pendingRetryTimeouts' = pendingRetryTimeouts
          /\ abandoned' = abandoned \cup {item.mail}
      BY <1>5, <2>4 DEF sendRejects
    <3>2. Settled' = Settled \cup {item.mail} /\ Outstanding \subseteq Outstanding' \cup {item}
      BY <2>1, <2>2, <3>1 DEF Settled, Outstanding
    <3>3. QED BY <2>2, <3>2, AccountedMoves
  <2>5. QED BY <2>3, <2>4
<1>6. ASSUME NEW item \in pendingRetryTimeouts, retryTimeout(item) PROVE Accounted'
  <2>1. /\ pendingRetryTimeouts' = pendingRetryTimeouts \ {item}
        /\ queue' = Pushed(item)
        /\ UNCHANGED <<sending, enqueued, delivered, abandoned, lost>>
    BY <1>6 DEF retryTimeout, history
  <2>2. Waiting' = Waiting \cup {item}
    BY <1>1, <2>1, PushedItems DEF TypeOK
  <2>3. Handed' = Handed /\ Settled' = Settled /\ Outstanding \subseteq Outstanding'
    BY <2>1, <2>2 DEF Handed, Settled, Outstanding
  <2>4. QED BY <2>3, AccountedMoves
<1>7. CASE resetInvitationMailQueue \/ Crash
  <2>1. /\ UNCHANGED <<enqueued, delivered, abandoned>>
        /\ \/ /\ sending' = sending
              /\ lost' = lost \cup MailsOf(Waiting \cup pendingRetryTimeouts)
           \/ lost' = lost \cup MailsOf(Outstanding)
    BY <1>7 DEF resetInvitationMailQueue, Crash, Outstanding
  <2>2. Handed' = Handed /\ Settled \subseteq Settled'
    BY <2>1 DEF Handed, Settled
  <2>3. ASSUME NEW item \in Outstanding
        PROVE  item.mail \in Settled' \/ \E next \in Outstanding' : next.mail = item.mail
    BY <2>1, <2>3 DEF Outstanding, MailsOf, Settled
  <2>4. QED BY <2>2, <2>3, AccountedMoves
<1>8. CASE UNCHANGED vars
  <2>1. Outstanding' = Outstanding /\ Handed' = Handed /\ Settled' = Settled
    BY <1>8 DEF vars, queueVars, history, Outstanding, Waiting, Handed, Settled
  <2>2. QED BY <2>1 DEF Accounted
<1>9. QED BY <1>2, <1>3, <1>4, <1>5, <1>6, <1>7, <1>8 DEF Next

\* A mail whose item is picked up or thrown away was not settled before.
LEMMA FatesStayDisjoint ==
    ASSUME QueueInv, SettledAreGone, FatesDisjoint, [Next]_vars PROVE FatesDisjoint'
<1>1. ASSUME NEW item \in sending, sendResolves(item) \/ sendRejects(item)
      PROVE  FatesDisjoint'
  <2>1. item.mail \notin delivered /\ item.mail \notin abandoned /\ item.mail \notin lost
    BY DEF SettledAreGone, Settled
  <2>2. \/ delivered' = delivered \cup {item.mail} /\ UNCHANGED <<abandoned, lost>>
        \/ abandoned' \in {abandoned, abandoned \cup {item.mail}} /\ UNCHANGED <<delivered, lost>>
    BY <1>1 DEF sendResolves, sendRejects
  <2>3. QED BY <2>1, <2>2 DEF FatesDisjoint
<1>2. CASE resetInvitationMailQueue \/ Crash
  <2>1. /\ UNCHANGED <<delivered, abandoned>>
        /\ lost' \subseteq lost \cup MailsOf(Outstanding)
    BY <1>2 DEF resetInvitationMailQueue, Crash, Outstanding, MailsOf
  <2>2. \A mail \in MailsOf(Outstanding) : mail \notin Settled
    BY DEF SettledAreGone, Outstanding, MailsOf, Waiting
  <2>3. QED BY <2>1, <2>2 DEF FatesDisjoint, Settled
<1>3. \/ UNCHANGED <<delivered, abandoned, lost>>
      \/ \E item \in sending : sendResolves(item) \/ sendRejects(item)
      \/ resetInvitationMailQueue \/ Crash
  BY DEF Next, enqueueInvitationEmail, processNext, retryTimeout, vars, history
<1>4. QED BY <1>1, <1>2, <1>3 DEF FatesDisjoint

-----------------------------------------------------------------------------
(***************************************************************************)
(* The theorems.                                                           *)
(***************************************************************************)
\* The invariant holds in every reachable state (the lemmas above).
THEOREM QueueInvHolds == Spec => []QueueInv
  BY InitQueueInv, NextQueueInv, PTL DEF Spec

\* Every item has an attempt number between 0 and 3 (RETRY_DELAYS_MS is never
\* read past its end), and the module state is well typed.
THEOREM QueueTypeCorrect == Spec => []TypeOK
<1>1. QueueInv => TypeOK
  BY DEF QueueInv
<1> QED
  BY <1>1, QueueInvHolds, PTL

\* There is one worker at most, and one whenever a mail waits (scheduleProcess,
\* processNext).
THEOREM OneWorkerAtATime == Spec => []OneWorker
<1>1. QueueInv => OneWorker
  BY WorkerStateIsOneWorker DEF QueueInv
<1> QED
  BY <1>1, QueueInvHolds, PTL

\* A mail is sent at most four times and given up only after four failures.
THEOREM RetriesBounded == Spec => []AttemptsBounded
<1>1. QueueInv => AttemptsBounded
  BY DEF QueueInv
<1> QED
  BY <1>1, QueueInvHolds, PTL

FateInv == QueueInv /\ SettledAreGone /\ Accounted /\ FatesDisjoint

LEMMA FateInvHolds == Spec => []FateInv
<1>1. Init => SettledAreGone /\ Accounted /\ FatesDisjoint
  <2>1. SUFFICES ASSUME Init PROVE SettledAreGone /\ Accounted /\ FatesDisjoint
    OBVIOUS
  <2>2. /\ DOMAIN queue = {} /\ sending = {} /\ pendingRetryTimeouts = {}
        /\ Settled = {} /\ Handed = {}
    BY <2>1 DEF Init, Settled, Handed
  <2>3. QED BY <2>1, <2>2 DEF Init, SettledAreGone, Accounted, FatesDisjoint
<1>2. FateInv /\ [Next]_vars => FateInv'
  BY NextQueueInv, SettledAreGoneKept, AccountedKept, FatesStayDisjoint DEF FateInv
<1>3. QED BY <1>1, <1>2, InitQueueInv, PTL DEF Spec, FateInv

\* The queue does nothing but what it promises: a mail is taken once, tried
\* while it is taken, delivered or given up after its last attempt, and lost
\* only with the process or with a reset (the half of ImplementsDelivery that
\* is about steps; that every mail is settled in the end needs fairness).
THEOREM QueueKeepsItsPromise == Spec => Delivery!DeliverySafety
<1>1. Init => Delivery!DeliveryInit
  <2>1. SUFFICES ASSUME Init PROVE Delivery!DeliveryInit
    OBVIOUS
  <2>2. Handed = {}
    BY <2>1 DEF Init, Handed
  <2>3. \A mail \in Mail : StatusOf(mail) = "new" /\ TriesOf(mail) = 0
    BY <2>1, <2>2 DEF Init, StatusOf, TriesOf
  <2>4. QED BY <2>3 DEF Delivery!DeliveryInit
<1>2. FateInv /\ [Next]_vars => [Delivery!DeliveryNext]_(Delivery!deliveryVars)
  BY StepsImplementDelivery DEF FateInv
<1>3. QED BY <1>1, <1>2, FateInvHolds, PTL DEF Spec, Delivery!DeliverySafety

\* No mail is stranded: as long as nothing has become of it, it is being sent,
\* or a timer will put it back, or it stands in the queue and the worker is
\* scheduled or will go on with the queue when its send ends
\* (invitation-mail-queue.ts: scheduleProcess after every push, and in the
\* finally of processNext).
THEOREM NoMailIsStranded == Spec => []LookedAfter
<1>1. ASSUME FateInv PROVE LookedAfter
  <2>1. Accounted /\ WorkerState
    BY <1>1 DEF FateInv, QueueInv
  <2>2. SUFFICES ASSUME NEW mail \in Handed, mail \notin Settled
                 PROVE  \/ mail \in MailsOf(pendingRetryTimeouts \cup sending)
                        \/ /\ mail \in MailsOf(Waiting) /\ isProcessing
                           /\ immediates # 0 \/ sending # {}
    BY DEF LookedAfter
  <2>3. PICK item \in Outstanding : item.mail = mail
    BY <2>1, <2>2 DEF Accounted
  <2>4. CASE item \in pendingRetryTimeouts \cup sending
    BY <2>3, <2>4 DEF MailsOf
  <2>5. CASE item \in Waiting
    <3>1. mail \in MailsOf(Waiting)
      BY <2>3, <2>5 DEF MailsOf
    <3>2. queue # <<>>
      BY <2>5 DEF Waiting
    <3>3. QED BY <2>1, <3>1, <3>2 DEF WorkerState
  <2>6. QED BY <2>3, <2>4, <2>5 DEF Outstanding
<1>2. QED BY <1>1, FateInvHolds, PTL

\* What becomes of a mail is final: it is delivered, given up or lost, never two
\* of them, and nothing is sent for it from then on, whatever callbacks are
\* outstanding.
THEOREM FateIsFinal == Spec => []FatesDisjoint /\ OneFate
<1>1. ASSUME FateInv, [Next]_vars
      PROVE  \A mail \in Settled : mail \in Settled' /\ sends'[mail] = sends[mail]
  <2>1. Settled \subseteq Settled'
    BY <1>1 DEF Settled, Next, enqueueInvitationEmail, processNext, sendResolves, sendRejects,
                retryTimeout, resetInvitationMailQueue, Crash, vars, history
  <2>2. CASE processNext
    <3>1. CASE queue = <<>>
      BY <2>1, <2>2, <3>1 DEF processNext
    <3>2. CASE queue # <<>>
      <4>1. sends' = [sends EXCEPT ![Head(queue).mail] = @ + 1]
        BY <2>2, <3>2 DEF processNext
      <4>2. Head(queue) = queue[1] /\ 1 \in DOMAIN queue /\ sends \in [Mail -> Nat]
        BY <1>1, <3>2 DEF FateInv, QueueInv, TypeOK
      <4>3. Head(queue).mail \notin Settled
        BY <1>1, <4>2 DEF FateInv, SettledAreGone
      <4>4. \A mail \in Settled : mail \in Mail
        BY <1>1 DEF FateInv, QueueInv, TypeOK, Settled
      <4>5. QED BY <2>1, <4>1, <4>2, <4>3, <4>4
    <3>3. QED BY <3>1, <3>2
  <2>3. CASE ~processNext
    <3>1. sends' = sends
      BY <1>1, <2>3 DEF Next, enqueueInvitationEmail, sendResolves, sendRejects,
                retryTimeout, resetInvitationMailQueue, Crash, vars, history
    <3>2. QED BY <2>1, <3>1
  <2>4. QED BY <2>2, <2>3
<1>2. FateInv => FatesDisjoint
  BY DEF FateInv
<1>3. QED BY <1>1, <1>2, FateInvHolds, PTL DEF Spec, OneFate

-----------------------------------------------------------------------------
(***************************************************************************)
(* Nothing is overtaken on its first way through the queue.  Only an item  *)
(* that has been tried comes back, so the untried ones stand in the queue  *)
(* in the order in which they were handed over.                            *)
(***************************************************************************)
\* A mail is tried for the first time before those handed over after it.
FirstSendsInOrder ==
    \A i, j \in DOMAIN enqueued :
        i < j /\ sends[enqueued[j]] # 0 => sends[enqueued[i]] # 0 \/ enqueued[i] \in lost

\* The item at place p of the queue is the first of the i-th mail.
StandsFor(p, i) == queue[p].mail = enqueued[i] /\ queue[p].attempt = 0

UntriedInOrder ==
    \A i, j \in DOMAIN enqueued, p, q \in DOMAIN queue :
        i < j /\ StandsFor(p, i) /\ StandsFor(q, j) => p < q

RetriesAreLater == \A item \in pendingRetryTimeouts : item.attempt # 0

SettledWereTried == \A mail \in delivered \cup abandoned : sends[mail] # 0

OrderInv == FirstSendsInOrder /\ UntriedInOrder /\ RetriesAreLater /\ SettledWereTried

\* A mail that has not been tried, nor lost, stands in the queue.
LEMMA UntriedStands ==
    ASSUME FateInv, OrderInv, NEW i \in DOMAIN enqueued,
           sends[enqueued[i]] = 0, enqueued[i] \notin lost
    PROVE  \E p \in DOMAIN queue : StandsFor(p, i)
<1>1. TypeOK /\ ItemsCounted /\ Accounted /\ RetriesAreLater /\ SettledWereTried
  BY DEF FateInv, QueueInv, OrderInv
<1>2. enqueued[i] \in Handed /\ enqueued[i] \notin Settled
  BY <1>1 DEF Handed, Settled, SettledWereTried
<1>3. PICK item \in Outstanding : item.mail = enqueued[i]
  BY <1>1, <1>2 DEF Accounted
<1>4. item \in Items
  BY <1>1 DEF Outstanding, Waiting, TypeOK
<1>5. item \notin sending
  BY <1>1, <1>3, <1>4 DEF ItemsCounted, Counted, Items, MAX_RETRIES
<1>6. item \notin pendingRetryTimeouts
  BY <1>1, <1>3, <1>4 DEF ItemsCounted, Counted, Items, MAX_RETRIES, RetriesAreLater
<1>7. PICK p \in DOMAIN queue : queue[p] = item
  BY <1>5, <1>6 DEF Outstanding, Waiting
<1>8. Counted(queue[p], 0)
  BY <1>1 DEF ItemsCounted
<1>9. queue[p].attempt = 0
  BY <1>3, <1>4, <1>7, <1>8 DEF Counted, Items, MAX_RETRIES
<1>10. QED BY <1>3, <1>7, <1>9 DEF StandsFor

LEMMA EnqueueInOrder ==
    ASSUME FateInv, OrderInv, NEW mail \in Mail, enqueueInvitationEmail(mail)
    PROVE  OrderInv'
<1>1. TypeOK /\ NewUntouched
  BY DEF FateInv, QueueInv
<1>2. /\ mail \notin Handed
      /\ enqueued' = Append(enqueued, mail)
      /\ queue' = Pushed(Item(mail, 0))
      /\ UNCHANGED <<sending, pendingRetryTimeouts, sends, delivered, abandoned, lost>>
  BY DEF enqueueInvitationEmail
<1>3. Item(mail, 0) \in Items /\ Item(mail, 0).mail = mail
  BY DEF Item, Items, MAX_RETRIES
<1>4. /\ Len(queue) \in Nat /\ DOMAIN queue = 1..Len(queue)
      /\ DOMAIN queue' = 1..(Len(queue) + 1)
      /\ queue'[Len(queue) + 1].mail = mail
      /\ \A p \in DOMAIN queue : queue'[p] = queue[p]
  BY <1>1, <1>2, <1>3, PushedFacts
<1>5. /\ Len(enqueued) \in Nat /\ DOMAIN enqueued = 1..Len(enqueued)
      /\ DOMAIN enqueued' = 1..(Len(enqueued) + 1)
      /\ enqueued'[Len(enqueued) + 1] = mail
      /\ \A i \in DOMAIN enqueued : enqueued'[i] = enqueued[i]
  BY <1>1, <1>2 DEF TypeOK
<1>6. /\ \A i \in DOMAIN enqueued : enqueued[i] # mail
      /\ \A p \in DOMAIN queue : queue[p].mail # mail
      /\ sends[mail] = 0
  BY <1>1, <1>2 DEF Handed, NewUntouched, FateInv, QueueInv, ItemsCounted, Counted
<1>7. FirstSendsInOrder'
  <2>1. SUFFICES ASSUME NEW i \in DOMAIN enqueued', NEW j \in DOMAIN enqueued',
                        i < j, sends[enqueued'[j]] # 0
                 PROVE  sends[enqueued'[i]] # 0 \/ enqueued'[i] \in lost
    BY <1>2 DEF FirstSendsInOrder
  <2>2. j \in DOMAIN enqueued /\ i \in DOMAIN enqueued
    BY <1>5, <1>6, <2>1
  <2>3. QED BY <1>5, <2>1, <2>2 DEF OrderInv, FirstSendsInOrder
<1>8. UntriedInOrder'
  <2>1. SUFFICES ASSUME NEW i \in DOMAIN enqueued', NEW j \in DOMAIN enqueued',
                        NEW p \in DOMAIN queue', NEW q \in DOMAIN queue',
                        i < j, StandsFor(p, i)', StandsFor(q, j)'
                 PROVE  p < q
    BY DEF UntriedInOrder
  <2>2. i \in DOMAIN enqueued
    BY <1>5, <2>1
  <2>3. p \in DOMAIN queue
    BY <1>4, <1>5, <1>6, <2>1, <2>2 DEF StandsFor
  <2>4. CASE q \in DOMAIN queue
    <3>1. j \in DOMAIN enqueued
      BY <1>4, <1>5, <1>6, <2>1, <2>4 DEF StandsFor
    <3>2. StandsFor(p, i) /\ StandsFor(q, j)
      BY <1>4, <1>5, <2>1, <2>2, <2>3, <2>4, <3>1 DEF StandsFor
    <3>3. QED BY <2>1, <2>2, <2>3, <2>4, <3>1, <3>2 DEF OrderInv, UntriedInOrder
  <2>5. CASE q \notin DOMAIN queue
    BY <1>4, <2>3, <2>5
  <2>6. QED BY <2>4, <2>5
<1>9. QED BY <1>2, <1>7, <1>8 DEF OrderInv, RetriesAreLater, SettledWereTried

\* The worker takes the first item; an untried mail that was handed over before
\* that one would stand before it.
LEMMA ProcessInOrder ==
    ASSUME FateInv, OrderInv, processNext
    PROVE  OrderInv'
<1>1. TypeOK /\ ItemsCounted
  BY DEF FateInv, QueueInv
<1>2. UNCHANGED <<pendingRetryTimeouts, enqueued, delivered, abandoned, lost>>
  BY DEF processNext
<1>3. CASE queue = <<>>
  <2>1. UNCHANGED <<queue, sends>>
    BY <1>3 DEF processNext
  <2>2. QED BY <1>2, <2>1 DEF OrderInv, FirstSendsInOrder, UntriedInOrder, StandsFor,
                              RetriesAreLater, SettledWereTried
<1>4. CASE queue # <<>>
  <2>1. PICK item : item = Head(queue)
    OBVIOUS
  <2>2. queue' = Shifted /\ sends' = [sends EXCEPT ![item.mail] = @ + 1]
    BY <1>4, <2>1 DEF processNext
  <2>3. /\ Len(queue) \in Nat /\ DOMAIN queue = 1..Len(queue)
        /\ 1 \in DOMAIN queue /\ item = queue[1] /\ item \in Items
        /\ DOMAIN queue' = 1..(Len(queue) - 1)
        /\ \A p \in DOMAIN queue' : queue'[p] = queue[p + 1]
    BY <1>1, <1>4, <2>1, <2>2 DEF TypeOK, Shifted
  <2>4. item.mail \in Mail /\ item.attempt \in Nat /\ sends[item.mail] = item.attempt
    BY <1>1, <2>3 DEF ItemsCounted, Counted, Items, MAX_RETRIES
  <2>5. /\ sends'[item.mail] # 0
        /\ \A mail \in Mail : mail # item.mail => sends'[mail] = sends[mail]
    BY <1>1, <2>2, <2>4 DEF TypeOK
  <2>6. FirstSendsInOrder'
    <3>1. SUFFICES ASSUME NEW i \in DOMAIN enqueued, NEW j \in DOMAIN enqueued,
                          i < j, sends'[enqueued[j]] # 0
                   PROVE  sends'[enqueued[i]] # 0 \/ enqueued[i] \in lost
      BY <1>2 DEF FirstSendsInOrder
    <3>2. enqueued[i] \in Mail /\ enqueued[j] \in Mail
      BY <1>1 DEF TypeOK
    <3>3. CASE sends[enqueued[j]] # 0
      BY <2>5, <3>1, <3>2, <3>3 DEF OrderInv, FirstSendsInOrder
    <3>4. CASE sends[enqueued[j]] = 0 /\ sends[enqueued[i]] = 0 /\ enqueued[i] \notin lost
      <4>1. enqueued[j] = item.mail
        BY <2>5, <3>1, <3>2, <3>4
      <4>2. StandsFor(1, j)
        BY <2>3, <2>4, <3>4, <4>1 DEF StandsFor
      <4>3. PICK p \in DOMAIN queue : StandsFor(p, i)
        BY <3>4, UntriedStands
      <4>4. p < 1
        BY <2>3, <3>1, <4>2, <4>3 DEF OrderInv, UntriedInOrder
      <4>5. QED BY <2>3, <4>3, <4>4
    <3>5. CASE sends[enqueued[i]] # 0
      BY <2>5, <3>2, <3>5
    <3>6. QED BY <3>3, <3>4, <3>5
  <2>7. UntriedInOrder'
    <3>1. SUFFICES ASSUME NEW i \in DOMAIN enqueued, NEW j \in DOMAIN enqueued,
                          NEW p \in DOMAIN queue', NEW q \in DOMAIN queue',
                          i < j, StandsFor(p, i)', StandsFor(q, j)'
                   PROVE  p < q
      BY <1>2 DEF UntriedInOrder
    <3>2. p + 1 \in DOMAIN queue /\ q + 1 \in DOMAIN queue
      BY <2>3
    <3>3. StandsFor(p + 1, i) /\ StandsFor(q + 1, j)
      BY <1>2, <2>3, <3>1 DEF StandsFor
    <3>4. p + 1 < q + 1
      BY <3>1, <3>2, <3>3 DEF OrderInv, UntriedInOrder
    <3>5. QED BY <2>3, <3>4
  <2>8. SettledWereTried'
    BY <1>1, <1>2, <2>5 DEF OrderInv, SettledWereTried, TypeOK
  <2>9. QED BY <1>2, <2>6, <2>7, <2>8 DEF OrderInv, RetriesAreLater
<1>5. QED BY <1>3, <1>4

\* A mail that is being sent has been tried; its retry is not its first item.
LEMMA EndInOrder ==
    ASSUME FateInv, OrderInv, NEW item \in sending, sendResolves(item) \/ sendRejects(item)
    PROVE  OrderInv'
<1>1. UNCHANGED <<queue, enqueued, sends, lost>>
  BY DEF sendResolves, sendRejects
<1>2. item \in Items /\ Counted(item, 1)
  BY DEF FateInv, QueueInv, TypeOK, ItemsCounted
<1>3. sends[item.mail] # 0
  BY <1>2 DEF Counted, Items, MAX_RETRIES
<1>4. SettledWereTried'
  <2>1. delivered' \cup abandoned' \subseteq delivered \cup abandoned \cup {item.mail}
    BY DEF sendResolves, sendRejects
  <2>2. QED BY <1>1, <1>3, <2>1 DEF OrderInv, SettledWereTried
<1>5. RetriesAreLater'
  <2>1. pendingRetryTimeouts' \subseteq pendingRetryTimeouts \cup {Retried(item)}
    BY DEF sendResolves, sendRejects
  <2>2. Retried(item).attempt # 0
    BY <1>2 DEF Retried, Item, Items, MAX_RETRIES
  <2>3. QED BY <2>1, <2>2 DEF OrderInv, RetriesAreLater
<1>6. QED BY <1>1, <1>4, <1>5 DEF OrderInv, FirstSendsInOrder, UntriedInOrder, StandsFor

LEMMA RetryInOrder ==
    ASSUME FateInv, OrderInv, NEW item \in pendingRetryTimeouts, retryTimeout(item)
    PROVE  OrderInv'
<1>1. /\ queue' = Pushed(item)
      /\ pendingRetryTimeouts' = pendingRetryTimeouts \ {item}
      /\ UNCHANGED <<enqueued, sends, delivered, abandoned, lost>>
  BY DEF retryTimeout, history
<1>2. TypeOK /\ item \in Items /\ item.attempt # 0
  BY DEF FateInv, QueueInv, TypeOK, OrderInv, RetriesAreLater
<1>3. /\ Len(queue) \in Nat /\ DOMAIN queue = 1..Len(queue)
      /\ DOMAIN queue' = 1..(Len(queue) + 1)
      /\ queue'[Len(queue) + 1] = item
      /\ \A p \in DOMAIN queue : queue'[p] = queue[p]
  BY <1>1, <1>2, PushedFacts
<1>4. ASSUME NEW i \in DOMAIN enqueued, NEW p \in DOMAIN queue', StandsFor(p, i)'
      PROVE  p \in DOMAIN queue /\ StandsFor(p, i)
  BY <1>1, <1>2, <1>3, <1>4 DEF StandsFor
<1>5. UntriedInOrder'
  BY <1>1, <1>4 DEF OrderInv, UntriedInOrder
<1>6. QED BY <1>1, <1>5 DEF OrderInv, FirstSendsInOrder, RetriesAreLater, SettledWereTried

LEMMA EmptyingInOrder ==
    ASSUME OrderInv, resetInvitationMailQueue \/ Crash
    PROVE  OrderInv'
<1>1. /\ queue' = <<>> /\ pendingRetryTimeouts' = {} /\ lost \subseteq lost'
      /\ UNCHANGED <<enqueued, sends, delivered, abandoned>>
  BY DEF resetInvitationMailQueue, Crash
<1>2. DOMAIN queue' = {}
  BY <1>1
<1>3. QED BY <1>1, <1>2 DEF OrderInv, FirstSendsInOrder, UntriedInOrder, RetriesAreLater,
                            SettledWereTried

\* The first mail of an invitation is never sent before one that was handed over
\* earlier, unless that one is lost with the process or with a reset: retries
\* go to the end of the queue and take nobody's place (push and shift of
\* invitation-mail-queue.ts).
THEOREM NobodyIsOvertaken == Spec => []FirstSendsInOrder
<1>1. Init => OrderInv
  <2>1. SUFFICES ASSUME Init PROVE OrderInv
    OBVIOUS
  <2>2. DOMAIN enqueued = {} /\ pendingRetryTimeouts = {} /\ delivered = {} /\ abandoned = {}
    BY <2>1 DEF Init
  <2>3. QED BY <2>2 DEF OrderInv, FirstSendsInOrder, UntriedInOrder, RetriesAreLater,
                        SettledWereTried
<1>2. FateInv /\ OrderInv /\ [Next]_vars => OrderInv'
  <2>1. SUFFICES ASSUME FateInv, OrderInv, [Next]_vars PROVE OrderInv'
    OBVIOUS
  <2>2. CASE UNCHANGED vars
    BY <2>1, <2>2 DEF vars, queueVars, history, OrderInv, FirstSendsInOrder, UntriedInOrder,
                      StandsFor, RetriesAreLater, SettledWereTried
  <2>3. QED BY <2>1, <2>2, EnqueueInOrder, ProcessInOrder, EndInOrder, RetryInOrder,
               EmptyingInOrder DEF Next
<1>3. OrderInv => FirstSendsInOrder
  BY DEF OrderInv
<1>4. QED BY <1>1, <1>2, <1>3, FateInvHolds, PTL DEF Spec

=============================================================================
