---------------------------- MODULE MailDelivery ----------------------------
(***************************************************************************)
(* What the invitation mail queue promises (lib/invitation-mail-queue.ts): *)
(* every mail it takes is tried until it is delivered, at most once per    *)
(* attempt allowed, and is given up only when every attempt has failed.    *)
(* The promise is void when the process dies or the queue is reset.  This  *)
(* says nothing about queues, timers or flags.                             *)
(***************************************************************************)
EXTENDS Naturals

CONSTANTS
    Mail,
    Attempts  \* number of times a mail is tried before it is given up

VARIABLES
    status,  \* what has become of each mail
    tries    \* number of sends of each mail that have ended

deliveryVars == <<status, tries>>

Status == {"new", "taken", "delivered", "abandoned", "lost"}

DeliveryTypeOK ==
    /\ status \in [Mail -> Status]
    /\ tries \in [Mail -> 0..Attempts]

Take(mail) ==
    /\ status[mail] = "new"
    /\ status' = [status EXCEPT ![mail] = "taken"]
    /\ UNCHANGED tries

Deliver(mail) ==
    /\ status[mail] = "taken"
    /\ tries[mail] < Attempts
    /\ tries' = [tries EXCEPT ![mail] = @ + 1]
    /\ status' = [status EXCEPT ![mail] = "delivered"]

Fail(mail) ==
    /\ status[mail] = "taken"
    /\ tries[mail] < Attempts
    /\ tries' = [tries EXCEPT ![mail] = @ + 1]
    /\ status' = [status EXCEPT ![mail] =
                     IF tries[mail] + 1 = Attempts THEN "abandoned" ELSE "taken"]

Lose(mails) ==
    /\ \A mail \in mails : status[mail] = "taken"
    /\ status' = [mail \in Mail |-> IF mail \in mails THEN "lost" ELSE status[mail]]
    /\ UNCHANGED tries

DeliveryInit ==
    /\ status = [mail \in Mail |-> "new"]
    /\ tries = [mail \in Mail |-> 0]

DeliveryNext ==
    \/ \E mail \in Mail : Take(mail) \/ Deliver(mail) \/ Fail(mail)
    \/ \E mails \in SUBSET Mail : Lose(mails)

DeliverySafety == DeliveryInit /\ [][DeliveryNext]_deliveryVars

DeliverySpec ==
    /\ DeliverySafety
    /\ \A mail \in Mail : WF_deliveryVars(Deliver(mail) \/ Fail(mail))

\* Every mail taken is settled in the end.
EveryMailSettled ==
    \A mail \in Mail :
        status[mail] = "taken" ~> status[mail] \in {"delivered", "abandoned", "lost"}

=============================================================================
