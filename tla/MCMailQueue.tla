---------------------------- MODULE MCMailQueue ----------------------------
(***************************************************************************)
(* Instance of MailQueue for TLC: with three mails one can be sent while   *)
(* another waits for its retry and a third stands in the queue.            *)
(***************************************************************************)
EXTENDS MailQueue

=============================================================================
