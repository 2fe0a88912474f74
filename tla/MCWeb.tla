------------------------------- MODULE MCWeb --------------------------------
(***************************************************************************)
(* One instance for TLC of two parts of the web client that neither share  *)
(* state nor call each other: a behaviour is about one of them, the other  *)
(* stands still in an initial state in which it has nothing to do.         *)
(* It is the instance for liveness; MCStandalone has the gate with one call *)
(* more, for safety.                                                       *)
(***************************************************************************)
EXTENDS TicketList, OrganizationGate

CONSTANTS f1, f2, a1, a2

MCFilter == {f1, f2}

MCAccount == {a1, a2}

-----------------------------------------------------------------------------
VARIABLE part  \* what this behaviour is about

\* Nothing to fetch, and no effect is due.
ListAtRest ==
    /\ page = 1 /\ filter = f1 /\ enabled = FALSE
    /\ requestedPage = 1 /\ retryKey = 0
    /\ result = None /\ error = None /\ isFetching = FALSE
    /\ requests = <<>>
    /\ ran = Render

\* At the login, and the effect has run.
GateAtRest ==
    /\ account = Nobody /\ route = "login" /\ ranFor = FALSE
    /\ wanted = 0 /\ state = Ready(Nobody, FALSE)
    /\ calls = <<>> /\ stored = Nobody /\ refreshing = Nobody
    /\ belongs = {} /\ created = {}

PartInit ==
    \/ part = "list" /\ Init /\ GateAtRest
    \/ part = "gate" /\ GateInit /\ ListAtRest

PartNext ==
    \/ part = "list" /\ Next /\ UNCHANGED <<gateVars, part>>
    \/ part = "gate" /\ GateNext /\ UNCHANGED <<vars, part>>

PartSpec == /\ PartInit /\ [][PartNext]_<<vars, gateVars, part>>
            /\ Fairness /\ GateFairness

=============================================================================
