---------------------------- MODULE MCStandalone ----------------------------
(***************************************************************************)
(* One instance for TLC of five parts that neither share state nor call    *)
(* each other: a behaviour is about one of them, the others stand still.   *)
(* The limiters have two users of one organization, who share its counter, *)
(* and two counters are enough for a sweep.                                *)
(***************************************************************************)
EXTENDS RateLimiter, Dashboard, AuditValues, PendingSubmit, OrganizationGate

CONSTANTS t1, t2, root, a, b, c, a1, a2

MCLimitByOrganization == [operation \in Operation |-> 3]

MCLimitByUser == [operation \in Operation |-> 2]

MCTicket == {t1, t2}

MCNode == {root, a, b, c}

MCAccount == {a1, a2}

-----------------------------------------------------------------------------
VARIABLE part  \* what this behaviour is about

\* The objects below the root are alike: one order of them stands for all.
Size(node) == Cardinality(children[node])

OneGraph ==
    \/ part = "values" /\ ValuesInit /\ Size(a) <= Size(b) /\ Size(b) <= Size(c)
    \/ part # "values" /\ children = [node \in Node |-> {}] /\ large = FALSE /\ verdict = "none"

OneGate == GateInit /\ (part = "gate" \/ (route = "login" /\ belongs = {}))

PartInit ==
    /\ part \in {"limiter", "dashboard", "values", "submit", "gate"}
    /\ Init /\ DashboardInit /\ OneGraph /\ SubmitInit /\ OneGate

PartNext ==
    /\ UNCHANGED part
    /\ \/ part = "limiter" /\ Next
          /\ UNCHANGED <<dashboardVars, valuesVars, submitVars, gateVars>>
       \/ part = "dashboard" /\ DashboardNext
          /\ UNCHANGED <<vars, valuesVars, submitVars, gateVars>>
       \/ part = "values" /\ ValuesNext
          /\ UNCHANGED <<vars, dashboardVars, submitVars, gateVars>>
       \/ part = "submit" /\ SubmitNext
          /\ UNCHANGED <<vars, dashboardVars, valuesVars, gateVars>>
       \/ part = "gate" /\ GateNext
          /\ UNCHANGED <<vars, dashboardVars, valuesVars, submitVars>>

PartSpec ==
    PartInit /\ [][PartNext]_<<vars, dashboardVars, valuesVars, submitVars, gateVars, part>>

=============================================================================
