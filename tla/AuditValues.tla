---------------------------- MODULE AuditValues ----------------------------
(***************************************************************************)
(* What createAuditLog lets into the log (domain/audit-log.ts): the values *)
(* of an entry are nested at most MAX_JSON_DEPTH levels, without cycles.   *)
(* Both searches give up at the limit, so that each relies on the other.   *)
(*                                                                         *)
(* A value is a graph: the objects and arrays, and what each contains.     *)
(* Anything that is neither contains nothing.                              *)
(***************************************************************************)
EXTENDS Naturals, Sequences, SequencesExt, FiniteSetsExt

CONSTANTS
    Node,
    Root,          \* the object that is logged
    MaxJsonDepth   \* MAX_JSON_DEPTH

ASSUME AuditValuesAssumption == Root \in Node /\ MaxJsonDepth \in Nat

VARIABLES
    children,  \* what each object or array contains
    large,     \* are there more than MAX_JSON_BYTES of it as JSON?
    verdict    \* of the schema

valuesVars == <<children, large, verdict>>

Values(node) == children[node]

-----------------------------------------------------------------------------
(***************************************************************************)
(* The searches.                                                           *)
(***************************************************************************)
\* Plausible slip: the searches stop at the limit, not past it.
PastLimit_AtLimit(depth) == depth >= MaxJsonDepth

\* Where both searches give up.
PastLimit(depth) == depth > MaxJsonDepth

\* The loop over the children stops at the first that exceeds the limit; which
\* one makes no difference to the comparison.
getMaxDepth[currentDepth \in 0 .. MaxJsonDepth + 1] ==
    [node \in Node |->
        IF PastLimit(currentDepth) THEN currentDepth
        ELSE Max({currentDepth} \cup {getMaxDepth[currentDepth + 1][child] : child \in Values(node)})]

\* What a search has on its stack: it is given up when there is more.
Stacks == UNION {[1 .. size -> Node] : size \in 0 .. MaxJsonDepth + 1}

hasCircularReference[stack \in Stacks] ==
    [node \in Node |->
        /\ ~PastLimit(Len(stack))
        /\ \/ node \in ToSet(stack)
           \/ \E child \in Values(node) : hasCircularReference[Append(stack, node)][child]]

-----------------------------------------------------------------------------
(***************************************************************************)
(* The schema: a cycle ends the checks, the other two are both made.       *)
(***************************************************************************)
RejectCircular ==
    /\ verdict = "none"
    /\ hasCircularReference[<<>>][Root]
    /\ verdict' = "circular"
    /\ UNCHANGED <<children, large>>

RejectDeep ==
    /\ verdict = "none"
    /\ ~hasCircularReference[<<>>][Root]
    /\ getMaxDepth[0][Root] > MaxJsonDepth
    /\ verdict' = "deep"
    /\ UNCHANGED <<children, large>>

RejectLarge ==
    /\ verdict = "none"
    /\ ~hasCircularReference[<<>>][Root]
    /\ getMaxDepth[0][Root] <= MaxJsonDepth
    /\ large
    /\ verdict' = "large"
    /\ UNCHANGED <<children, large>>

AcceptValues ==
    /\ verdict = "none"
    /\ ~hasCircularReference[<<>>][Root]
    /\ getMaxDepth[0][Root] <= MaxJsonDepth
    /\ ~large
    /\ verdict' = "accepted"
    /\ UNCHANGED <<children, large>>

ValuesInit ==
    /\ children \in [Node -> SUBSET Node]
    /\ large \in BOOLEAN
    /\ verdict = "none"

ValuesNext == RejectCircular \/ RejectDeep \/ RejectLarge \/ AcceptValues

ValuesSpec == ValuesInit /\ [][ValuesNext]_valuesVars

-----------------------------------------------------------------------------
(***************************************************************************)
(* Properties.                                                             *)
(***************************************************************************)

\* The nodes at the end of a walk of so many levels from the root.
Level[n \in 0 .. MaxJsonDepth + 1] ==
    IF n = 0 THEN {Root} ELSE UNION {children[node] : node \in Level[n - 1]}

Bounded == Level[MaxJsonDepth + 1] = {}

\* What can be reached from a node in at least one level and at most n + 1.
Below[n \in 0 .. MaxJsonDepth] ==
    [node \in Node |->
        IF n = 0 THEN children[node]
        ELSE Below[n - 1][node] \cup UNION {children[below] : below \in Below[n - 1][node]}]

\* An entry is let in exactly if no walk from its root is longer than the
\* limit -- so it is finite, although neither search looks past the limit --
\* and it is small enough.  One object in two places is no cycle, and what is
\* called circular has a cycle.
AcceptsBoundedTrees ==
    /\ verdict = "accepted" => Bounded /\ ~large
    /\ verdict \in {"circular", "deep"} => ~Bounded
    /\ verdict = "large" => large
    /\ verdict = "circular" => \E node \in Node : node \in Below[MaxJsonDepth][node]

=============================================================================
