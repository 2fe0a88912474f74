--------------------------- MODULE PendingSubmit ---------------------------
(***************************************************************************)
(* The hook that keeps a form from being submitted twice                   *)
(* (components/feedback/use-pending-submit.ts).  `execute' returns the     *)
(* promise of the run that is pending, or starts one.  An action returns a *)
(* promise or a value, either of which settles later, or it throws.        *)
(*                                                                         *)
(* A form that is shown again has a new hook.  (In StrictMode the effect   *)
(* is also cleaned up and run again on the same refs, but before anything  *)
(* is called: no state comes of it.)                                       *)
(***************************************************************************)
EXTENDS Naturals, Sequences, FiniteSets

CONSTANTS
    MaxRuns,  \* bound on the runs of an instance
    None

ASSUME PendingSubmitAssumption == MaxRuns \in Nat /\ None \notin Nat

VARIABLES
    pendingRef,  \* the run whose promise the hook holds
    isPending, error,
    isMounted,
    runs,        \* history: how each run of the action stands; "left" if it is
                 \*          still under way and was started by an earlier hook
    last         \* history: what has just been called

submitVars == <<pendingRef, isPending, error, isMounted, runs, last>>

\* The runs of the present hook that are under way.
Running == {n \in DOMAIN runs : runs[n] = "running"}

-----------------------------------------------------------------------------
\* setState of a component that is there.
SetIfMounted(old, new) == IF isMounted THEN new ELSE old

\* Plausible slip: a disabled button is trusted to prevent the second call.
MayStart_Always == TRUE

MayStart == pendingRef = None

\* A further call while one is pending gets the same promise.
ExecuteAgain ==
    /\ ~MayStart
    /\ last' = "execute"
    /\ UNCHANGED <<pendingRef, isPending, error, isMounted, runs>>

Execute ==
    /\ MayStart
    /\ Len(runs) < MaxRuns
    /\ runs' = Append(runs, "running")
    /\ pendingRef' = Len(runs')
    /\ error' = None
    /\ isPending' = TRUE
    /\ last' = "execute"
    /\ UNCHANGED isMounted

\* The action throws before it returns anything: the `finally' finds that
\* neither pendingRef nor currentPromise has been assigned yet, and the
\* assignments come after it.
ExecuteThrows ==
    /\ MayStart
    /\ Len(runs) < MaxRuns
    /\ runs' = Append(runs, "failed")
    /\ pendingRef' = Len(runs')
    /\ error' = SetIfMounted(None, Len(runs'))
    /\ isPending' = SetIfMounted(TRUE, FALSE)
    /\ last' = "execute"
    /\ UNCHANGED isMounted

Settle(n, outcome) ==
    /\ runs[n] = "running"
    /\ runs' = [runs EXCEPT ![n] = outcome]
    /\ error' = IF outcome = "failed" THEN SetIfMounted(error, n) ELSE error
    /\ pendingRef' = IF pendingRef = n THEN None ELSE pendingRef
    /\ isPending' = IF pendingRef = n THEN SetIfMounted(isPending, FALSE) ELSE isPending
    /\ last' = "settle"
    /\ UNCHANGED isMounted

\* Plausible slip: a reset makes way for a new run.
KeptByReset_Nothing == None

\* What a reset leaves: it does nothing while a promise is held.
KeptByReset == pendingRef

reset ==
    /\ last' = "reset"
    /\ pendingRef' = KeptByReset
    /\ error' = IF pendingRef = None THEN SetIfMounted(error, None) ELSE error
    /\ isPending' = IF pendingRef = None THEN SetIfMounted(isPending, FALSE) ELSE isPending
    /\ UNCHANGED <<isMounted, runs>>

Unmount ==
    /\ isMounted
    /\ isMounted' = FALSE
    /\ last' = "unmount"
    /\ UNCHANGED <<pendingRef, isPending, error, runs>>

\* A new hook: what the one before has started goes on with the old refs.
Mount ==
    /\ ~isMounted
    /\ isMounted' = TRUE
    /\ pendingRef' = None
    /\ isPending' = FALSE
    /\ error' = None
    /\ runs' = [n \in DOMAIN runs |-> IF runs[n] = "running" THEN "left" ELSE runs[n]]
    /\ last' = "mount"

SettleLeft(n, outcome) ==
    /\ runs[n] = "left"
    /\ runs' = [runs EXCEPT ![n] = outcome]
    /\ last' = "settle"
    /\ UNCHANGED <<pendingRef, isPending, error, isMounted>>

-----------------------------------------------------------------------------
SubmitInit ==
    /\ pendingRef = None
    /\ isPending = FALSE
    /\ error = None
    /\ isMounted = TRUE
    /\ runs = <<>>
    /\ last = "none"

SubmitNext ==
    \/ ExecuteAgain \/ Execute \/ ExecuteThrows
    \/ \E n \in DOMAIN runs, outcome \in {"succeeded", "failed"} :
           Settle(n, outcome) \/ SettleLeft(n, outcome)
    \/ reset
    \/ Unmount \/ Mount

SubmitSpec == SubmitInit /\ [][SubmitNext]_submitVars

-----------------------------------------------------------------------------
(***************************************************************************)
(* Properties.                                                             *)
(***************************************************************************)

\* Whatever is called in whatever order, resets and runs that have failed
\* included, no two runs of one hook overlap, and a form on display is disabled
\* exactly while one of its own is under way.  (Leaving the form and coming back
\* while a run is under way does start a second one: the new hook knows nothing
\* of it.)
OneSubmissionAtATime ==
    /\ Cardinality(Running) <= 1
    /\ isMounted => isPending = (Running # {})

\* What the test of reset says of every action the type admits: a reset with
\* nothing under way leaves neither an error nor a pending state.
ResetClears ==
    last = "reset" /\ Running = {} /\ isMounted => error = None /\ ~isPending

=============================================================================
