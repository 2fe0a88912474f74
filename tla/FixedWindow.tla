---------------------------- MODULE FixedWindow ----------------------------
(***************************************************************************)
(* What the rate limiter promises (lib/rate-limiter.ts): every key has a   *)
(* window of fixed length that opens with the first request counted, lets  *)
(* a fixed number of requests in, and closes by itself at its end.  This   *)
(* says nothing about entries that stay behind or are swept.               *)
(***************************************************************************)
EXTENDS Naturals

CONSTANTS
    Key,
    MaxRequests(_),  \* requests let in per window, by key
    WindowMs         \* length of a window

VARIABLES
    now,     \* the time, in milliseconds
    window   \* the window of every key, Closed or open

windowVars == <<now, window>>

Closed == [count |-> 0, resetAt |-> 0]

WindowTypeOK ==
    /\ now \in Nat
    /\ window \in [Key -> [count : Nat, resetAt : Nat]]

Open(key) ==
    /\ window[key] = Closed
    /\ window' = [window EXCEPT ![key] = [count |-> 1, resetAt |-> now + WindowMs]]
    /\ UNCHANGED now

LetIn(key) ==
    /\ window[key] # Closed
    /\ window[key].count < MaxRequests(key)
    /\ window' = [window EXCEPT ![key] =
                     [count |-> window[key].count + 1, resetAt |-> window[key].resetAt]]
    /\ UNCHANGED now

\* Time passes, and the windows that have come to their end close.
Pass ==
    /\ now' = now + 1
    /\ window' = [key \in Key |-> IF window[key].resetAt > now' THEN window[key] ELSE Closed]

\* The process starts again and has forgotten every window.
Forget ==
    /\ window' = [key \in Key |-> Closed]
    /\ UNCHANGED now

WindowInit ==
    /\ now = 0
    /\ window = [key \in Key |-> Closed]

WindowNext == Pass \/ Forget \/ \E key \in Key : Open(key) \/ LetIn(key)

WindowSpec == WindowInit /\ [][WindowNext]_windowVars

=============================================================================
