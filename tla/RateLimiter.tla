---------------------------- MODULE RateLimiter ----------------------------
(***************************************************************************)
(* The rate limiter (lib/rate-limiter.ts) and the chains the routes build  *)
(* from it (routes/organizations.ts): a counter per organization, then one *)
(* per user, for every operation.                                          *)
(*                                                                         *)
(* All limiters share one Map.  A limiter looks at the clock once and does *)
(* its work without an await; the two of a chain run in one task, so no    *)
(* other request comes between them, but the clock may tick.               *)
(***************************************************************************)
EXTENDS Naturals, FiniteSets, Functions

CONSTANTS
    Organization, User,
    Operation,            \* what the routes limit: tickets:list, members:delete, ...
    LimitByOrganization,  \* maxRequests of the operation's first limiter
    LimitByUser,          \* maxRequests of the operation's second limiter
    WindowMs,             \* length of a window, the same for all limiters
    SweepThreshold,       \* SWEEP_THRESHOLD
    MaxTime,              \* bound on the clock of an instance
    NoRequest             \* no request is between the two limiters

ASSUME LimitAssumption ==
    /\ LimitByOrganization \in [Operation -> Nat \ {0}]
    /\ LimitByUser \in [Operation -> Nat \ {0}]
ASSUME TimeAssumption == WindowMs \in Nat \ {0} /\ MaxTime \in Nat
ASSUME SweepAssumption == SweepThreshold \in Nat

VARIABLES
    now,       \* Date.now()
    store,     \* the Map, from some of the keys to entries
    handling,  \* the request in the chain of limiters, if any
    recent     \* history: the requests each key has counted lately

vars == <<now, store, handling, recent>>

-----------------------------------------------------------------------------
(***************************************************************************)
(* Keys, limits and the chain of a route.                                  *)
(***************************************************************************)
OrganizationKey == [scope : {"organization"}, id : Organization, operation : Operation]

UserKey == [scope : {"user"}, id : User, operation : Operation]

Key == OrganizationKey \cup UserKey

MaxRequests(key) ==
    IF key.scope = "organization" THEN LimitByOrganization[key.operation]
                                  ELSE LimitByUser[key.operation]

Chained == [scope : {"organization", "user"},
            organization : Organization, user : User, operation : Operation]

\* The keyGenerator of the limiter whose turn it is.
KeyOf(request) ==
    [scope |-> request.scope,
     id |-> IF request.scope = "organization" THEN request.organization ELSE request.user,
     operation |-> request.operation]

\* Once the limiter has called next().
Onward(request) ==
    IF request.scope = "organization" THEN [request EXCEPT !.scope = "user"] ELSE NoRequest

-----------------------------------------------------------------------------
(***************************************************************************)
(* The Map.                                                                *)
(***************************************************************************)
Entry == [count : Nat \ {0}, resetAt : Nat]

\* Plausible slip: an entry still counts at the very end of its window.
Live_AtTheEnd(key) == key \in DOMAIN store /\ store[key].resetAt >= now

Live(key) == key \in DOMAIN store /\ store[key].resetAt > now

\* Plausible slip: the comparison is turned around.
Swept_StillOpen == Restrict(store, {key \in DOMAIN store : ~ (store[key].resetAt > now)})

\* sweepExpiredRateLimitEntries.
Swept == Restrict(store, {key \in DOMAIN store : ~ (store[key].resetAt <= now)})

Tidied == IF Cardinality(DOMAIN store) > SweepThreshold THEN Swept ELSE store

Put(map, key, entry) ==
    [k \in DOMAIN map \cup {key} |-> IF k = key THEN entry ELSE map[k]]

\* Plausible slip: every request moves the end of the window.
Counted_Sliding(key) ==
    IF Live(key) THEN [count |-> store[key].count + 1, resetAt |-> now + WindowMs]
    ELSE [count |-> 1, resetAt |-> now + WindowMs]

Counted(key) ==
    IF Live(key) THEN [store[key] EXCEPT !.count = @ + 1]
    ELSE [count |-> 1, resetAt |-> now + WindowMs]

Exhausted(key) == Live(key) /\ store[key].count >= MaxRequests(key)

-----------------------------------------------------------------------------
(***************************************************************************)
(* Steps.                                                                  *)
(***************************************************************************)
Arrive(organization, user, operation) ==
    /\ handling = NoRequest
    /\ handling' = [scope |-> "organization", organization |-> organization,
                    user |-> user, operation |-> operation]
    /\ UNCHANGED <<now, store, recent>>

\* One request, told from the others of the same millisecond.
NextRequest(key) ==
    [at |-> now, nth |-> Cardinality({counted \in recent[key] : counted.at = now})]

NothingRecent == [key \in Key |-> {}]

CountAndGoOn ==
    /\ handling # NoRequest
    /\ LET key == KeyOf(handling)
       IN /\ ~ Exhausted(key)
          /\ store' = Put(Tidied, key, Counted(key))
          /\ recent' = [recent EXCEPT ![key] = @ \cup {NextRequest(key)}]
    /\ handling' = Onward(handling)
    /\ UNCHANGED now

\* 429: the limiters after this one are not asked.
Refuse ==
    /\ handling # NoRequest
    /\ Exhausted(KeyOf(handling))
    /\ store' = Tidied
    /\ handling' = NoRequest
    /\ UNCHANGED <<now, recent>>

Tick ==
    /\ now < MaxTime
    /\ now' = now + 1
    /\ recent' = [key \in Key |-> {counted \in recent[key] : counted.at + WindowMs > now'}]
    /\ UNCHANGED <<store, handling>>

\* The process dies, or resetRateLimit is called: the Map is empty again.
Restart ==
    /\ store' = [key \in {} |-> [count |-> 1, resetAt |-> 0]]
    /\ recent' = NothingRecent
    /\ handling' = NoRequest
    /\ UNCHANGED now

Init ==
    /\ now = 0
    /\ store = [key \in {} |-> [count |-> 1, resetAt |-> 0]]
    /\ handling = NoRequest
    /\ recent = NothingRecent

Next ==
    \/ \E organization \in Organization, user \in User, operation \in Operation :
          Arrive(organization, user, operation)
    \/ CountAndGoOn
    \/ Refuse
    \/ Tick
    \/ Restart

Spec == Init /\ [][Next]_vars

-----------------------------------------------------------------------------
(***************************************************************************)
(* Properties.                                                             *)
(***************************************************************************)
\* The Map holds well-formed entries whose windows are no longer than
\* WindowMs and no fuller than the limit of their key.
TypeOK ==
    /\ now \in 0 .. MaxTime
    /\ DOMAIN store \subseteq Key
    /\ \A key \in DOMAIN store :
          /\ store[key] \in Entry
          /\ store[key].resetAt <= now + WindowMs
          /\ store[key].count <= MaxRequests(key)
    /\ handling \in Chained \cup {NoRequest}
    /\ recent \in [Key -> SUBSET [at : 0 .. MaxTime, nth : Nat]]
    /\ \A key \in Key : IsFiniteSet(recent[key])

RecentlyCounted(key) == Cardinality(recent[key])

\* However requests fall around the boundaries of windows, fewer than twice
\* the limit of a key are counted in any WindowMs milliseconds: a window opens
\* with a request, so no such stretch holds two full ones.
LessThanTwiceTheLimit ==
    \A key \in Key : RecentlyCounted(key) < 2 * MaxRequests(key)

\* A request is refused only when the key has counted its full limit within
\* the last WindowMs milliseconds: no entry that is over is held against
\* anybody.
RefusalsAreDeserved ==
    \A key \in Key : Exhausted(key) => RecentlyCounted(key) >= MaxRequests(key)

\* The Map, with entries that are over still in it or swept at any time, is
\* indistinguishable from windows that close on their own.
Windows == INSTANCE FixedWindow WITH
    window <- [key \in Key |-> IF Live(key) THEN store[key] ELSE [count |-> 0, resetAt |-> 0]]

ImplementsFixedWindow == Windows!WindowSpec

=============================================================================
