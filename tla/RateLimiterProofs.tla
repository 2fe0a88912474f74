------------------------- MODULE RateLimiterProofs -------------------------
(***************************************************************************)
(* Proofs about RateLimiter: the entries of the Map are well typed and     *)
(* never fuller than their limit, the Map with its lazy sweep is           *)
(* indistinguishable from windows that close by themselves, no stretch of  *)
(* the length of a window holds twice a limit, and whoever is refused has  *)
(* used a full one up.                                                     *)
(***************************************************************************)
EXTENDS RateLimiter, FiniteSetTheorems, TLAPS

\* The key of a request is a key, and its limit is positive.
LEMMA KeysAreKeys ==
    ASSUME NEW request \in Chained
    PROVE  /\ KeyOf(request) \in Key
           /\ Onward(request) \in Chained \cup {NoRequest}
  <1>1. CASE request.scope = "organization"
    BY <1>1 DEF Chained, KeyOf, Onward, Key, OrganizationKey, UserKey
  <1>2. CASE request.scope = "user"
    BY <1>2 DEF Chained, KeyOf, Onward, Key, OrganizationKey, UserKey
  <1>3. QED BY <1>1, <1>2 DEF Chained

\* Every limit is a positive number.
LEMMA LimitsArePositive ==
    ASSUME NEW key \in Key
    PROVE  MaxRequests(key) \in Nat \ {0}
  BY LimitAssumption DEF Key, OrganizationKey, UserKey, MaxRequests

\* The sweep keeps the entries whose window is open and changes none.
LEMMA SweepKeepsOpenWindows ==
    ASSUME TypeOK
    PROVE  /\ DOMAIN Tidied \subseteq DOMAIN store
           /\ \A key \in DOMAIN Tidied : Tidied[key] = store[key]
           /\ \A key \in DOMAIN store : Live(key) => key \in DOMAIN Tidied
  <1>1. CASE Tidied = store
    BY <1>1
  <1>2. CASE Tidied = Swept
    <2>1. DOMAIN Swept = {key \in DOMAIN store : ~ (store[key].resetAt <= now)}
      BY DEF Swept, Restrict
    <2>2. \A key \in DOMAIN Swept : Swept[key] = store[key]
      BY DEF Swept, Restrict
    <2>3. ASSUME NEW key \in DOMAIN store, Live(key)
          PROVE  ~ (store[key].resetAt <= now)
      BY <2>3, TimeAssumption DEF TypeOK, Live, Entry
    <2>4. QED BY <1>2, <2>1, <2>2, <2>3
  <1>3. QED BY <1>1, <1>2 DEF Tidied

\* What a limiter writes for a key is open, typed and within the limit.
LEMMA CountedIsOpen ==
    ASSUME TypeOK, NEW key \in Key, ~ Exhausted(key)
    PROVE  /\ Counted(key) \in Entry
           /\ Counted(key).resetAt > now
           /\ Counted(key).resetAt <= now + WindowMs
           /\ Counted(key).count <= MaxRequests(key)
           /\ Live(key) => /\ Counted(key).resetAt = store[key].resetAt
                           /\ Counted(key).count = store[key].count + 1
                           /\ store[key].count < MaxRequests(key)
           /\ ~ Live(key) => Counted(key) = [count |-> 1, resetAt |-> now + WindowMs]
  <1>1. MaxRequests(key) \in Nat \ {0} /\ now \in Nat
    BY LimitsArePositive, TimeAssumption DEF TypeOK
  <1>2. CASE Live(key)
    <2>1. store[key] \in Entry /\ store[key].resetAt <= now + WindowMs
      BY <1>2 DEF TypeOK, Live
    <2>2. Counted(key) = [store[key] EXCEPT !.count = store[key].count + 1]
      BY <1>2 DEF Counted
    <2>3. Counted(key) = [count |-> store[key].count + 1, resetAt |-> store[key].resetAt]
      BY <2>1, <2>2 DEF Entry
    <2>4. store[key].resetAt > now /\ ~ (store[key].count >= MaxRequests(key))
      BY <1>2 DEF Exhausted, Live
    <2>5. store[key].count \in Nat /\ store[key].resetAt \in Nat
      BY <2>1 DEF Entry
    <2>6. QED BY <1>1, <1>2, <2>1, <2>3, <2>4, <2>5 DEF Entry
  <1>3. CASE ~ Live(key)
    BY <1>1, <1>3, TimeAssumption DEF Counted, Entry
  <1>4. QED BY <1>2, <1>3

-----------------------------------------------------------------------------
(***************************************************************************)
(* Types.                                                                  *)
(***************************************************************************)
LEMMA TypesKeptByCounting ==
    ASSUME TypeOK, CountAndGoOn
    PROVE  TypeOK'
  <1> DEFINE key == KeyOf(handling)
  <1>1. handling \in Chained /\ key \in Key /\ handling' \in Chained \cup {NoRequest}
    BY KeysAreKeys DEF TypeOK, CountAndGoOn
  <1>2. ~ Exhausted(key) /\ store' = Put(Tidied, key, Counted(key)) /\ now' = now
    BY DEF CountAndGoOn
  <1>3. /\ Counted(key) \in Entry
        /\ Counted(key).resetAt <= now + WindowMs
        /\ Counted(key).count <= MaxRequests(key)
    BY <1>1, <1>2, CountedIsOpen
  <1>4. /\ DOMAIN store' = DOMAIN Tidied \cup {key}
        /\ store'[key] = Counted(key)
        /\ \A k \in DOMAIN Tidied : k # key => store'[k] = Tidied[k]
    BY <1>2 DEF Put
  <1>5. /\ recent' \in [Key -> SUBSET [at : 0 .. MaxTime, nth : Nat]]
        /\ \A k \in Key : IsFiniteSet(recent[k])'
    <2>1. recent' = [recent EXCEPT ![key] = recent[key] \cup {NextRequest(key)}]
      BY DEF CountAndGoOn
    <2>2. NextRequest(key) \in [at : 0 .. MaxTime, nth : Nat]
      <3>1. IsFiniteSet({counted \in recent[key] : counted.at = now})
        BY <1>1, FS_Subset DEF TypeOK
      <3>2. QED BY <3>1, FS_CardinalityType DEF TypeOK, NextRequest
    <2>3. IsFiniteSet(recent[key] \cup {NextRequest(key)})
      BY <1>1, FS_AddElement DEF TypeOK
    <2>4. QED BY <1>1, <2>1, <2>2, <2>3 DEF TypeOK
  <1>6. QED
    <2>1. ASSUME NEW k \in DOMAIN store'
          PROVE  /\ store'[k] \in Entry
                 /\ store'[k].resetAt <= now + WindowMs
                 /\ store'[k].count <= MaxRequests(k)
      <3>1. CASE k = key
        BY <1>3, <1>4, <3>1
      <3>2. CASE k # key
        <4>1. k \in DOMAIN store /\ store'[k] = store[k]
          BY <1>4, <3>2, SweepKeepsOpenWindows
        <4>2. QED BY <4>1 DEF TypeOK
      <3>3. QED BY <3>1, <3>2
    <2>2. DOMAIN store' \subseteq Key
      BY <1>1, <1>4, SweepKeepsOpenWindows DEF TypeOK
    <2>3. \A k \in DOMAIN store' : MaxRequests(k)' = MaxRequests(k)
      BY DEF MaxRequests
    <2>4. QED BY <1>1, <1>2, <1>5, <2>1, <2>2 DEF TypeOK, MaxRequests

LEMMA TypesKeptByRefusing ==
    ASSUME TypeOK, Refuse
    PROVE  TypeOK'
  BY SweepKeepsOpenWindows DEF TypeOK, Refuse, MaxRequests

LEMMA TypesKeptByTime ==
    ASSUME TypeOK, Tick
    PROVE  TypeOK'
  <1>1. now' \in 0 .. MaxTime /\ now' = now + 1 /\ now \in Nat
    BY TimeAssumption DEF TypeOK, Tick
  <1>2. /\ recent' \in [Key -> SUBSET [at : 0 .. MaxTime, nth : Nat]]
        /\ \A key \in Key : IsFiniteSet(recent[key])'
    <2>1. ASSUME NEW key \in Key
          PROVE  recent'[key] \subseteq recent[key] /\ IsFiniteSet(recent'[key])
      BY FS_Subset DEF TypeOK, Tick
    <2>2. QED BY <2>1 DEF TypeOK, Tick
  <1>3. \A key \in DOMAIN store : store[key].resetAt <= now' + WindowMs
    BY <1>1, TimeAssumption DEF TypeOK, Entry
  <1>4. QED BY <1>1, <1>2, <1>3 DEF TypeOK, Tick, MaxRequests

LEMMA TypesKeptByRestart ==
    ASSUME TypeOK, Restart
    PROVE  TypeOK'
  <1>1. /\ NothingRecent \in [Key -> SUBSET [at : 0 .. MaxTime, nth : Nat]]
        /\ \A key \in Key : IsFiniteSet(NothingRecent[key])
    BY FS_EmptySet DEF NothingRecent
  <1>2. QED BY <1>1 DEF TypeOK, Restart

LEMMA TypesKept ==
    ASSUME TypeOK, [Next]_vars
    PROVE  TypeOK'
  <1>1. ASSUME NEW organization \in Organization, NEW user \in User,
               NEW operation \in Operation, Arrive(organization, user, operation)
        PROVE  TypeOK'
    BY <1>1 DEF TypeOK, Arrive, Chained, MaxRequests
  <1>2. CASE UNCHANGED vars
    BY <1>2 DEF TypeOK, vars, MaxRequests
  <1>3. QED
    BY <1>1, <1>2, TypesKeptByCounting, TypesKeptByRefusing, TypesKeptByTime,
       TypesKeptByRestart DEF Next

LEMMA TypesInit ==
    ASSUME Init
    PROVE  TypeOK
  <1>1. /\ NothingRecent \in [Key -> SUBSET [at : 0 .. MaxTime, nth : Nat]]
        /\ \A key \in Key : IsFiniteSet(NothingRecent[key])
    BY FS_EmptySet DEF NothingRecent
  <1>2. QED BY <1>1, TimeAssumption DEF TypeOK, Init

\* For any limits, keys and window length, no entry ever counts more requests
\* than its limit or lasts longer than a window (rateLimitMiddleware).
THEOREM EntriesTyped == Spec => []TypeOK
  BY TypesInit, TypesKept, PTL DEF Spec

-----------------------------------------------------------------------------
(***************************************************************************)
(* The bound over any stretch of time.  What a key has counted in the last *)
(* WindowMs milliseconds belongs to the window that is open or to the one  *)
(* before it.  The one before has lost at least its first request, which   *)
(* opened it WindowMs before its end.                                      *)
(***************************************************************************)
InWindow(key) == {counted \in recent[key] : counted.at + WindowMs >= store[key].resetAt}

BeforeWindow(key) == {counted \in recent[key] : ~ (counted.at + WindowMs >= store[key].resetAt)}

CountedNow(key) == {counted \in recent[key] : counted.at = now}

OpenWindow(key) ==
    /\ Cardinality(InWindow(key)) = store[key].count
    /\ Cardinality(BeforeWindow(key)) < MaxRequests(key)
    /\ \E first \in recent[key] : first.at + WindowMs = store[key].resetAt

NoWindow(key) ==
    /\ Cardinality(recent[key]) < MaxRequests(key)
    /\ \A counted \in recent[key] : counted.at < now

RecentInv ==
    \A key \in Key :
        /\ \A counted \in recent[key] : counted.at <= now /\ counted.at + WindowMs > now
        /\ \A counted \in CountedNow(key) : counted.nth < Cardinality(CountedNow(key))
        /\ IF Live(key) THEN OpenWindow(key) ELSE NoWindow(key)

\* The subsets are finite, and the two parts of an open window add up.
LEMMA RecentIsFinite ==
    ASSUME TypeOK, NEW key \in Key
    PROVE  /\ IsFiniteSet(recent[key]) /\ Cardinality(recent[key]) \in Nat
           /\ IsFiniteSet(InWindow(key)) /\ Cardinality(InWindow(key)) \in Nat
           /\ IsFiniteSet(BeforeWindow(key)) /\ Cardinality(BeforeWindow(key)) \in Nat
           /\ IsFiniteSet(CountedNow(key)) /\ Cardinality(CountedNow(key)) \in Nat
           /\ Cardinality(recent[key])
                 = Cardinality(InWindow(key)) + Cardinality(BeforeWindow(key))
  <1>1. IsFiniteSet(recent[key])
    BY DEF TypeOK
  <1>2. /\ InWindow(key) \in SUBSET recent[key] /\ BeforeWindow(key) \in SUBSET recent[key]
        /\ CountedNow(key) \in SUBSET recent[key]
        /\ InWindow(key) \cup BeforeWindow(key) = recent[key]
        /\ InWindow(key) \cap BeforeWindow(key) = {}
    BY DEF InWindow, BeforeWindow, CountedNow
  <1>3. /\ IsFiniteSet(InWindow(key)) /\ IsFiniteSet(BeforeWindow(key))
        /\ IsFiniteSet(CountedNow(key))
    BY <1>1, <1>2, FS_Subset
  <1>4. /\ Cardinality(recent[key]) \in Nat /\ Cardinality(InWindow(key)) \in Nat
        /\ Cardinality(BeforeWindow(key)) \in Nat /\ Cardinality(CountedNow(key)) \in Nat
    BY <1>1, <1>3, FS_CardinalityType
  <1>5. Cardinality(recent[key])
           = Cardinality(InWindow(key)) + Cardinality(BeforeWindow(key)) - 0
    BY <1>2, <1>3, FS_Union, FS_EmptySet
  <1>6. QED BY <1>1, <1>3, <1>4, <1>5

\* A key whose history, entry and clock stay as they are keeps its part.
LEMMA OthersKeepTheirRecent ==
    ASSUME RecentInv, NEW key \in Key, now' = now, recent'[key] = recent[key],
           Live(key)' <=> Live(key), Live(key) => store'[key] = store[key]
    PROVE  /\ \A counted \in recent'[key] : counted.at <= now' /\ counted.at + WindowMs > now'
           /\ \A counted \in CountedNow(key)' : counted.nth < Cardinality(CountedNow(key)')
           /\ IF Live(key)' THEN OpenWindow(key)' ELSE NoWindow(key)'
  <1>1. CountedNow(key)' = CountedNow(key)
    BY DEF CountedNow
  <1>2. ASSUME Live(key) PROVE OpenWindow(key)'
    <2>1. InWindow(key)' = InWindow(key) /\ BeforeWindow(key)' = BeforeWindow(key)
      BY <1>2 DEF InWindow, BeforeWindow
    <2>2. QED BY <1>2, <2>1 DEF RecentInv, OpenWindow, MaxRequests
  <1>3. ASSUME ~ Live(key) PROVE NoWindow(key)'
    BY <1>3 DEF RecentInv, NoWindow, MaxRequests
  <1>4. QED BY <1>1, <1>2, <1>3 DEF RecentInv

LEMMA RecentKeptByCounting ==
    ASSUME TypeOK, RecentInv, CountAndGoOn
    PROVE  RecentInv'
  <1>1. PICK key \in Key : key = KeyOf(handling)
    BY KeysAreKeys DEF TypeOK, CountAndGoOn
  <1>0. PICK next : next = NextRequest(key)
    OBVIOUS
  <1>2. /\ ~ Exhausted(key) /\ now' = now
        /\ store' = Put(Tidied, key, Counted(key))
        /\ recent' = [recent EXCEPT ![key] = recent[key] \cup {next}]
    BY <1>0, <1>1 DEF CountAndGoOn
  <1>3. /\ recent'[key] = recent[key] \cup {next}
        /\ \A k \in Key : k # key => recent'[k] = recent[k]
    BY <1>1, <1>2 DEF TypeOK
  <1>4. /\ DOMAIN store' = DOMAIN Tidied \cup {key}
        /\ store'[key] = Counted(key)
        /\ \A k \in DOMAIN Tidied : k # key => store'[k] = Tidied[k]
    BY <1>2 DEF Put
  <1>5. next.at = now /\ next.nth = Cardinality(CountedNow(key)) /\ next \notin recent[key]
    <2>1. next.at = now /\ next.nth = Cardinality(CountedNow(key))
      BY <1>0 DEF NextRequest, CountedNow
    <2>2. next \in recent[key] => next.nth < Cardinality(CountedNow(key))
      BY <1>1, <2>1 DEF RecentInv, CountedNow
    <2>3. QED BY <1>1, <2>1, <2>2, RecentIsFinite
  <1>6. now \in Nat /\ WindowMs \in Nat \ {0} /\ MaxRequests(key) \in Nat \ {0}
    BY <1>1, LimitsArePositive, TimeAssumption DEF TypeOK
  <1>7. /\ Counted(key) \in Entry /\ Counted(key).resetAt > now
        /\ Counted(key).resetAt <= now + WindowMs
    BY <1>1, <1>2, CountedIsOpen
  <1>8. Live(key)'
    BY <1>2, <1>4, <1>7 DEF Live
  <1>9. \A counted \in recent[key] : /\ counted.at \in Nat /\ counted.at <= now
                                     /\ counted.at + WindowMs > now
    BY <1>1 DEF RecentInv, TypeOK
  <1>10. /\ \A counted \in recent'[key] : counted.at <= now' /\ counted.at + WindowMs > now'
         /\ \A counted \in CountedNow(key)' : counted.nth < Cardinality(CountedNow(key)')
    <2>1. CountedNow(key)' = CountedNow(key) \cup {next}
      BY <1>2, <1>3, <1>5 DEF CountedNow
    <2>2. Cardinality(CountedNow(key)') = Cardinality(CountedNow(key)) + 1
      <3>1. next \notin CountedNow(key)
        BY <1>5 DEF CountedNow
      <3>2. QED BY <1>1, <2>1, <3>1, RecentIsFinite, FS_AddElement
    <2>3. ASSUME NEW counted \in CountedNow(key)
          PROVE  counted.nth \in Nat /\ counted.nth < Cardinality(CountedNow(key))
      BY <1>1, <2>3 DEF RecentInv, CountedNow, TypeOK
    <2>4. Cardinality(CountedNow(key)) \in Nat
      BY <1>1, RecentIsFinite
    <2>5. QED BY <1>2, <1>3, <1>5, <1>6, <1>9, <2>1, <2>2, <2>3, <2>4
  <1>11. OpenWindow(key)'
    <2>1. CASE Live(key)
      <3>1. /\ store[key] \in Entry /\ Counted(key).resetAt = store[key].resetAt
            /\ Counted(key).count = store[key].count + 1
        BY <1>1, <1>2, <2>1, CountedIsOpen DEF TypeOK, Live
      <3>2. store[key].resetAt <= now + WindowMs
        BY <1>7, <3>1
      <3>3. InWindow(key)' = InWindow(key) \cup {next}
        BY <1>3, <1>4, <1>5, <3>1, <3>2 DEF InWindow
      <3>4. BeforeWindow(key)' = BeforeWindow(key)
        BY <1>3, <1>4, <1>5, <1>6, <3>1, <3>2 DEF BeforeWindow
      <3>5. Cardinality(InWindow(key)') = Cardinality(InWindow(key)) + 1
        <4>1. next \notin InWindow(key)
          BY <1>5 DEF InWindow
        <4>2. IsFiniteSet(InWindow(key))
          BY RecentIsFinite
        <4>3. Cardinality(InWindow(key) \cup {next}) = Cardinality(InWindow(key)) + 1
          BY <4>1, <4>2, FS_AddElement
        <4>4. QED BY <3>3, <4>3
      <3>6. OpenWindow(key)
        BY <1>1, <2>1 DEF RecentInv
      <3>7. QED
        BY <1>3, <1>4, <3>1, <3>4, <3>5, <3>6 DEF OpenWindow, MaxRequests
    <2>2. CASE ~ Live(key)
      <3>1. Counted(key) = [count |-> 1, resetAt |-> now + WindowMs]
        BY <1>1, <1>2, <2>2, CountedIsOpen
      <3>2. NoWindow(key)
        BY <1>1, <2>2 DEF RecentInv
      <3>3. \A counted \in recent[key] : ~ (counted.at + WindowMs >= now + WindowMs)
        BY <1>6, <1>9, <3>2 DEF NoWindow
      <3>4. InWindow(key)' = {next} /\ BeforeWindow(key)' = recent[key]
        BY <1>3, <1>4, <1>5, <1>6, <3>1, <3>3 DEF InWindow, BeforeWindow
      <3>5. Cardinality({next}) = 1
        BY FS_Singleton
      <3>6. QED
        BY <1>3, <1>4, <1>5, <3>1, <3>2, <3>4, <3>5 DEF OpenWindow, NoWindow, MaxRequests
    <2>3. QED BY <2>1, <2>2
  <1>12. ASSUME NEW k \in Key, k # key
         PROVE  /\ \A counted \in recent'[k] : counted.at <= now' /\ counted.at + WindowMs > now'
                /\ \A counted \in CountedNow(k)' : counted.nth < Cardinality(CountedNow(k)')
                /\ IF Live(k)' THEN OpenWindow(k)' ELSE NoWindow(k)'
    <2>1. Live(k)' <=> Live(k)
      BY <1>2, <1>4, <1>12, SweepKeepsOpenWindows DEF Live
    <2>2. Live(k) => store'[k] = store[k]
      BY <1>4, <1>12, SweepKeepsOpenWindows DEF Live
    <2>3. recent'[k] = recent[k]
      BY <1>3, <1>12
    <2>4. QED BY <1>2, <2>1, <2>2, <2>3, OthersKeepTheirRecent
  <1>13. QED BY <1>8, <1>10, <1>11, <1>12 DEF RecentInv

LEMMA RecentKeptByRefusing ==
    ASSUME TypeOK, RecentInv, Refuse
    PROVE  RecentInv'
  <1>1. ASSUME NEW key \in Key
        PROVE  /\ now' = now /\ recent'[key] = recent[key]
               /\ (Live(key)' <=> Live(key)) /\ (Live(key) => store'[key] = store[key])
    BY SweepKeepsOpenWindows DEF Refuse, Live
  <1>2. QED BY <1>1, OthersKeepTheirRecent DEF RecentInv

\* When a window ends, its first request is WindowMs old and leaves.
LEMMA RecentKeptByTime ==
    ASSUME TypeOK, RecentInv, Tick
    PROVE  RecentInv'
  <1> SUFFICES ASSUME NEW key \in Key
               PROVE  /\ \A counted \in recent'[key] :
                            counted.at <= now' /\ counted.at + WindowMs > now'
                      /\ \A counted \in CountedNow(key)' :
                            counted.nth < Cardinality(CountedNow(key)')
                      /\ IF Live(key)' THEN OpenWindow(key)' ELSE NoWindow(key)'
    BY DEF RecentInv
  <1>1. /\ now' = now + 1 /\ now \in Nat /\ store' = store
        /\ WindowMs \in Nat \ {0} /\ MaxRequests(key) \in Nat \ {0}
        /\ MaxRequests(key)' = MaxRequests(key)
    BY LimitsArePositive, TimeAssumption DEF TypeOK, Tick, MaxRequests
  <1>2. recent'[key] = {counted \in recent[key] : counted.at + WindowMs > now'}
    BY DEF Tick
  <1>3. \A counted \in recent[key] : /\ counted.at \in Nat /\ counted.at <= now
                                     /\ counted.at + WindowMs > now
    BY DEF RecentInv, TypeOK
  <1>4. \A counted \in recent'[key] : /\ counted.at < now' /\ counted.at <= now'
                                      /\ counted.at + WindowMs > now'
    BY <1>1, <1>2, <1>3
  <1>5. CountedNow(key)' = {}
    BY <1>1, <1>2, <1>3 DEF CountedNow
  <1>6. CASE Live(key)'
    <2>1. Live(key) /\ store[key].resetAt \in Nat /\ store[key].resetAt > now'
      BY <1>1, <1>6 DEF Live, TypeOK, Entry
    <2>2. OpenWindow(key)
      BY <2>1 DEF RecentInv
    <2>3. InWindow(key)' = InWindow(key)
      BY <1>1, <1>2, <1>3, <2>1 DEF InWindow
    <2>4. BeforeWindow(key)' \in SUBSET BeforeWindow(key)
      BY <1>1, <1>2 DEF BeforeWindow
    <2>5. /\ Cardinality(BeforeWindow(key)') <= Cardinality(BeforeWindow(key))
          /\ Cardinality(BeforeWindow(key)') \in Nat /\ Cardinality(BeforeWindow(key)) \in Nat
      BY <2>4, RecentIsFinite, FS_Subset, FS_CardinalityType
    <2>6. \E first \in recent'[key] : first.at + WindowMs = store'[key].resetAt
      BY <1>1, <1>2, <2>1, <2>2 DEF OpenWindow
    <2>7. OpenWindow(key)'
      BY <1>1, <2>2, <2>3, <2>5, <2>6 DEF OpenWindow
    <2>8. QED BY <1>1, <1>4, <1>5, <1>6, <2>7
  <1>7. CASE ~ Live(key)' /\ Live(key)
    <2>1. /\ store[key] \in Entry /\ store[key].resetAt = now'
          /\ store[key].count <= MaxRequests(key)
      BY <1>1, <1>7 DEF Live, TypeOK, Entry
    <2>2. OpenWindow(key)
      BY <1>7 DEF RecentInv
    <2>3. PICK first \in recent[key] : first.at + WindowMs = store[key].resetAt
      BY <2>2 DEF OpenWindow
    <2>4. first \in InWindow(key) /\ recent'[key] \in SUBSET (InWindow(key) \ {first})
      BY <1>1, <1>2, <1>3, <2>1, <2>3 DEF InWindow
    <2>5. /\ IsFiniteSet(InWindow(key) \ {first})
          /\ Cardinality(InWindow(key) \ {first}) = Cardinality(InWindow(key)) - 1
      BY <2>4, RecentIsFinite, FS_RemoveElement
    <2>6. /\ Cardinality(recent'[key]) <= Cardinality(InWindow(key)) - 1
          /\ Cardinality(recent'[key]) \in Nat
      BY <2>4, <2>5, FS_Subset, FS_CardinalityType
    <2>7. Cardinality(InWindow(key)) = store[key].count /\ store[key].count \in Nat
      BY <2>1, <2>2 DEF OpenWindow, Entry
    <2>8. NoWindow(key)'
      BY <1>1, <1>4, <2>1, <2>6, <2>7 DEF NoWindow
    <2>9. QED BY <1>1, <1>4, <1>5, <1>7, <2>8
  <1>8. CASE ~ Live(key)' /\ ~ Live(key)
    <2>1. NoWindow(key)
      BY <1>8 DEF RecentInv
    <2>2. recent'[key] \in SUBSET recent[key]
      BY <1>2
    <2>3. /\ Cardinality(recent'[key]) <= Cardinality(recent[key])
          /\ Cardinality(recent'[key]) \in Nat /\ Cardinality(recent[key]) \in Nat
      BY <2>2, RecentIsFinite, FS_Subset, FS_CardinalityType
    <2>4. NoWindow(key)'
      BY <1>1, <1>4, <2>1, <2>3 DEF NoWindow
    <2>5. QED BY <1>1, <1>4, <1>5, <1>8, <2>4
  <1>9. QED BY <1>6, <1>7, <1>8

LEMMA NothingRecentIsFine ==
    ASSUME NEW key \in Key
    PROVE  /\ NothingRecent[key] = {} /\ Cardinality(NothingRecent[key]) < MaxRequests(key)
           /\ MaxRequests(key)' = MaxRequests(key)
  BY LimitsArePositive, FS_EmptySet DEF NothingRecent, MaxRequests

LEMMA RecentKept ==
    ASSUME TypeOK, RecentInv, [Next]_vars
    PROVE  RecentInv'
  <1>1. ASSUME NEW organization \in Organization, NEW user \in User,
               NEW operation \in Operation, Arrive(organization, user, operation)
        PROVE  RecentInv'
    BY <1>1, OthersKeepTheirRecent DEF Arrive, RecentInv, Live
  <1>2. CASE UNCHANGED vars
    BY <1>2, OthersKeepTheirRecent DEF vars, RecentInv, Live
  <1>3. CASE Restart
    BY <1>3, NothingRecentIsFine DEF Restart, RecentInv, NoWindow, CountedNow, Live
  <1>4. QED
    BY <1>1, <1>2, <1>3, RecentKeptByCounting, RecentKeptByRefusing, RecentKeptByTime
       DEF Next

LEMMA RecentInit ==
    ASSUME Init
    PROVE  RecentInv
  BY NothingRecentIsFine DEF Init, RecentInv, NoWindow, CountedNow, Live

LEMMA RecentAlways == Spec => [](TypeOK /\ RecentInv)
  BY TypesInit, TypesKept, RecentInit, RecentKept, PTL DEF Spec

\* For any limits, keys and window length, no stretch of WindowMs milliseconds
\* holds twice the limit of a key, wherever the windows fall and whatever is
\* swept (rateLimitMiddleware, sweepExpiredRateLimitEntries).
THEOREM NeverTwiceTheLimit == Spec => []LessThanTwiceTheLimit
  <1>1. ASSUME TypeOK, RecentInv PROVE LessThanTwiceTheLimit
    <2> SUFFICES ASSUME NEW key \in Key
                 PROVE  RecentlyCounted(key) < 2 * MaxRequests(key)
      BY DEF LessThanTwiceTheLimit
    <2>1. MaxRequests(key) \in Nat \ {0}
      BY LimitsArePositive
    <2>2. CASE Live(key)
      <3>1. store[key].count <= MaxRequests(key) /\ store[key].count \in Nat
        BY <1>1, <2>2 DEF TypeOK, Live, Entry
      <3>2. OpenWindow(key)
        BY <1>1, <2>2 DEF RecentInv
      <3>3. QED
        BY <1>1, <2>1, <3>1, <3>2, RecentIsFinite DEF OpenWindow, RecentlyCounted
    <2>3. CASE ~ Live(key)
      BY <1>1, <2>1, <2>3, RecentIsFinite DEF RecentInv, NoWindow, RecentlyCounted
    <2>4. QED BY <2>2, <2>3
  <1>2. QED BY <1>1, RecentAlways, PTL

\* For any limits, keys and window length, a request is only refused if its key
\* has counted its full limit within the last WindowMs milliseconds: no entry
\* left over from an earlier window refuses anybody (rateLimitMiddleware).
THEOREM RefusalsAreForAFullLimit == Spec => []RefusalsAreDeserved
  <1>1. ASSUME TypeOK, RecentInv PROVE RefusalsAreDeserved
    <2> SUFFICES ASSUME NEW key \in Key, Exhausted(key)
                 PROVE  RecentlyCounted(key) >= MaxRequests(key)
      BY DEF RefusalsAreDeserved
    <2>1. /\ MaxRequests(key) \in Nat \ {0}
          /\ store[key].count \in Nat /\ store[key].count >= MaxRequests(key)
      BY <1>1, LimitsArePositive DEF TypeOK, Exhausted, Live, Entry
    <2>2. OpenWindow(key)
      BY <1>1 DEF RecentInv, Exhausted
    <2>3. QED BY <1>1, <2>1, <2>2, RecentIsFinite DEF OpenWindow, RecentlyCounted
  <1>2. QED BY <1>1, RecentAlways, PTL

-----------------------------------------------------------------------------
(***************************************************************************)
(* Refinement of FixedWindow.                                              *)
(***************************************************************************)
WindowOf(key) == IF Live(key) THEN store[key] ELSE [count |-> 0, resetAt |-> 0]

LEMMA CountingImplementsWindows ==
    ASSUME TypeOK, CountAndGoOn
    PROVE  \E key \in Key : Windows!Open(key) \/ Windows!LetIn(key)
  <1>1. PICK key \in Key : key = KeyOf(handling)
    BY KeysAreKeys DEF TypeOK, CountAndGoOn
  <1>2. ~ Exhausted(key) /\ store' = Put(Tidied, key, Counted(key)) /\ now' = now
    BY <1>1 DEF CountAndGoOn
  <1>3. /\ DOMAIN store' = DOMAIN Tidied \cup {key}
        /\ store'[key] = Counted(key)
        /\ \A k \in DOMAIN Tidied : k # key => store'[k] = Tidied[k]
    BY <1>2 DEF Put
  <1>4. WindowOf(key)' = Counted(key)
    <2>1. Counted(key).resetAt > now
      BY <1>2, CountedIsOpen
    <2>2. Live(key)'
      BY <1>2, <1>3, <2>1 DEF Live
    <2>3. QED BY <1>3, <2>2 DEF WindowOf
  <1>5. ASSUME NEW k \in Key, k # key
        PROVE  WindowOf(k)' = WindowOf(k)
    <2>1. Live(k)' <=> Live(k)
      BY <1>2, <1>3, <1>5, SweepKeepsOpenWindows DEF Live
    <2>2. Live(k) => store'[k] = store[k]
      BY <1>3, <1>5, SweepKeepsOpenWindows DEF Live
    <2>3. QED BY <2>1, <2>2 DEF WindowOf
  <1>6. CASE Live(key)
    <2>1. store[key] \in Entry /\ WindowOf(key) = store[key]
      BY <1>6 DEF TypeOK, Live, WindowOf
    <2>2. /\ Counted(key) \in Entry
          /\ Counted(key).resetAt = store[key].resetAt
          /\ Counted(key).count = store[key].count + 1
          /\ store[key].count < MaxRequests(key)
      BY <1>2, <1>6, CountedIsOpen
    <2>3. Counted(key) = [count |-> store[key].count + 1, resetAt |-> store[key].resetAt]
      BY <2>2 DEF Entry
    <2>4. WindowOf(key) # [count |-> 0, resetAt |-> 0]
      BY <2>1 DEF Entry
    <2>5. [k \in Key |-> WindowOf(k)]' =
             [k \in Key |-> IF k = key
                            THEN [count |-> store[key].count + 1,
                                  resetAt |-> store[key].resetAt]
                            ELSE WindowOf(k)]
      BY <1>4, <1>5, <2>3
    <2>6. Windows!LetIn(key)
      BY <1>2, <2>1, <2>2, <2>4, <2>5 DEF Windows!LetIn, Windows!Closed, WindowOf
    <2>7. QED BY <2>6
  <1>7. CASE ~ Live(key)
    <2>1. WindowOf(key) = [count |-> 0, resetAt |-> 0]
      BY <1>7 DEF WindowOf
    <2>2. Counted(key) = [count |-> 1, resetAt |-> now + WindowMs]
      BY <1>7 DEF Counted
    <2>3. [k \in Key |-> WindowOf(k)]' =
             [k \in Key |-> IF k = key THEN [count |-> 1, resetAt |-> now + WindowMs]
                                      ELSE WindowOf(k)]
      BY <1>4, <1>5, <2>2
    <2>4. Windows!Open(key)
      BY <1>2, <2>1, <2>3 DEF Windows!Open, Windows!Closed, WindowOf
    <2>5. QED BY <2>4
  <1>8. QED BY <1>6, <1>7

LEMMA RefusingIsAStutter ==
    ASSUME TypeOK, Refuse
    PROVE  UNCHANGED <<now, [key \in Key |-> WindowOf(key)]>>
  <1>1. ASSUME NEW key \in Key
        PROVE  WindowOf(key)' = WindowOf(key)
    BY SweepKeepsOpenWindows DEF Refuse, WindowOf, Live
  <1>2. QED BY <1>1 DEF Refuse

LEMMA TimeClosesWindows ==
    ASSUME TypeOK, Tick
    PROVE  Windows!Pass
  <1> DEFINE window == [key \in Key |-> WindowOf(key)]
  <1>1. now' = now + 1 /\ now \in Nat /\ store' = store
    BY TimeAssumption DEF TypeOK, Tick
  <1>2. ASSUME NEW key \in Key
        PROVE  WindowOf(key)' = IF window[key].resetAt > now' THEN window[key]
                                ELSE [count |-> 0, resetAt |-> 0]
    <2>1. CASE Live(key)
      BY <1>1, <2>1 DEF TypeOK, Entry, Live, WindowOf
    <2>2. CASE ~ Live(key)
      BY <1>1, <2>2 DEF TypeOK, Entry, Live, WindowOf
    <2>3. QED BY <2>1, <2>2
  <1>3. QED BY <1>1, <1>2 DEF Windows!Pass, Windows!Closed, WindowOf

LEMMA RestartForgetsWindows ==
    ASSUME Restart
    PROVE  Windows!Forget
  BY DEF Restart, Windows!Forget, Windows!Closed, Live

LEMMA StepsImplementWindows ==
    ASSUME TypeOK, [Next]_vars
    PROVE  [Windows!WindowNext]_(Windows!windowVars)
  <1>1. ASSUME NEW organization \in Organization, NEW user \in User,
               NEW operation \in Operation, Arrive(organization, user, operation)
        PROVE  UNCHANGED Windows!windowVars
    BY <1>1 DEF Arrive, Windows!windowVars, Live
  <1>2. CASE UNCHANGED vars
    BY <1>2 DEF vars, Windows!windowVars, Live
  <1>3. CASE Refuse
    BY <1>3, RefusingIsAStutter DEF Windows!windowVars, WindowOf
  <1>4. QED
    BY <1>1, <1>2, <1>3, CountingImplementsWindows, TimeClosesWindows,
       RestartForgetsWindows DEF Next, Windows!WindowNext

LEMMA InitImplementsWindows ==
    ASSUME Init
    PROVE  Windows!WindowInit
  BY DEF Init, Windows!WindowInit, Windows!Closed, Live

\* For any limits, keys and threshold, requests cannot tell the Map and its
\* sweep from windows that close at their end (rate-limiter.ts).
THEOREM LimiterImplementsWindows == Spec => ImplementsFixedWindow
  <1>1. Init => Windows!WindowInit
    BY InitImplementsWindows
  <1>2. TypeOK /\ [Next]_vars => [Windows!WindowNext]_(Windows!windowVars)
    BY StepsImplementWindows
  <1>3. QED
    BY <1>1, <1>2, EntriesTyped, PTL DEF Spec, ImplementsFixedWindow, Windows!WindowSpec

=============================================================================
