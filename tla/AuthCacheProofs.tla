-------------------------- MODULE AuthCacheProofs --------------------------
(***************************************************************************)
(* For any replicas, calls, tenants, keys and TTL: a rotated key is        *)
(* accepted for less than one TTL after its rotation, and every accepted   *)
(* call is given the tenant its key was issued to.  The inductive          *)
(* invariant is CacheInv: an expiry time is bounded by the clock of the    *)
(* call that wrote it, and that call had seen the key in the table.        *)
(***************************************************************************)
EXTENDS AuthCache, TLAPS, FiniteSetTheorems

USE DEF callVars

\* The empty caches and the empty table satisfy the invariant.
LEMMA InitCacheInv == Init => CacheInv
  BY NoneAssumption, TTLAssumption
  DEF Init, CacheInv, TypeOK, TableSound, EntriesSound, CallsSound,
      BoundedStaleness, Steps

\* Deleting entries leaves a subset of them, each as it was.
LEMMA DeleteEntries ==
  ASSUME TypeOK, NEW r \in Replicas, NEW ks \in SUBSET Keys, Delete(r, ks)
  PROVE  /\ cached' \in [Replicas -> [Keys -> Tenants \cup {NoTenant}]]
         /\ expires' \in [Replicas -> [Keys -> Nat]]
         /\ \A s \in Replicas, k \in Keys : cached'[s][k] # NoTenant =>
              cached'[s][k] = cached[s][k] /\ expires'[s][k] = expires[s][k]
  BY DEF TypeOK, Delete

\* A fill keeps entries as they were and writes one, for the call's key.
LEMMA FillEntries ==
  ASSUME CacheInv, NEW q \in Requests, Fill(q)
  PROVE  /\ cached' \in [Replicas -> [Keys -> Tenants \cup {NoTenant}]]
         /\ expires' \in [Replicas -> [Keys -> Nat]]
         /\ replica[q] \in Replicas /\ key[q] \in Keys
         /\ \A s \in Replicas, k \in Keys : cached'[s][k] # NoTenant =>
              \/ cached'[s][k] = cached[s][k] /\ expires'[s][k] = expires[s][k]
              \/ /\ k = key[q]
                 /\ cached'[s][k] = tenant[q]
                 /\ expires'[s][k] = start[q] + TTL
  <1>1. replica[q] \in Replicas /\ key[q] \in Keys /\ start[q] + TTL \in Nat
    BY TTLAssumption DEF CacheInv, TypeOK, Fill
  <1> DEFINE r == replica[q]
  <1>2. PICK kept \in Kept(q) :
        /\ cached' = [cached EXCEPT ![r] =
             [k \in Keys |-> IF k = key[q] THEN tenant[q]
                             ELSE IF k \in kept THEN @[k] ELSE NoTenant]]
        /\ expires' = [expires EXCEPT ![r] =
             [k \in Keys |-> IF k = key[q] THEN start[q] + TTL
                             ELSE IF k \in kept THEN @[k] ELSE 0]]
    BY DEF Fill
  <1> QED
    BY <1>1, <1>2 DEF CacheInv, TypeOK

\* Every step of the table, the caches, the calls and the clock preserves the
\* invariant.
LEMMA CacheInvStep == CacheInv /\ [Next]_vars => CacheInv'
  <1> SUFFICES ASSUME CacheInv, [Next]_vars PROVE CacheInv'
    OBVIOUS
  <1> USE NoneAssumption, TTLAssumption
  <1>1. ASSUME NEW t \in Tenants, NEW k \in Keys, Create(t, k) PROVE CacheInv'
    <2>1. TypeOK'
      BY <1>1 DEF CacheInv, TypeOK, Create, Issue, Steps
    <2>2. TableSound'
      BY <1>1 DEF CacheInv, TypeOK, TableSound, Create, Issue
    <2>3. EntriesSound'
      BY <1>1 DEF CacheInv, TypeOK, EntriesSound, Create, Issue
    <2>4. CallsSound' /\ BoundedStaleness'
      BY <1>1 DEF CacheInv, TypeOK, CallsSound, BoundedStaleness, Create, Issue, Steps
    <2> QED BY <2>1, <2>2, <2>3, <2>4 DEF CacheInv
  <1>2. ASSUME NEW r \in Replicas, NEW t \in Tenants, NEW k \in Keys,
               RotateKey(r, t, k)
        PROVE  CacheInv'
    <2> DEFINE old == keyOf[t]
    <2>0. /\ old \in Keys /\ issuedTo[old] = t /\ old \notin retired /\ old # k
          /\ retired' = retired \cup {old}
          /\ retiredAt' = [retiredAt EXCEPT ![old] = now]
      BY <1>2 DEF CacheInv, TypeOK, TableSound, RotateKey, Issue
    <2>1. TypeOK'
      BY <1>2, <2>0 DEF CacheInv, TypeOK, RotateKey, Issue, Steps
    <2>2. TableSound'
      BY <1>2, <2>0 DEF CacheInv, TypeOK, TableSound, RotateKey, Issue
    <2>3. EntriesSound'
      BY <1>2, <2>0 DEF CacheInv, TypeOK, EntriesSound, RotateKey, Issue
    <2>4. CallsSound'
      BY <1>2, <2>0 DEF CacheInv, TypeOK, CallsSound, RotateKey, Issue, Steps
    <2>5. BoundedStaleness'
      BY <1>2, <2>0
      DEF CacheInv, TypeOK, CallsSound, BoundedStaleness, RotateKey, Steps
    <2> QED BY <2>1, <2>2, <2>3, <2>4, <2>5 DEF CacheInv
  <1>3. ASSUME NEW r \in Replicas, NEW t \in Tenants, NEW k \in Keys,
               RotatePurge(r, t, k)
        PROVE  CacheInv'
    <2>0. Delete(r, {j \in Keys : cached[r][j] = t})
      BY <1>3 DEF RotatePurge
    <2>1. /\ cached' \in [Replicas -> [Keys -> Tenants \cup {NoTenant}]]
          /\ expires' \in [Replicas -> [Keys -> Nat]]
          /\ \A s \in Replicas, j \in Keys : cached'[s][j] # NoTenant =>
               cached'[s][j] = cached[s][j] /\ expires'[s][j] = expires[s][j]
      BY <2>0, DeleteEntries DEF CacheInv
    <2>2. TypeOK'
      BY <1>3, <2>1 DEF CacheInv, TypeOK, RotatePurge
    <2>3. EntriesSound'
      BY <1>3, <2>1 DEF CacheInv, EntriesSound, RotatePurge
    <2>4. TableSound' /\ CallsSound' /\ BoundedStaleness'
      BY <1>3 DEF CacheInv, TableSound, CallsSound, BoundedStaleness, RotatePurge
    <2> QED BY <2>2, <2>3, <2>4 DEF CacheInv
  <1>4. ASSUME NEW q \in Requests, NEW r \in Replicas, NEW k \in Keys,
               Authenticate(q, r, k)
        PROVE  CacheInv'
    <2>1. TypeOK'
      BY <1>4 DEF CacheInv, TypeOK, Authenticate, Step, Steps
    <2>2. TableSound' /\ EntriesSound'
      BY <1>4 DEF CacheInv, TableSound, EntriesSound, Authenticate
    <2>3. CallsSound' /\ BoundedStaleness'
      BY <1>4 DEF CacheInv, TypeOK, CallsSound, BoundedStaleness, Authenticate,
                  Step, Steps
    <2> QED BY <2>1, <2>2, <2>3 DEF CacheInv
  <1>5. ASSUME NEW q \in Requests, Lookup(q) PROVE CacheInv'
    <2> DEFINE r == replica[q]
               k == key[q]
    <2>0. r \in Replicas /\ k \in Keys
      BY <1>5 DEF CacheInv, TypeOK, Lookup
    <2>1. TypeOK'
      <3>1. cached[r][k] # NoTenant => cached[r][k] \in Tenants
        BY <2>0 DEF CacheInv, TypeOK
      <3>2. /\ pc' \in [Requests -> Steps]
            /\ tenant' \in [Requests -> Tenants \cup {NoTenant}]
            /\ \A p \in Requests : pc'[p] # "idle" => pc[p] # "idle"
        BY <1>5, <2>0, <3>1 DEF CacheInv, TypeOK, Lookup, Step, Steps
      <3> QED
        BY <1>5, <3>2 DEF CacheInv, TypeOK, Lookup
    <2>2. TableSound' /\ EntriesSound'
      BY <1>5 DEF CacheInv, TableSound, EntriesSound, Lookup
    <2>3. CallsSound'
      BY <1>5, <2>0 DEF CacheInv, TypeOK, EntriesSound, CallsSound, Lookup, Step, Steps
    <2>4. BoundedStaleness'
      BY <1>5, <2>0 DEF CacheInv, TypeOK, EntriesSound, BoundedStaleness, Lookup,
                        Step, Steps
    <2> QED BY <2>1, <2>2, <2>3, <2>4 DEF CacheInv
  <1>6. ASSUME NEW q \in Requests, Evict(q) PROVE CacheInv'
    <2>0. replica[q] \in Replicas /\ key[q] \in Keys /\ Delete(replica[q], {key[q]})
      BY <1>6 DEF CacheInv, TypeOK, Evict
    <2>1. /\ cached' \in [Replicas -> [Keys -> Tenants \cup {NoTenant}]]
          /\ expires' \in [Replicas -> [Keys -> Nat]]
          /\ \A s \in Replicas, j \in Keys : cached'[s][j] # NoTenant =>
               cached'[s][j] = cached[s][j] /\ expires'[s][j] = expires[s][j]
      BY <2>0, DeleteEntries DEF CacheInv
    <2>2. TypeOK'
      BY <1>6, <2>1 DEF CacheInv, TypeOK, Evict, Step, Steps
    <2>3. EntriesSound'
      BY <1>6, <2>1 DEF CacheInv, EntriesSound, Evict
    <2>4. TableSound' /\ CallsSound' /\ BoundedStaleness'
      BY <1>6 DEF CacheInv, TypeOK, TableSound, CallsSound, BoundedStaleness, Evict,
                  Step, Steps
    <2> QED BY <2>2, <2>3, <2>4 DEF CacheInv
  <1>7. ASSUME NEW q \in Requests, Query(q) PROVE CacheInv'
    <2>1. TypeOK'
      <3>0. /\ pc[q] = "query"
            /\ \/ pc' = [pc EXCEPT ![q] = "rejected"]
               \/ pc' = [pc EXCEPT ![q] = "fill"]
            /\ \/ tenant' = tenant
               \/ \E t \in Tenants : tenant' = [tenant EXCEPT ![q] = t]
        BY <1>7 DEF Query, Step
      <3>1. /\ pc' \in [Requests -> Steps]
            /\ \A p \in Requests : pc'[p] # "idle" => pc[p] # "idle"
        BY <3>0 DEF CacheInv, TypeOK, Steps
      <3>2. tenant' \in [Requests -> Tenants \cup {NoTenant}]
        BY <3>0 DEF CacheInv, TypeOK
      <3> QED
        BY <1>7, <3>1, <3>2 DEF CacheInv, TypeOK, Query
    <2>2. TableSound' /\ EntriesSound'
      BY <1>7 DEF CacheInv, TableSound, EntriesSound, Query
    <2>3. CallsSound'
      BY <1>7 DEF CacheInv, TypeOK, TableSound, CallsSound, Query, Step, Steps
    <2>4. BoundedStaleness'
      BY <1>7 DEF CacheInv, TypeOK, BoundedStaleness, Query, Step, Steps
    <2> QED BY <2>1, <2>2, <2>3, <2>4 DEF CacheInv
  <1>8. ASSUME NEW q \in Requests, Fill(q) PROVE CacheInv'
    <2>0. /\ cached' \in [Replicas -> [Keys -> Tenants \cup {NoTenant}]]
          /\ expires' \in [Replicas -> [Keys -> Nat]]
          /\ replica[q] \in Replicas /\ key[q] \in Keys
          /\ \A s \in Replicas, k \in Keys : cached'[s][k] # NoTenant =>
               \/ cached'[s][k] = cached[s][k] /\ expires'[s][k] = expires[s][k]
               \/ /\ k = key[q]
                  /\ cached'[s][k] = tenant[q]
                  /\ expires'[s][k] = start[q] + TTL
      BY <1>8, FillEntries
    <2>1. TypeOK'
      BY <1>8, <2>0 DEF CacheInv, TypeOK, Fill, Step, Steps
    <2>2. EntriesSound'
      BY <1>8, <2>0 DEF CacheInv, TypeOK, EntriesSound, CallsSound, Fill
    <2>3. TableSound' /\ CallsSound' /\ BoundedStaleness'
      BY <1>8, <2>0 DEF CacheInv, TypeOK, TableSound, CallsSound, BoundedStaleness,
                        Fill, Step, Steps
    <2> QED BY <2>1, <2>2, <2>3 DEF CacheInv
  <1>9. ASSUME NEW q \in Requests, Return(q) PROVE CacheInv'
    <2>1. TypeOK'
      BY <1>9 DEF CacheInv, TypeOK, Return, Step, Steps
    <2>2. TableSound' /\ EntriesSound'
      BY <1>9 DEF CacheInv, TableSound, EntriesSound, Return
    <2>3. CallsSound' /\ BoundedStaleness'
      BY <1>9 DEF CacheInv, TypeOK, CallsSound, BoundedStaleness, Return, Step, Steps
    <2> QED BY <2>1, <2>2, <2>3 DEF CacheInv
  <1>10. CASE Tick
    BY <1>10 DEF CacheInv, TypeOK, TableSound, EntriesSound, CallsSound,
                 BoundedStaleness, Tick
  <1>11. CASE UNCHANGED vars
    BY <1>11 DEF CacheInv, TypeOK, TableSound, EntriesSound, CallsSound,
                 BoundedStaleness, vars
  <1> QED
    BY <1>1, <1>2, <1>3, <1>4, <1>5, <1>6, <1>7, <1>8, <1>9, <1>10, <1>11 DEF Next

\* Entries, calls in flight and the table agree in every reachable state.
THEOREM CacheInvariant == Spec => []CacheInv
  BY InitCacheInv, CacheInvStep, PTL DEF Spec

\* A key is accepted for less than one TTL after RotateKey replaced it in the
\* table, on every replica.
THEOREM StalenessBound == Spec => []BoundedStaleness
  <1>1. CacheInv => BoundedStaleness
    BY DEF CacheInv
  <1> QED BY <1>1, CacheInvariant, PTL

\* Authenticate never answers with another tenant than the key's own.
THEOREM OwnTenantAlways == Spec => []OwnTenant
  <1>1. CacheInv => OwnTenant
    BY DEF CacheInv, CallsSound, OwnTenant
  <1> QED BY <1>1, CacheInvariant, PTL

-----------------------------------------------------------------------------
(* The bound on the cache, for any number of keys: the map is finite, and a *)
(* fill drops an entry before it adds one to a full map.                    *)

Items(r) == {k \in Keys : cached[r][k] # NoTenant}

ItemsBounded ==
  \A r \in Replicas : IsFiniteSet(Items(r)) /\ Cardinality(Items(r)) <= MaxCachedKeys

\* A map with fewer entries is no larger.
LEMMA FewerItems ==
  ASSUME NEW A, NEW B, IsFiniteSet(A), Cardinality(A) <= MaxCachedKeys, B \subseteq A
  PROVE  IsFiniteSet(B) /\ Cardinality(B) <= MaxCachedKeys
  <1>1. /\ IsFiniteSet(B) /\ Cardinality(B) <= Cardinality(A)
        /\ Cardinality(A) \in Nat /\ Cardinality(B) \in Nat
    BY FS_Subset, FS_CardinalityType
  <1> QED BY <1>1, MaxCachedKeysAssumption

\* What a fill keeps leaves room for one more.
LEMMA KeptLeavesRoom ==
  ASSUME CacheInv, ItemsBounded, NEW q \in Requests, replica[q] \in Replicas,
         NEW kept \in Kept(q)
  PROVE  IsFiniteSet(kept) /\ Cardinality(kept) < MaxCachedKeys
  <1> DEFINE fresh == {k \in Keys : cached[replica[q]][k] # NoTenant
                                    /\ start[q] < expires[replica[q]][k]}
  <1>1. IsFiniteSet(fresh) /\ Cardinality(fresh) <= MaxCachedKeys
    <2>1. fresh \subseteq Items(replica[q])
      BY DEF Items
    <2> HIDE DEF fresh
    <2> QED BY <2>1, FewerItems DEF ItemsBounded
  <1>2. Cardinality(fresh) \in Nat
    BY <1>1, FS_CardinalityType
  <1>3. CASE Cardinality(fresh) >= MaxCachedKeys
    <2>1. PICK k \in fresh : kept = fresh \ {k}
      BY <1>3 DEF Kept
    <2> HIDE DEF fresh
    <2>2. IsFiniteSet(kept) /\ Cardinality(kept) = Cardinality(fresh) - 1
      BY <1>1, <2>1, FS_RemoveElement
    <2> QED BY <1>1, <1>2, <2>2, MaxCachedKeysAssumption
  <1>4. CASE ~(Cardinality(fresh) >= MaxCachedKeys)
    <2>1. kept = fresh
      BY <1>4 DEF Kept
    <2> HIDE DEF fresh
    <2> QED BY <1>1, <1>2, <1>4, <2>1, MaxCachedKeysAssumption
  <1> QED BY <1>3, <1>4

\* A fill adds one entry to what it kept; every other step keeps or deletes.
LEMMA ItemsStep == CacheInv /\ ItemsBounded /\ [Next]_vars => ItemsBounded'
  <1> SUFFICES ASSUME CacheInv, ItemsBounded, [Next]_vars, NEW s \in Replicas
               PROVE  /\ IsFiniteSet(Items(s)')
                      /\ Cardinality(Items(s)') <= MaxCachedKeys
    BY DEF ItemsBounded
  <1>0. IsFiniteSet(Items(s)) /\ Cardinality(Items(s)) <= MaxCachedKeys
    BY DEF ItemsBounded
  <1>1. CASE Items(s)' \subseteq Items(s)
    BY <1>0, <1>1, FewerItems
  <1>2. ASSUME NEW q \in Requests, Fill(q)
        PROVE  IsFiniteSet(Items(s)') /\ Cardinality(Items(s)') <= MaxCachedKeys
    <2>1. replica[q] \in Replicas /\ key[q] \in Keys
      BY <1>2, FillEntries
    <2>2. PICK kept \in Kept(q) :
            cached' = [cached EXCEPT ![replica[q]] =
               [k \in Keys |-> IF k = key[q] THEN tenant[q]
                               ELSE IF k \in kept THEN @[k] ELSE NoTenant]]
      BY <1>2 DEF Fill
    <2>3. CASE s # replica[q]
      <3>1. Items(s)' \subseteq Items(s)
        BY <2>1, <2>2, <2>3 DEF Items, CacheInv, TypeOK
      <3> QED BY <1>1, <3>1
    <2>4. CASE s = replica[q]
      <3>1. Items(s)' \subseteq kept \cup {key[q]}
        BY <2>1, <2>2, <2>4 DEF Items, CacheInv, TypeOK
      <3>2. IsFiniteSet(kept) /\ Cardinality(kept) < MaxCachedKeys
        BY <2>1, KeptLeavesRoom
      <3>3. /\ IsFiniteSet(kept \cup {key[q]}) /\ Cardinality(kept) \in Nat
            /\ \/ Cardinality(kept \cup {key[q]}) = Cardinality(kept)
               \/ Cardinality(kept \cup {key[q]}) = Cardinality(kept) + 1
        BY <3>2, FS_AddElement, FS_CardinalityType
      <3>4. Cardinality(kept \cup {key[q]}) <= MaxCachedKeys
        BY <3>2, <3>3, MaxCachedKeysAssumption
      <3> QED BY <3>1, <3>3, <3>4, FewerItems
    <2> QED BY <2>3, <2>4
  <1>3. ASSUME NEW r \in Replicas, NEW ks \in SUBSET Keys, Delete(r, ks)
        PROVE  Items(s)' \subseteq Items(s)
    BY <1>3, DeleteEntries DEF CacheInv, Items
  <1>4. ASSUME NEW r \in Replicas, NEW t \in Tenants, NEW k \in Keys, RotatePurge(r, t, k)
        PROVE  Items(s)' \subseteq Items(s)
    BY <1>3, <1>4 DEF RotatePurge
  <1>5. ASSUME NEW q \in Requests, Evict(q) PROVE Items(s)' \subseteq Items(s)
    <2>1. replica[q] \in Replicas /\ {key[q]} \in SUBSET Keys
      BY <1>5 DEF Evict, CacheInv, TypeOK
    <2> QED BY <1>3, <1>5, <2>1 DEF Evict
  <1>6. CASE cached' = cached
    BY <1>1, <1>6 DEF Items
  <1> QED BY <1>1, <1>2, <1>4, <1>5, <1>6
          DEF Next, Create, RotateKey, Authenticate, Lookup, Query, Return, Tick, vars

\* maxCachedKeys bounds every replica's map, whichever fills run at once.
THEOREM CacheStaysBounded == Spec => []CacheBounded
  <1>1. Init => ItemsBounded
    <2> SUFFICES ASSUME Init, NEW r \in Replicas
                 PROVE  /\ IsFiniteSet(Items(r))
                        /\ Cardinality(Items(r)) <= MaxCachedKeys
      BY DEF ItemsBounded
    <2>1. Items(r) = {}
      BY DEF Init, Items
    <2> QED BY <2>1, FS_EmptySet, MaxCachedKeysAssumption
  <1>2. ItemsBounded => CacheBounded
    BY DEF ItemsBounded, Items, CacheBounded
  <1> QED BY <1>1, <1>2, ItemsStep, CacheInvariant, PTL DEF Spec
=============================================================================
