----------------------------- MODULE AuthCache -----------------------------
(***************************************************************************)
(* auth.CachedStore in every replica of the HTTP services, over the        *)
(* tenants table they share.  Authenticate reads the clock, looks the key  *)
(* up under the read lock, and on a miss asks the table without any lock   *)
(* and then stores the answer under the write lock; RotateKey changes the  *)
(* table and then purges the tenant from the cache of its own replica.     *)
(* Between any two of these steps every other request can run.             *)
(***************************************************************************)
EXTENDS Naturals, FiniteSets

CONSTANTS
    Replicas,        \* processes, each with a cache of its own
    Requests,        \* concurrent Authenticate calls
    Tenants, Keys,
    NoTenant, NoKey, NoReplica,
    TTL,             \* PULSE_AUTH_CACHE_TTL; NewCachedStore has no cache at 0
    MaxCachedKeys,
    MaxTime          \* bound on the clock

ASSUME TTLAssumption == TTL \in Nat \ {0}
ASSUME MaxCachedKeysAssumption == MaxCachedKeys \in Nat \ {0}
ASSUME NoneAssumption ==
    NoTenant \notin Tenants /\ NoKey \notin Keys /\ NoReplica \notin Replicas

VARIABLES
    now,
    keyOf,      \* tenants table: the key whose hash is stored
    issuedTo,   \* the tenant a key was made for
    retiredAt,  \* when a key stopped being its tenant's (history)
    retired,    \* the keys that did
    cached,     \* items: the tenant cached for a key, or NoTenant
    expires,    \* items: when the entry expires
    purging,    \* RotateKey calls between the table and the cache
    returned,   \* the keys whose RotateKey returned without error (history)
    pc, replica, key, start, tenant   \* each Authenticate call

vars == <<now, keyOf, issuedTo, retiredAt, retired, cached, expires, purging,
          returned, pc, replica, key, start, tenant>>

Steps == {"idle", "lookup", "evict", "query", "fill", "accepted", "rejected"}

TypeOK ==
    /\ now \in Nat
    /\ keyOf \in [Tenants -> Keys \cup {NoKey}]
    /\ issuedTo \in [Keys -> Tenants \cup {NoTenant}]
    /\ retiredAt \in [Keys -> Nat]
    /\ retired \subseteq Keys
    /\ cached \in [Replicas -> [Keys -> Tenants \cup {NoTenant}]]
    /\ expires \in [Replicas -> [Keys -> Nat]]
    /\ purging \subseteq Replicas \X Tenants \X Keys
    /\ returned \subseteq Keys
    /\ pc \in [Requests -> Steps]
    /\ replica \in [Requests -> Replicas \cup {NoReplica}]
    /\ key \in [Requests -> Keys \cup {NoKey}]
    /\ start \in [Requests -> Nat]
    /\ tenant \in [Requests -> Tenants \cup {NoTenant}]
    /\ \A q \in Requests : pc[q] # "idle" => replica[q] \in Replicas /\ key[q] \in Keys

Init ==
    /\ now = 0
    /\ keyOf = [t \in Tenants |-> NoKey]
    /\ issuedTo = [k \in Keys |-> NoTenant]
    /\ retiredAt = [k \in Keys |-> 0]
    /\ retired = {}
    /\ cached = [r \in Replicas |-> [k \in Keys |-> NoTenant]]
    /\ expires = [r \in Replicas |-> [k \in Keys |-> 0]]
    /\ purging = {}
    /\ returned = {}
    /\ pc = [q \in Requests |-> "idle"]
    /\ replica = [q \in Requests |-> NoReplica]
    /\ key = [q \in Requests |-> NoKey]
    /\ start = [q \in Requests |-> 0]
    /\ tenant = [q \in Requests |-> NoTenant]

callVars == <<pc, replica, key, start, tenant>>

-----------------------------------------------------------------------------
\* Mutant: keys may repeat.
IssueRepeats(t, k) ==
    /\ k # keyOf[t]
    /\ issuedTo' = [issuedTo EXCEPT ![k] = t]
    /\ keyOf' = [keyOf EXCEPT ![t] = k]

\* NewAPIKey: a key no tenant ever had.
Issue(t, k) ==
    /\ issuedTo[k] = NoTenant
    /\ issuedTo' = [issuedTo EXCEPT ![k] = t]
    /\ keyOf' = [keyOf EXCEPT ![t] = k]

Create(t, k) ==
    /\ keyOf[t] = NoKey
    /\ Issue(t, k)
    /\ UNCHANGED <<now, retiredAt, retired, cached, expires, purging, returned,
                   callVars>>

\* RotateKey on replica r: the table is updated; the purge follows unless the
\* update's answer was lost and the call returns an error.
RotateKey(r, t, k) ==
    /\ keyOf[t] # NoKey
    /\ Issue(t, k)
    /\ retired' = retired \cup {keyOf[t]}
    /\ retiredAt' = [retiredAt EXCEPT ![keyOf[t]] = now]
    /\ purging' \in {purging, purging \cup {<<r, t, keyOf[t]>>}}
    /\ UNCHANGED <<now, cached, expires, returned, callVars>>

\* Deleting entries of replica r's items.
Delete(r, ks) ==
    /\ cached' = [cached EXCEPT ![r] =
                    [k \in Keys |-> IF k \in ks THEN NoTenant ELSE @[k]]]
    /\ expires' = [expires EXCEPT ![r] =
                    [k \in Keys |-> IF k \in ks THEN 0 ELSE @[k]]]

RotatePurge(r, t, k) ==
    /\ <<r, t, k>> \in purging
    /\ purging' = purging \ {<<r, t, k>>}
    /\ returned' = returned \cup {k}
    /\ Delete(r, {j \in Keys : cached[r][j] = t})
    /\ UNCHANGED <<now, keyOf, issuedTo, retiredAt, retired, callVars>>

-----------------------------------------------------------------------------
Step(q, s) == pc' = [pc EXCEPT ![q] = s]

\* Authenticate(key): the clock is read first.
Authenticate(q, r, k) ==
    /\ pc[q] = "idle"
    /\ replica' = [replica EXCEPT ![q] = r]
    /\ key' = [key EXCEPT ![q] = k]
    /\ start' = [start EXCEPT ![q] = now]
    /\ Step(q, "lookup")
    /\ UNCHANGED <<now, keyOf, issuedTo, retiredAt, retired, cached, expires,
                   purging, returned, tenant>>

\* Mutant: an entry is good for as long as it is there.
LookupForever(q) ==
    LET r == replica[q]
        k == key[q]
    IN  /\ pc[q] = "lookup"
        /\ IF cached[r][k] = NoTenant THEN Step(q, "query") /\ UNCHANGED tenant
           ELSE /\ Step(q, "accepted")
                /\ tenant' = [tenant EXCEPT ![q] = cached[r][k]]
        /\ UNCHANGED <<now, keyOf, issuedTo, retiredAt, retired, cached, expires,
                       purging, returned, replica, key, start>>

\* The lookup under the read lock: a fresh entry answers the call.
Lookup(q) ==
    LET r == replica[q]
        k == key[q]
    IN  /\ pc[q] = "lookup"
        /\ IF cached[r][k] = NoTenant THEN Step(q, "query") /\ UNCHANGED tenant
           ELSE IF start[q] < expires[r][k]
                THEN /\ Step(q, "accepted")
                     /\ tenant' = [tenant EXCEPT ![q] = cached[r][k]]
                ELSE Step(q, "evict") /\ UNCHANGED tenant
        /\ UNCHANGED <<now, keyOf, issuedTo, retiredAt, retired, cached, expires,
                       purging, returned, replica, key, start>>

\* A stale entry is deleted, whatever it has become since the lookup.
Evict(q) ==
    /\ pc[q] = "evict"
    /\ Delete(replica[q], {key[q]})
    /\ Step(q, "query")
    /\ UNCHANGED <<now, keyOf, issuedTo, retiredAt, retired, purging,
                   returned, replica, key, start, tenant>>

\* The table knows the key of an active tenant, or the call is refused (as it
\* is when the query fails).
Query(q) ==
    /\ pc[q] = "query"
    /\ \/ \E t \in Tenants :
            /\ keyOf[t] = key[q]
            /\ tenant' = [tenant EXCEPT ![q] = t]
            /\ Step(q, "fill")
       \/ Step(q, "rejected") /\ UNCHANGED tenant
    /\ UNCHANGED <<now, keyOf, issuedTo, retiredAt, retired, cached, expires,
                   purging, returned, replica, key, start>>

\* Mutant: one entry too many is kept.
KeptOneMore(q) ==
    LET r == replica[q]
        fresh == {k \in Keys : cached[r][k] # NoTenant /\ start[q] < expires[r][k]}
    IN  IF Cardinality(fresh) > MaxCachedKeys
        THEN {fresh \ {k} : k \in fresh}
        ELSE {fresh}

\* What is left of items after the entries that had expired when the call
\* started are dropped, and one more if the cache is still full.
Kept(q) ==
    LET r == replica[q]
        fresh == {k \in Keys : cached[r][k] # NoTenant /\ start[q] < expires[r][k]}
    IN  IF Cardinality(fresh) >= MaxCachedKeys
        THEN {fresh \ {k} : k \in fresh}
        ELSE {fresh}

\* Mutant: the entry's time to live counts from the fill.
FillLate(q) ==
    LET r == replica[q] IN
    /\ pc[q] = "fill"
    /\ \E kept \in Kept(q) :
        /\ cached' = [cached EXCEPT ![r] =
             [k \in Keys |-> IF k = key[q] THEN tenant[q]
                             ELSE IF k \in kept THEN @[k] ELSE NoTenant]]
        /\ expires' = [expires EXCEPT ![r] =
             [k \in Keys |-> IF k = key[q] THEN now + TTL
                             ELSE IF k \in kept THEN @[k] ELSE 0]]
    /\ Step(q, "accepted")
    /\ UNCHANGED <<now, keyOf, issuedTo, retiredAt, retired, purging,
                   returned, replica, key, start, tenant>>

Fill(q) ==
    LET r == replica[q] IN
    /\ pc[q] = "fill"
    /\ \E kept \in Kept(q) :
        /\ cached' = [cached EXCEPT ![r] =
             [k \in Keys |-> IF k = key[q] THEN tenant[q]
                             ELSE IF k \in kept THEN @[k] ELSE NoTenant]]
        /\ expires' = [expires EXCEPT ![r] =
             [k \in Keys |-> IF k = key[q] THEN start[q] + TTL
                             ELSE IF k \in kept THEN @[k] ELSE 0]]
    /\ Step(q, "accepted")
    /\ UNCHANGED <<now, keyOf, issuedTo, retiredAt, retired, purging,
                   returned, replica, key, start, tenant>>

Return(q) ==
    /\ pc[q] \in {"accepted", "rejected"}
    /\ Step(q, "idle")
    /\ replica' = [replica EXCEPT ![q] = NoReplica]
    /\ key' = [key EXCEPT ![q] = NoKey]
    /\ start' = [start EXCEPT ![q] = 0]
    /\ tenant' = [tenant EXCEPT ![q] = NoTenant]
    /\ UNCHANGED <<now, keyOf, issuedTo, retiredAt, retired, cached, expires,
                   purging, returned>>

Tick ==
    /\ now < MaxTime
    /\ now' = now + 1
    /\ UNCHANGED <<keyOf, issuedTo, retiredAt, retired, cached, expires, purging,
                   returned, callVars>>

Next ==
    \/ \E t \in Tenants, k \in Keys :
         Create(t, k) \/ \E r \in Replicas : RotateKey(r, t, k)
    \/ \E r \in Replicas, t \in Tenants, k \in Keys : RotatePurge(r, t, k)
    \/ \E q \in Requests :
         \/ \E r \in Replicas, k \in Keys : Authenticate(q, r, k)
         \/ Lookup(q) \/ Evict(q) \/ Query(q) \/ Fill(q) \/ Return(q)
    \/ Tick

Spec == Init /\ [][Next]_vars

-----------------------------------------------------------------------------
\* A call that authenticated a key that was rotated away had read its clock
\* less than one TTL after the rotation, on whichever replica, and whatever
\* ran between its lookup, its query and its fill.
BoundedStaleness ==
    \A q \in Requests :
        pc[q] = "accepted" /\ key[q] \in retired
            => start[q] < retiredAt[key[q]] + TTL

\* A call is given the tenant its key was issued to, cached or not.
OwnTenant ==
    \A q \in Requests : pc[q] = "accepted" => tenant[q] = issuedTo[key[q]]

\* No replica's items outgrows maxCachedKeys, with calls filling it at once.
CacheBounded ==
    \A r \in Replicas :
        Cardinality({k \in Keys : cached[r][k] # NoTenant}) <= MaxCachedKeys

\* The table: a tenant's key is the last one issued to it, the ones before
\* it are retired.
TableSound ==
    /\ \A t \in Tenants :
         keyOf[t] # NoKey => issuedTo[keyOf[t]] = t /\ keyOf[t] \notin retired
    /\ \A k \in retired : issuedTo[k] # NoTenant

\* No entry outlives the rotation of its key by more than a TTL.
EntriesSound ==
    \A r \in Replicas, k \in Keys :
        cached[r][k] # NoTenant =>
            /\ cached[r][k] = issuedTo[k]
            /\ expires[r][k] <= now + TTL
            /\ k \in retired => expires[r][k] <= retiredAt[k] + TTL

\* What a call holds between its query and its fill was current when the
\* call read its clock, or later.
CallsSound ==
    \A q \in Requests :
        /\ start[q] <= now
        /\ pc[q] \in {"fill", "accepted"} =>
             tenant[q] = issuedTo[key[q]] /\ tenant[q] # NoTenant
        /\ pc[q] = "fill" /\ key[q] \in retired => start[q] <= retiredAt[key[q]]

\* The inductive invariant behind BoundedStaleness: each replica's entries,
\* the calls in flight and the table they were read from agree.
CacheInv ==
    TypeOK /\ TableSound /\ EntriesSound /\ CallsSound /\ BoundedStaleness

\* docs/troubleshooting.md: "after rotation the previous key is invalid": once
\* RotateKey has returned, no replica holds a fresh entry for the old key, with
\* which the next Authenticate would accept it.
PreviousKeyInvalid ==
    \A r \in Replicas, k \in returned :
        cached[r][k] = NoTenant \/ expires[r][k] <= now
=============================================================================
