SPECIFICATION Spec
CONSTANTS
    Replicas = {r1, r2}
    Requests = {q1, q2}
    Tenants = {t1, t2}
    Keys = {k1, k2}
    NoTenant = NoTenant
    NoKey = NoKey
    NoReplica = NoReplica
    TTL = 2
    MaxCachedKeys = 1
    MaxTime = 3
INVARIANTS CacheInv BoundedStaleness OwnTenant CacheBounded
SYMMETRY Symmetry
CHECK_DEADLOCK FALSE
