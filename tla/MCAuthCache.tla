---------------------------- MODULE MCAuthCache ----------------------------
\* AuthCache for TLC: replicas, requests, tenants and keys are interchangeable.
EXTENDS AuthCache, TLC

Symmetry ==
    Permutations(Replicas) \cup Permutations(Requests)
        \cup Permutations(Tenants) \cup Permutations(Keys)
=============================================================================
