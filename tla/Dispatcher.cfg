SPECIFICATION FairSpec
CONSTANTS
    Callers = {c1, c2, c3}
    Threshold = 3
    Cooldown = 2
    Limit = 2
    MaxRetries = 5
    Backoff <- Schedule
    Timeout = 75
    Lease = 18000
    MaxFlips = 2
INVARIANTS DispatchInv ProbeHasOwner HeldWithinLease
PROPERTY EventuallyClosed
CHECK_DEADLOCK FALSE
