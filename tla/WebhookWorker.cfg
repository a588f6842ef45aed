SPECIFICATION FairSpec
CONSTANTS
    e1 = e1
    e2 = e2
    s1 = s1
    Workers = {w1, w2}
    Events = {e1, e2}
    Subs = {s1, s2}
    SubsOf <- Tables
    Batches <- InOrder
    NoDelivery = NoDelivery
    DeliveryLease = 2
    MaxHold = 1
    MaxTime = 2
    MaxFaults = 1
INVARIANTS ClaimInv ExclusiveDelivery HoldsOwnClaim CompletedReceived StoresAgree LossInv LostOnlyIfAbandoned
PROPERTY EventuallyCommitted
CHECK_DEADLOCK FALSE
