SPECIFICATION Spec
CONSTANTS
    Workers = {w1}
    Events = {e1}
    Subs = {s1}
    e1 = e1
    e2 = e2
    s1 = s1
    SubsOf <- Tables
    Batches <- Single
    NoDelivery = NoDelivery
    DeliveryLease = 2
    MaxHold = 1
    MaxTime = 4
    MaxFaults = 1
INVARIANT NoSilentLoss
CHECK_DEADLOCK FALSE
