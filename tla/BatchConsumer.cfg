SPECIFICATION FairSpec
CONSTANTS
    Partitions = {p1, p2}
    Workers = {w1, w2}
    e1 = e1
    e2 = e2
    Events = {e1, e2}
    NoEvent = NoEvent
    NoWorker = NoWorker
    Length = 2
    Backlogs <- KeyedBacklogs
    MaxFaults = 1
    BatchSize = 2
INVARIANTS BatchInv CommittedSettled
PROPERTIES ImplementsAtLeastOnce EventuallySettled
CHECK_DEADLOCK FALSE
