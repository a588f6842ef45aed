SPECIFICATION Spec
CONSTANTS
    Partitions = {p1}
    Workers = {w1, w2}
    e1 = e1
    e2 = e2
    Events = {e1, e2}
    NoEvent = NoEvent
    NoWorker = NoWorker
    Length = 3
    Backlogs <- AllBacklogs
    MaxFaults = 3
SYMMETRY Symmetry
INVARIANTS SingleInv OnlyErroredLost
CHECK_DEADLOCK FALSE
