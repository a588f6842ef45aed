SPECIFICATION Spec
CONSTANTS
    Partitions = {p1}
    Workers = {w1}
    e1 = e1
    e2 = e2
    Events = {e1, e2}
    NoEvent = NoEvent
    NoWorker = NoWorker
    Length = 2
    Backlogs <- AllBacklogs
    MaxFaults = 0
    BatchSize = 2
SYMMETRY Symmetry
INVARIANT FailuresDeadLettered
CHECK_DEADLOCK FALSE
