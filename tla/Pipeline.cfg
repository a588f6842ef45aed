SPECIFICATION PipelineSpec
CONSTANTS
    Workers = {w1, w2}
    BatchSize = 2
    MaxStoreFaults = 1
    Events <- MCEvents
    Programs <- MCPrograms
    Requests = {r1, r2}
    NoRequest = NoRequest
    MaxBatchEvents = 2
    MaxFaults = 1
INVARIANTS PipelineInv AcceptedDurable RejectedInvisible InOrder CommittedStored FirstWins StoredInOrder SummaryExact
PROPERTY EventuallyStored
CHECK_DEADLOCK FALSE
