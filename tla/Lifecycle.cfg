SPECIFICATION Spec
CONSTANTS
    Services = {"ingestion", "query-api", "persistence-worker", "analytics-worker", "webhook-worker"}
    Requests = {r1, r2}
    MaxFaults = 2
INVARIANTS LifecycleInv ServesComplete ReleasedAtExit CutOnlyAtEnd
PROPERTIES ClosedInReverse EventuallyExits
CHECK_DEADLOCK FALSE
