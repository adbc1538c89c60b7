SPECIFICATION SpecWork
CONSTANTS
    WorkSetups <- MCWorkSetups
    WARN_BACKLOG = 2
    CRITICAL_BACKLOG = 3
    MAX_BACKLOG = 3
    MAX_BATCH = 2
    MaxCandle = 4
    MaxFailures = 3
INVARIANTS
    WorkTypeOK
    CandlesAreKept
PROPERTIES
    RecoversFromFew
    ReconcileIsServed
