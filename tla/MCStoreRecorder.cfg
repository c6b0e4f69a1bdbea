SPECIFICATION FairSpec
CONSTANTS
    c1 = c1
    c2 = c2
    c3 = c3
    r1 = r1
    r2 = r2
    Nobody = Nobody
    Callers <- MCCallers2
    RunIds <- MCRuns1
    QueueCapacity = 2
    MaxCalls = 4
CHECK_DEADLOCK FALSE
INVARIANTS
    TypeOK
    PersistedInAcceptedOrder
    FinishBarrier
    CleanShutdownDrains
PROPERTIES
    ImplementsReliableLog
    ImplementsStore
    CallsReturnUnlessStranded
    AcceptedIsPersistedOrFails
