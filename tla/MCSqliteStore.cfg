SPECIFICATION LiveSpec
CONSTANTS
    c1 = c1
    c2 = c2
    c3 = c3
    s1 = s1
    s2 = s2
    Nobody = Nobody
    Stores <- MCStores
    Calls <- MCCalls2
    Asked <- MCAll
    RunIds <- MCRunIds
    Records <- MCRecords
    Kinds <- MCKinds
    Methods <- MCMethods
    Times <- MCTimes
    MaxSequence = 2
    MaxBatch = 1
    SqliteMax = 1
INVARIANTS
    TypeOK
    LocksHaveOwners
    OpenNeverBusy
PROPERTIES
    ImplementsStore
    EveryCallEnds
