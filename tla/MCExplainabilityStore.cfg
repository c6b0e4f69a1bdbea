SPECIFICATION Spec
CONSTANTS
    RunIds <- MCRunIds
    Records <- MCRecords
    Kinds <- MCKinds
    Methods <- MCMethods
    Times <- MCTimes
    MaxSequence = 2
    MaxBatch = 2
    MaxPage = 3
INVARIANTS
    TypeOK
    HistoryExact
    PagingIsExact
PROPERTY TerminalIsFrozen
