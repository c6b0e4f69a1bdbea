SPECIFICATION FairSpec
CONSTANTS
    None = None
    Requests = {"r1", "r2", "r3"}
    Scenarios <- MCScenarios
    Question = "q0"
    FollowUps <- MCFollowUps
    MaxGenerations = 1
    MaxReads = 2
    Concurrency = 2
    Folds = 2
    MaxDepth = 2
    KFollowUps = 2
    MaxLevel = 2
    KeepParent = FALSE
    BatchSize = 2
CHECK_DEADLOCK FALSE
INVARIANTS
    TypeOK
    OneSnapshotPerKey
    RepliesLandWhereAsked
    SelectionIsExact
PROPERTY EveryRequestEnds
