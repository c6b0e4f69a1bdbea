SPECIFICATION Spec
CONSTANTS
    q1 = q1
    q2 = q2
    Nobody = Nobody
    Queries <- Pair
    Polled <- First
    MaxConcurrent = 2
    Capacity = 1
    MaxEvents = 1
    MaxRestarts = 1
CHECK_DEADLOCK FALSE
INVARIANTS
    TypeOK
    PermitsConserved
    TraceMatchesStatus
    ResultsMatchRuns
    RunningForACause
PROPERTIES
    AnswersMoveOn
    UsesReliableLog
