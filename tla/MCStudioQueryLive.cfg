SPECIFICATION FairSpec
CONSTANTS
    q1 = q1
    q2 = q2
    Nobody = Nobody
    Queries <- Pair
    Polled <- None
    MaxConcurrent = 1
    Capacity = 1
    MaxEvents = 1
    MaxRestarts = 1
CHECK_DEADLOCK FALSE
PROPERTIES
    TaskEnds
