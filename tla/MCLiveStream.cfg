SPECIFICATION FairSpec
CONSTANTS
    v1 = v1
    v2 = v2
    Viewers <- MCViewers1
    MaxEvents = 4
    RingCapacity = 2
    PageSize = 2
    MaxConnections = 3
CHECK_DEADLOCK FALSE
INVARIANTS
    TypeOK
    ViewerHoldsPrefix
    EofIsComplete
PROPERTIES
    ConnectedViewerGetsEvent
    ResponseEnds
