SPECIFICATION FairSpec
CONSTANTS
    n1 = n1
    n2 = n2
    v1 = v1
    v2 = v2
    p1 = p1
    NoTask = NoTask
    Nodes <- MCNodes
    Views <- MCViews
    Patterns <- MCPatterns
    MaxTasks = 4
INVARIANTS
    TypeOK
    LiveIsRegistered
    RegisteredIsPending
    QueuedIsLive
PROPERTIES
    BoardSpec
    OnlyShutdownAfterRecycle
    SearchNotDropped
    RequestSettles
    RecycleTerminates
    SearchSettles
CHECK_DEADLOCK FALSE
