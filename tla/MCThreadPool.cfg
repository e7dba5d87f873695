SPECIFICATION FairSpec
CONSTANTS
    InitPoolSize = 1
    MaxPoolSize = 2
    MaxTasks = 4
    Daemons = {}
INVARIANTS
    TypeOK
    EachTaskOnce
PROPERTY
    OfferedEnds
CHECK_DEADLOCK FALSE
