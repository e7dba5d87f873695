SPECIFICATION FairSpec
CONSTANTS
    InitPoolSize = 1
    MaxPoolSize = 2
    MaxTasks = 2
    Daemons = {1}
PROPERTY
    RunsInParallel
CHECK_DEADLOCK FALSE
