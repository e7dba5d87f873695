SPECIFICATION Spec
CONSTANTS
    InitPoolSize = 1
    MaxPoolSize = 2
    MaxTasks = 4
    Daemons = {}
INVARIANT
    WaitsForBusyThread
CHECK_DEADLOCK FALSE
