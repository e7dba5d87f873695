SPECIFICATION UnfailingSpec
CONSTANTS
    root = root
    child = child
    successor = successor
    NoTask = NoTask
    Nodes <- OneRoot
    Roots = {root}
    Place <- MCPlace
    Kin <- RootKin
    Views <- MCViews
    Patterns = {}
    MaxTasks = 3
    TextureReuse = TRUE
    ReloadDuringZoom = TRUE
INVARIANT NewestIsShown
CHECK_DEADLOCK FALSE
