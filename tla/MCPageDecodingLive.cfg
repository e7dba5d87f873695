SPECIFICATION FairPageSpec
CONSTANTS
    root = root
    child = child
    successor = successor
    NoTask = NoTask
    Nodes <- OneRoot
    Roots = {root}
    Place <- MCPlace
    Kin <- RootKin
    Views <- MCViews
    Patterns = {}
    MaxTasks = 3
    TextureReuse = FALSE
    ReloadDuringZoom = TRUE
INVARIANT ShownIsNotReleased
PROPERTIES DecodingEnds CloseSettles
CHECK_DEADLOCK FALSE
