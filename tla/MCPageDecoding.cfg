SPECIFICATION PageSpec
CONSTANTS
    root = root
    child = child
    successor = successor
    NoTask = NoTask
    Nodes <- MCNodes
    Roots = {root}
    Place <- MCPlace
    Kin <- MCKin
    Views <- MCViews
    Patterns = {}
    MaxTasks = 2
    TextureReuse = TRUE
    ReloadDuringZoom = TRUE
INVARIANTS
    PageTypeOK
    ProgressCounts
    DecodingIsAwaited
    NoImageLost
CHECK_DEADLOCK FALSE
SYMMETRY Symmetry
