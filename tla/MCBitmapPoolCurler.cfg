SPECIFICATION Spec
CONSTANTS
    decoder = decoder
    ui = ui
    r1 = r1
    r2 = r2
    r3 = r3
    b1 = b1
    NoRef = NoRef
    NoBitmaps = NoBitmaps
    Threads <- TwoThreads
    Getters <- TwoThreads
    Adders <- Nobody
    Drainers <- DecoderOnly
    Cleaners <- Nobody
    Refs <- ThreeRefs
    Bitmaps <- OneBitmaps
    Heights <- OneHeight
    TileHeight = 1
    Limit = 2
    Threshold = 1
    MaxDrift = 0
    MaxHeld = 1
    MaxQueue = 1
SYMMETRY PoolSymmetry
INVARIANTS
    ReleasedWasUsed
CHECK_DEADLOCK FALSE
