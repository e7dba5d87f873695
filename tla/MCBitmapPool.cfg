SPECIFICATION FairSpec
CONSTANTS
    decoder = decoder
    ui = ui
    r1 = r1
    r2 = r2
    r3 = r3
    b1 = b1
    NoRef = NoRef
    NoBitmaps = NoBitmaps
    Threads <- TwoThreads
    Getters <- DecoderOnly
    Adders <- Nobody
    Drainers <- DecoderOnly
    Cleaners <- DecoderOnly
    Refs <- ThreeRefs
    Bitmaps <- OneBitmaps
    Heights <- TwoHeights
    TileHeight = 1
    Limit = 3
    Threshold = 1
    MaxDrift = 0
    MaxHeld = 1
    MaxQueue = 2
INVARIANTS
    TypeOK
    OneOwner
    UsedIsOwned
    UsedIsLive
    CountersMatch
    LimitKept
PROPERTY
    CallsReturn
CHECK_DEADLOCK FALSE
