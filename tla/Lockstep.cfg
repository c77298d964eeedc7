SPECIFICATION Spec
CONSTANTS
    pvA = pvA
    pvB = pvB
    shape = shape
    other = other
    NotATable = NotATable
    NoType = NoType
    NoLimit = NoLimit
    PVs <- MCPVs
    Shapes <- MCShapes
    Garbage <- MCGarbage
    Feeds <- LockstepFeeds
    Sizes = {1, 2, 3}
    SentShapes = {shape}
    SentRagged = {FALSE}
    MaxSkew = 2
    Period = 2
    Timeout = 4
PROPERTIES
    ImplementsAlignedMerge
CHECK_DEADLOCK FALSE
