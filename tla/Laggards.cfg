SPECIFICATION FairSpec
CONSTANTS
    pvA = pvA
    pvB = pvB
    shape = shape
    other = other
    NotATable = NotATable
    NoType = NoType
    NoLimit = NoLimit
    PVs <- MCPVs
    Shapes <- MCShapes
    Garbage <- MCGarbage
    Feeds <- GapFeeds
    Sizes = {1, 2}
    SentShapes = {shape, NotATable}
    SentRagged = {FALSE, TRUE}
    MaxSkew = NoLimit
    Period = 2
    Timeout = 3
INVARIANTS
    TypeOK
    TypeDescribesBuffers
    CachedTimesAreExact
    ValidMeansAligned
    ShownInOrder
    NeverPostsEmpty
PROPERTIES
    CatchesUp
    RowsAreShownOrPassedOver
CHECK_DEADLOCK FALSE
