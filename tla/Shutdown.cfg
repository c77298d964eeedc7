SPECIFICATION FairSpec
CONSTANTS
    pvA = pvA
    pvB = pvB
    shape = shape
    other = other
    NotATable = NotATable
    NoType = NoType
    Connected = Connected
    Disconnected = Disconnected
    PVs <- MCPVs
    Shapes <- MCShapes
    Garbage <- MCGarbage
    PVList <- BothListed
    Inputs <- Retyped
    QueueSize = 3
    Period = 2
    Timeout = 3
    CommandLines <- HandWritten
    Numerals <- SmallNumerals
INVARIANTS
    MergerTypeOK
    OneTokenWhileEvents
    QueueHasRoom
    ParsedAsMeant
PROPERTIES
    EventsAreHandled
    DeathEndsProcess
CHECK_DEADLOCK FALSE
