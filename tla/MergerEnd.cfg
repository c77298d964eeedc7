SPECIFICATION Spec
CONSTANTS
    pvA = pvA
    pvB = pvB
    shape = shape
    other = other
    NotATable = NotATable
    NoType = NoType
    Connected = Connected
    Disconnected = Disconnected
    PVs <- MCPVs
    Shapes <- MCShapes
    Garbage <- MCGarbage
    PVList <- BothListed
    Inputs <- Retyped
    QueueSize = 3
    Period = 2
    Timeout = 3
    CommandLines <- HandWritten
    Numerals <- SmallNumerals
INVARIANTS
    EndIsOrderly
CHECK_DEADLOCK FALSE
