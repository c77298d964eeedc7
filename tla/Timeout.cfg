SPECIFICATION Spec
CONSTANTS
    Tables <- SmallTables
    Feeds <- SteadyFeeds
    Disconnect = Disconnect
    Inputs <- SmallInputs
    CommandLines <- TimeoutLine
    Numerals <- SmallNumerals
    Directories <- DataDirectory
    FullAfter = 9
    WritesTakeTime = FALSE
    MaxTime = 9
INVARIANTS
    TimeoutIsSilence
CHECK_DEADLOCK FALSE
