SPECIFICATION FairSpec
CONSTANTS
    Tables <- SmallTables
    Feeds <- MixedFeeds
    Disconnect = Disconnect
    Inputs <- SmallInputs
    CommandLines <- HandWritten
    Numerals <- SmallNumerals
    Directories <- DataDirectory
    FullAfter = 0
    WritesTakeTime = TRUE
    MaxTime = 3
INVARIANTS
    WriterTypeOK
    NothingIsLost
    FilesAreUniform
    ParsedAsMeant
    FileMirrorsTable
PROPERTIES
    UpdatesAreRead
CHECK_DEADLOCK FALSE
