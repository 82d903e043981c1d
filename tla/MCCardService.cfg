SPECIFICATION FairSpec
CONSTANTS
    Files <- MCFiles
    Shown <- MCShown
    MaxFile = 6
    MaxLines = 3
    CardDataLength = 3
    Overrun = {}
    LineLength = 3
    Lossy = TRUE
    TarSize = 5
    Stale = {0}
    ShownAt <- MCShownAt
    Opening = {"exit"}
INVARIANTS NoGrantWithoutCard OnlyKnownGranted NoGrantOverwritten
PROPERTIES CardsAreRead
