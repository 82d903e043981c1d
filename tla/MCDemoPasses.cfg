SPECIFICATION FairSpec
CONSTANTS
    Turns = 1
    Cards <- MCCards
    Blanks = {0}
    Codes <- MCCodes
    MaxCodes = 2
    MaxStarts = 2
    MaxPresented = 2
INVARIANTS SingleUse UsesAreRecorded NoPassOverwritten
PROPERTIES ReadersAreServed StoppedThreadEnds
