SPECIFICATION ListSpec
CONSTANTS
    Files <- MCFiles
    Shown <- MCShown
    MaxFile = 7
    MaxLines = 2
    CardDataLength = 2
    Overrun <- MCOverrun
INVARIANTS RefusedIsTooLong
CHECK_DEADLOCK FALSE
