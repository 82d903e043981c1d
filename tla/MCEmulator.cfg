SPECIFICATION Spec
CONSTANTS
    Turns = {1, 3}
    Offset = 2
    Free = 3
    Written = {0, 1, 3}
    MaxShown = 1
    MaxWrites = 2
INVARIANTS TypeOK DeliveredOnce ButtonTellsState ExpiryIsArmed NewsIsFlagged
CHECK_DEADLOCK FALSE
