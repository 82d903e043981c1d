SPECIFICATION Spec
CONSTANTS
    Turns = {1}
    Offset = 2
    Free = 3
    Written = {0, 1, 2, 3}
    MaxShown = 1
    MaxWrites = 2
PROPERTIES OnlyHostOpens
CHECK_DEADLOCK FALSE
