SPECIFICATION FairSpec
CONSTANTS
    MaxWorkers = 3
    MaxClicks = 3
PROPERTIES DisconnectLasts
CHECK_DEADLOCK FALSE
