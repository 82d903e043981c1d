SPECIFICATION MainSpec
CONSTANTS
    LastProbe = 4
    Devices = {1, 2, 4}
    Turnstiles = {1, 4}
    ProbeAnswers = {"merNone", "merMBDataAddress", "merMBDataValue"}
    OtherAnswers = {"merNone", "merMBFunctionCode", "merTimeout", "merWrongFromLength"}
    WordSize = 2
    MaxPasses = 3
    MaxOps = 3
INVARIANTS ServesDevice ServesFirst EndsOnlyForCause CountIsPlausible ExitShown SettingsStay
PROPERTIES DeviceIsFound
CHECK_DEADLOCK FALSE
