SPECIFICATION FairSpec
CONSTANTS
    MaxWorkers = 3
    MaxClicks = 3
INVARIANTS PollerHoldsPort EndedReleasesPort NoCallAfterTerminate
PROPERTIES TerminatedEnds
CHECK_DEADLOCK FALSE
