SPECIFICATION FairSpec
CONSTANTS
    MaxRunning = 2
    LastEvent = 2
    MaxRetries = 1
    Threshold = 2
    MaxIncidents = 1
INVARIANTS TypeOK NothingForgotten InOrder StreakIsNoticed
PROPERTIES SuccessIsFinal EventSettles
CHECK_DEADLOCK FALSE
