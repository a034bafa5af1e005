SPECIFICATION FairSpec
CONSTANTS
    MaxTimers = 2
    MaxCalls = 1
    MaxPipe = 2
    MaxEvents = 1
PROPERTY
    StartTakesEffect
CHECK_DEADLOCK FALSE
