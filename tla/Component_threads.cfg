SPECIFICATION FairSpec
CONSTANTS
    MaxTimers = 2
    MaxCalls = 1
    MaxPipe = 2
    MaxEvents = 1
INVARIANTS
    TypeOK
    PeriodicObeys
    PortsDeletedUnused
PROPERTIES
    PeriodicFires
    TerminateEnds
CHECK_DEADLOCK FALSE
