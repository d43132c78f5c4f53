SPECIFICATION FairSpec
CONSTANTS
    NumOps = 2
    Hello = Hello
    Stop = Stop
    None = None
    RequestLimit = 4
    BusCap = 1
    EventCap = 2
    MaxEvents = 1
PROPERTIES
    StopEnds

CHECK_DEADLOCK FALSE
