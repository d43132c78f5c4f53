SPECIFICATION FairSpec
CONSTANTS
    NumOps = 2
    Hello = Hello
    Stop = Stop
    None = None
    RequestLimit = 3
    BusCap = 1
    EventCap = 2
    MaxEvents = 2
INVARIANTS
    TypeOK
    InitializedHasIdentity
    NewestEventArrives
    EndsForAReason
PROPERTIES
    ServesCalls
    CallsSettle

CHECK_DEADLOCK FALSE
