SPECIFICATION FairSpec
CONSTANTS
    Callers = {operation, restart}
    MaxGeneration = 3
INVARIANTS TypeOK ClientIsCurrent NoOrphan CrashIsNoticed
PROPERTIES CrashChargedToOwned CallsEnd CrashDropsClient
