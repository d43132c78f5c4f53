SPECIFICATION FairSpec
CONSTANTS
    Callers = {operation}
    MaxGeneration = 3
PROPERTY NoCrashLoop
