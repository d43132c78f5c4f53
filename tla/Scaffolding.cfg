SPECIFICATION FairSpec
CONSTANTS
    Members = {m1, m2}
    Twins = {m2}
    Host = Host
    Probes = {p1}
    PlayerTimeout = 2
    CleanupInterval = 2
    RequestTimeout = 2
    LockWait = 1
INVARIANTS
    TypeOK
    HostIsUnique
    
    HeardAreListed
PROPERTIES
    ExchangesEnd
