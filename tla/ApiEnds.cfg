\* Three requests, two connections.
CONSTANTS
    r1 = r1
    r2 = r2
    r3 = r3
    Requests = {r1, r2, r3}
    PoolSize = 2
SPECIFICATION FairSpec
CHECK_DEADLOCK FALSE
INVARIANTS
    PoolMovesOn
PROPERTIES
    RequestsEnd
    ShutdownEnds
