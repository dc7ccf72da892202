\* One order with two events, one worker process; the head of the line keeps its
\* batches at one row.
CONSTANTS
    o1 = o1
    w1 = w1
    w2 = w2
    Aggregates = {o1}
    Workers = {w1}
    MaxVersion = 2
    BatchSize = 2
    MaxAttempts = 2
    OperatorCap = 0
    Rank <- VersionRank
SPECIFICATION RunnerFairSpec
INVARIANTS
    OneRunAtATime
PROPERTIES
    ShutdownEnds
    RelayFairSpec
    Settles
