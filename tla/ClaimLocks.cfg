\* Two orders with one event each: batches of two that are abandoned in the middle, and
\* sweeps that lock two rows in different orders.
CONSTANTS
    o1 = o1
    o2 = o2
    w1 = w1
    w2 = w2
    Aggregates = {o1, o2}
    Workers = {w1, w2}
    MaxVersion = 1
    BatchSize = 2
    MaxAttempts = 1
    OperatorCap = 0
    Rank <- RowRank
SPECIFICATION FairSpec
PROPERTIES
    TransactionsEnd
    AbandonedAreFound
    SweptIsExpired
