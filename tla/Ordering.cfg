\* Three requests of every kind and input that race for two orders.
CONSTANTS
    r1 = r1
    r2 = r2
    r3 = r3
    Requests = {r1, r2, r3}
    Nobody = Nobody
    Asks <- AllAsks
SPECIFICATION FairSpec
CHECK_DEADLOCK FALSE
INVARIANTS
    OutboxMirrorsOrders
    RefusalLeavesNoTrace
    SuccessIsDurable
    ConflictIsReal
    SnapshotIsWhole
PROPERTIES
    OrdersMoveWithTheirEvents
    FeedsTheChannel
    RequestsEnd
