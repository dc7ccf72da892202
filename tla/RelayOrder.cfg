\* One order with two events, two relays, one manual retry.
CONSTANTS
    o1 = o1
    o2 = o2
    w1 = w1
    w2 = w2
    Aggregates = {o1}
    Workers = {w1, w2}
    MaxVersion = 2
    BatchSize = 2
    MaxAttempts = 2
    OperatorCap = 1
    Rank <- VersionMajorRank
SPECIFICATION Spec
SYMMETRY WorkerSymmetry
INVARIANTS
    FirstCopiesInOrder
    PublishedIsInLog
    OneCopyPerClaim
    AtMostOneOwner
    IndInv
PROPERTIES
    PublishedIsFinal
    FreshLeaseIsProtected
    DeliverySpec
