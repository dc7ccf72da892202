\* One order with two events, copies of them, a poisoned record in each of two partitions.
CONSTANTS
    o1 = o1
    poison = poison
    elsewhere = elsewhere
    p = p
    q = q
    Aggregates = {o1}
    MaxVersion = 2
    CopyCap = 2
    Partitions = {p, q}
    Consumers = {c1}
    PartitionOf <- MCPartitionOf
    Foreign = {poison, elsewhere}
    MaxLog = 3
SPECIFICATION FlowFairSpec
INVARIANTS
    CreationIsKnownFirst
PROPERTIES
    PublishedIsProjected
