\* One partition, two consumers, three records with repeats.
CONSTANTS
    p = p
    created1 = created1
    created2 = created2
    other = other
    poison = poison
    Partitions = {p}
    Consumers = {c1, c2}
    Messages = {created1, created2, other, poison}
    PartitionOf <- MCPartitionOf
    Kind <- MCKind
    MaxLog = 3
SPECIFICATION FairSpec
INVARIANTS
    CommittedIsProjected
    NoOvertaking
    IndInv
PROPERTIES
    EndsProjected
