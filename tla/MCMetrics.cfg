SPECIFICATION Spec
CONSTANTS
    a = a
    b = b
    e = e
    n1 = n1
    n2 = n2
    NoKey = NoKey
    Nodes = {n1, n2}
    Keys = {a, b, e}
    Capacity <- MCCapacity
    Clusters <- MCClusters
    Word = 64
    Penalties = {2600}
    Qualities = {500}
    TargetQoS = 666
INVARIANTS
    TypeOK
    AllocationWithinUsage
    CapacityShared
    GuaranteeKept
    NoPenaltyWithoutOverload
CHECK_DEADLOCK FALSE
