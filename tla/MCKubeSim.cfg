SPECIFICATION WSpec
CONSTANTS
    a = a
    b = b
    c = c
    p1 = p1
    p2 = p2
    p3 = p3
    p4 = p4
    x = x
    NoPod = NoPod
    NoKey = NoKey
    NoNode = NoNode
    NoSubmitter = NoSubmitter
    Keys = {a, b, c}
    KeyOf <- MCKeyOf
    Duration <- MCDuration
    Grace <- MCGrace
    Priority <- MCPriority
    Tick = 2
    Pods = {p1, p2, p3, p4}
    Nodes = {n1, n2}
    Submitters = {s1}
    Fits <- MCFits
    Refusable = {p3}
    Broken = {}
    MetricsTick = 4
    EndClock = 6
    KeepScheduling = TRUE
    KeepSchedulingTimeout = 1
    PreemptionEnabled = FALSE
    Resubmission = FALSE
    Faults = {"plugin", "writer", "cancel"}
INVARIANTS
    TypeOK
    NoOverCommit
    NoPodLost
    NoPodTwice
    LivePodsReachable
    AllPodsProcessed
    BoundedWait
PROPERTIES
    RunReturns
CHECK_DEADLOCK FALSE
