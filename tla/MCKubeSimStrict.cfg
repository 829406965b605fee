SPECIFICATION OSpec
CONSTANTS
    a = a
    b = b
    c = c
    p1 = p1
    p2 = p2
    p3 = p3
    p4 = p4
    x = x
    NoPod = NoPod
    NoKey = NoKey
    NoNode = NoNode
    NoSubmitter = NoSubmitter
    Keys = {a, b, c}
    KeyOf <- MCKeyOf
    Duration <- MCDuration
    Grace <- MCGrace
    Priority <- MCPriority
    Tick = 2
    Pods = {p1, p2, p3, p4, x}
    Nodes = {n1}
    Submitters = {s1, s2}
    Fits <- MCFits
    Refusable = {p2}
    Broken = {p4}
    MetricsTick = 4
    EndClock = 6
    KeepScheduling = FALSE
    KeepSchedulingTimeout = 1
    PreemptionEnabled = TRUE
    Resubmission = TRUE
    Faults = {"submitter", "plugin", "writer", "cancel"}
INVARIANTS
    LivePodsReachable
    StartedInOrder
PROPERTY
    LifeIsOneWay
CHECK_DEADLOCK FALSE
