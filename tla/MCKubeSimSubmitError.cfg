SPECIFICATION WSpec
CONSTANTS
    a = a
    b = b
    c = c
    p1 = p1
    p2 = p2
    p3 = p3
    p4 = p4
    x = x
    NoPod = NoPod
    NoKey = NoKey
    NoNode = NoNode
    NoSubmitter = NoSubmitter
    Keys = {a, b, c}
    KeyOf <- MCKeyOf
    Duration <- MCDuration
    Grace <- MCGrace
    Priority <- MCPriority
    Tick = 2
    Pods = {p1, p2}
    Nodes = {n1}
    Submitters = {s1}
    Fits <- MCFits
    Refusable = {}
    Broken = {}
    MetricsTick = 4
    EndClock = 4
    KeepScheduling = TRUE
    KeepSchedulingTimeout = 1
    PreemptionEnabled = FALSE
    Resubmission = FALSE
    Faults = {"submitter"}
INVARIANT AllPodsProcessed
CHECK_DEADLOCK FALSE
