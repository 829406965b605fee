SPECIFICATION HSpec
CONSTANTS
    p1 = p1
    p2 = p2
    p3 = p3
    n1 = n1
    n2 = n2
    a = a
    b = b
    c = c
    NoPod = NoPod
    NoKey = NoKey
    Keys = {a, b, c}
    Pods = {p1, p2, p3}
    KeyOf <- MCKeyOf
    Nodes = {n1, n2}
    Allocatable <- MCAllocatable
    Request <- MCRequest
    Usages = {0, 10}
    Scores = {0, 1}
    Extenders <- MCExtenders
    GlobalOverSubFactor = 40
    KeepSchedulingTimeout = 1
INVARIANTS
    TypeOK
    RequestsBounded
    HighestScoreSelected
PROPERTY
    OversubEarned
