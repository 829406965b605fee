SPECIFICATION PSpec
CONSTANTS
    keyA = keyA
    keyB = keyB
    keyC = keyC
    keyD = keyD
    keyP = keyP
    keyQ = keyQ
    keyS = keyS
    keyU = keyU
    u1 = u1
    a1 = a1
    b1 = b1
    c1 = c1
    d1 = d1
    p1 = p1
    q1 = q1
    q2 = q2
    s1 = s1
    n1 = n1
    n2 = n2
    NoPod = NoPod
    NoKey = NoKey
    NoNode = NoNode
    Keys = {keyA, keyB, keyC, keyD, keyP, keyQ, keyS, keyU}
    Pods = {a1, b1, c1, d1, p1, q1, q2, s1, u1}
    Nodes = {n1, n2}
    KeyOf <- MCKeyOf
    Priority <- MCPriority
    Memory <- MCMemory
    Created <- MCCreated
    Size <- MCSize
    Allowed <- MCAllowed
    Refusable = {q1}
    Duration <- MCDuration
    Grace <- MCGrace
    Capacity = 2
    Replacements = {q2}
    Placed = {a1, b1, c1, d1}
    Deleted = {keyP}
    Offset = 100
    MaxTime = 4
    Calls = {}
INVARIANTS
    PTypeOK
    HighestPriorityFirst
    NominationsLive
    EvictsOnOneNode
    ReservedRoom
    CheapestNode
    VictimsNeeded
CHECK_DEADLOCK FALSE
