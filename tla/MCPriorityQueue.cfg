SPECIFICATION Spec
CONSTANTS
    a = a
    b = b
    c = c
    d = d
    e = e
    f = f
    a1 = a1
    a2 = a2
    b1 = b1
    c1 = c1
    d1 = d1
    e1 = e1
    f1 = f1
    x1 = x1
    NoPod = NoPod
    NoKey = NoKey
    NoNode = NoNode
    Keys = {a, b, c, d, e, f}
    Pods = {a1, a2, b1, c1, d1, e1, f1, x1}
    Nodes = {}
    KeyOf <- MCKeyOf
    Priority <- MCPriority
    Memory <- MCMemory
    Created <- MCCreated
    MaxTime = 2
    Calls = {"Delete", "Update"}
INVARIANTS
    KeysMatchItems
    FrontFirst
PROPERTIES
    ImplementsPodQueue
