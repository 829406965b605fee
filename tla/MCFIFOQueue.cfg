SPECIFICATION HSpec
CONSTANTS
    a = a
    b = b
    c = c
    a1 = a1
    a2 = a2
    b1 = b1
    c1 = c1
    x1 = x1
    NoPod = NoPod
    NoKey = NoKey
    Keys = {a, b, c}
    Pods = {a1, a2, b1, c1, x1}
    KeyOf <- MCKeyOf
    MaxQueue = 5
INVARIANTS
    TypeOK
    NoPodStranded
PROPERTIES
    FirstInFirstOut
    ImplementsPodQueue
