SPECIFICATION Spec
CONSTANTS
    t1 = t1
    t2 = t2
    t3 = t3
    t4 = t4
    t5 = t5
    t6 = t6
    NoUse = NoUse
    Tasks = {t1, t2, t3, t4, t5, t6}
    Malformed = {t4}
    Arrival <- MCArrival
    Name <- MCName
    Rows <- MCRows
    StartTimestamp = 2
    Tick = 2
    EndClock = 6
    TotalPodsNum = 5
    TargetNum = 2
    SubfolderCap = 2
    SubsetFactors = {1, 2}
INVARIANTS
    WorkloadReplayed
    WithinTarget
    UsageAsTraced
CHECK_DEADLOCK FALSE
