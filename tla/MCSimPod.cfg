SPECIFICATION PodSpec
CONSTANTS
    MaxPhases = 5
    InlineLengths = {0, 1, 3}
    FileLengths = {2, 3, 5}
    InlineSpecs <- MCInlineSpecs
    FileSpecs <- MCFileSpecs
    LOAD_PHASE_CACHE = 2
    Tick = 2
    GracePeriod = 3
    EndAge = 26
INVARIANTS
    UsageOfThePhase
    NeverUnreachable
    RunsAllPhases
CHECK_DEADLOCK FALSE
