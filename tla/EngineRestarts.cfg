SPECIFICATION Spec
CONSTANTS
    Splits = {TRUE, FALSE}
    Warm = TRUE
    Block = 1
    PendingCapacity = 8
    MaxPosition = 9
    Swing = 0
    StepLens = {8, 12}
    PatternLen = 2
    FlamSteps = {1}
    FlamSamples = 1
    Lookahead = 6
    SnapGrace = 1
    QueueCapacities = {3, 16}
    FlushReserve = 1
    CommittedBlocks = 2
    QueuedMemory = 8
    Shifts <- Back
    Slews <- SmallSlews
    RunLengths = {2}
    Values = {1, 2}
    Ops <- RestartOps
    MaxCalls = 3
    MaxLag = 1
    TickBlocks = 1
INVARIANTS
    OldRunSilent
    RunLength
    ParamArrives
    LogIsHeard
