SPECIFICATION Spec
CONSTANTS
    Splits = {TRUE}
    Warm = TRUE
    Block = 1
    PendingCapacity = 8
    MaxPosition = 12
    Swing = 0
    StepLens = {8}
    PatternLen = 2
    FlamSteps = {1}
    FlamSamples = 1
    Lookahead = 6
    SnapGrace = 1
    QueueCapacities = {16}
    FlushReserve = 2
    CommittedBlocks = 2
    QueuedMemory = 8
    Shifts <- BackAndForth
    Slews <- LargeSlews
    RunLengths = {}
    Values = {}
    Ops <- NudgeOps
    MaxCalls = 3
    MaxLag = 1
    TickBlocks = 1
INVARIANTS
    OldRunSilent
