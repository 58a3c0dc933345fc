SPECIFICATION Spec
CONSTANTS
    Splits = {TRUE, FALSE}
    Warm = TRUE
    Block = 1
    PendingCapacity = 8
    MaxPosition = 10
    Swing = 1
    StepLens = {8, 12}
    PatternLen = 2
    FlamSteps = {1}
    FlamSamples = 1
    Lookahead = 6
    SnapGrace = 1
    QueueCapacities = {16}
    FlushReserve = 2
    CommittedBlocks = 2
    QueuedMemory = 4
    Shifts <- BackAndForth
    Slews <- SmallSlews
    RunLengths = {}
    Values = {}
    Ops <- JumpOps
    MaxCalls = 3
    MaxLag = 1
    TickBlocks = 1
INVARIANTS
    SoundsOnce
    StepsCome
