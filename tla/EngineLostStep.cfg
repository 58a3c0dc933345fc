SPECIFICATION Spec
CONSTANTS
    Splits = {FALSE}
    Warm = TRUE
    Block = 1
    PendingCapacity = 8
    MaxPosition = 13
    Swing = 0
    StepLens = {8}
    PatternLen = 2
    FlamSteps = {1}
    FlamSamples = 1
    Lookahead = 6
    SnapGrace = 1
    QueueCapacities = {16}
    FlushReserve = 2
    CommittedBlocks = 2
    QueuedMemory = 8
    Shifts <- BackAndForth
    Slews <- SmallSlews
    RunLengths = {3}
    Values = {}
    Ops <- ResyncOps
    MaxCalls = 4
    MaxLag = 1
    TickBlocks = 1
INVARIANTS
    RunLength
