SPECIFICATION FairSpec
CONSTANTS
    Bar = 12
    Beat = 6
    Kinds = {"bar", "beat"}
    Precisions = {"fine", "coarse"}
    AcquireObs <- Acquires
    JumpThreshold <- Thresholds
    JumpHold <- Holds
    JumpObs <- Observations
    LockTimeout = 3
    MaxAhead = 1
    ReportPeriod = 2
    Lags <- ReportLags
    Errors <- Mistakes
    Shifts = {3}
    Rewinds = {4}
    MaxTrouble = 2
PROPERTIES
    SnapsAreEarned
    NoNeedlessSnap
    Converges
