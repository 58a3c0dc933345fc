SPECIFICATION AppSpec
CONSTANTS
    Connections = {c1, c2}
    Peers = {lan, local}
    Loopback = local
    MaxConnections = 2
    MaxPerPeer = 1
    DeviceNumbers = {1, 2}
    Targets = {2}
    MaxInputs = 3
    MaxReports = 4
    Needed = {1, 2}
    ShortSize = 1
    MaxMessage = 3
    Texts <- MCTexts
    MaxFrames = 3
    Players = {1, 2}
    RoundTrips = {1, 2}
    OFFSET_WINDOW = 2
    MaxOnWire = 1
    MaxChange = 2
    Full = 4
    BurstEvery = 3
    Velocities = {0, 1, 2, 4}
    Levels = {0, 3}
    MaxCalls = 4
    Patterns = {{0}, {1}, {2}, {5}, {6}, {9}, {7, 8}}
INVARIANTS
    SilenceHolds
    SlotsAreCounted
    PictureIsCurrent
    LabelCatchesUp
    ClientIsServed
    FedTruly
PROPERTIES
    RetriggerIsSeamless
    HitsEnd
    EveryoneLeaves
    IsFedAgain
CHECK_DEADLOCK FALSE
