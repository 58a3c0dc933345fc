SPECIFICATION MCSpec
CONSTANTS
    Sessions = {1, 2, 3}
    Others = {9}
    OtherNumber <- MCOtherNumber
    Configured <- MCConfigured
    Decks = {1, 2}
    Addresses = {1, 2}
    FALLBACK = {1, 2, 3}
    Discovers = {3}
    Targets = {0, 2}
    MAX_PEERS = 2
    EXPIRY = 2
    Interval = 1
    WINDOW = 2
    SLACK = 0
    MAX_GAP = 2
    MAX_UNCERTAINTY = 1
    Periods = {2, 3}
    Beats = 3
    MaxChanges = 2
    MaxLost = 1
    Platforms = {"mac", "ios"}
    Outputs = {"speaker", "headphones", "interface", "nothing"}
    RateOf <- MCRateOf
    LocalModes <- MCLocalModes
    SourceModes <- MCSourceModes
    Failing = {"link"}
    PatternTempos = {124}
    Nudges = {10}
    MaxRequests = 2
    MaxUpsets = 2
INVARIANTS
    EstimateHoldsTheBeat
    NoGhostDeck
    PairIsWhole
    ComesBackAsAsked
    ShownIsTrue
PROPERTIES
    StaysWithTheMaster
    NumbersSettle
