SPECIFICATION CoreSpec
CONSTANTS
    e1 = e1
    e2 = e2
    Nothing = Nothing
    Events <- MCEvents
    Capacity = 4
    Modulus = 8
    MaxPosition = 2
    MaxTicks = 1
    MaxPublish = 3
    SeqModulus = 8
    TapTimeout = 40
    Taps = 8
    ShortestBeat = 3
    BeatLengths = {6, 16}
    Displacements <- MCDisplacements
    SettledAfter = 18
    Fine = 120
    Bar = 8
    Window = 10
    MinFit = 4
    MaxRejected = 4
    ConfirmFit = 8
    MinPeriod = 1
    MaxPeriod = 20
    PulsePeriods = {4, 5}
    Spacing = 1
    Stalls = {18}
    Wilds <- MCWilds
    Steady = 18
    MaxMessages = 1
    MaxTroubles = 2
    u1 = u1
    u2 = u2
    Players = {u1, u2}
    Numbers = {3, 5}
    Configured <- MCConfigured
    Interfaced = {}
    TwoInterfaces = {u1, u2}
    Decks = {}
    DeckPeriod = 6
    Assignable = {}
    MaxDelay = 1
    MaxLost = 5
    Devices = {1, 33}
    Mixers = {33}
    Tempos = {120, 124}
    Targets = {0, 33}
    FollowedFirst = 0
    DEVICE_TIMEOUT = 2
    STATUS_FRESH = 1
    BEAT_WINDOW = 1
    DUPLICATE_BEAT = 0
    TwiceOnNet = TRUE
    Preempted = TRUE
    MaxQueue = 2
    MaxTime = 3
    MaxMissed = 1
    MaxChanges = 2
    MaxCommands = 1
    BarLength = 2
    MaxDisturbed = 4
SYMMETRY Units
INVARIANTS
    NoSlotRace
    GridHolds
    TempoHolds
    OneHolder
    FollowsTheMaster
PROPERTIES
    VacancyHolds
    IsFifo
    IsRegister
    YieldsToOthers
    BeatsObservedOnce
    TempoIsTold
CHECK_DEADLOCK FALSE
