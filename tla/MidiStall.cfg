SPECIFICATION MidiSpec
CONSTANTS
    Fine = 120
    Bar = 8
    Window = 12
    MinFit = 6
    MaxRejected = 4
    ConfirmFit = 8
    MinPeriod = 1
    MaxPeriod = 20
    PulsePeriods = {4, 5}
    Spacing = 1
    Stalls = {16}
    Wilds <- MCWilds
    Steady = 18
    MaxMessages = 1
    MaxTroubles = 2
INVARIANT
    NoFalseTempo
