SPECIFICATION FairSpec
CONSTANTS
    a = a
    b = b
    Players = {a, b}
    Numbers = {3, 5}
    Configured <- Alike
    Interfaced = {a, b}
    TwoInterfaces = {}
    Decks = {}
    DeckPeriod = 6
    Assignable = {0}
    MaxDelay = 0
    MaxLost = 0
PROPERTIES
    NoLastingClash
