SPECIFICATION MCSpec
CONSTANTS
    a = a
    b = b
    Players = {a}
    Numbers = {3, 5}
    Configured <- Alike
    Interfaced = {}
    TwoInterfaces = {a}
    Decks = {5}
    DeckPeriod = 6
    Assignable = {0, 3}
    MaxDelay = 1
    MaxLost = 1
INVARIANTS
    DecksUndisturbed
PROPERTIES
    DeckGetsItsNumber
