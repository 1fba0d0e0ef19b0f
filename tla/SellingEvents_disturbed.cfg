SPECIFICATION Spec
CONSTANTS
    lamp = lamp
    mugs = mugs
    Items <- MCItems
    Multi <- MCMulti
    ListCuts = TRUE
    ClassCuts = TRUE
    ClassFails = TRUE
    MaxRestarts = 0
    MaxTold = 2
INVARIANTS EndOnce EventsTrue AddedOnce CompletedOnce
