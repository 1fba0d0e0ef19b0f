SPECIFICATION Spec
CONSTANTS
    lamp = lamp
    mugs = mugs
    Items <- MCItems
    Multi <- MCMulti
    ListCuts = FALSE
    ClassCuts = FALSE
    ClassFails = FALSE
    MaxRestarts = 1
    MaxTold = 2
PROPERTIES SaleAnnounced EndAnnounced
