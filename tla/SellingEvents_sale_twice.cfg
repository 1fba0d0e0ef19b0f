SPECIFICATION Spec
CONSTANTS
    lamp = lamp
    mugs = mugs
    Items <- MCItems
    Multi <- MCMulti
    ListCuts = FALSE
    ClassCuts = FALSE
    ClassFails = FALSE
    MaxRestarts = 0
    MaxTold = 2
INVARIANT SaleOnce
