SPECIFICATION SensorsSpec
CONSTANTS
    Items <- MCItems
    ItemCap = 2
    Grace = 1
    Enabled <- MCEnabled
    Runs = {r1, r2}
    None = None
SYMMETRY Symmetry
INVARIANT Reconciled
PROPERTY GraceHonoured
