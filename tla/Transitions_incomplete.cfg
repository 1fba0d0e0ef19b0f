SPECIFICATION Spec
CONSTANTS
    Kinds <- MCKinds
    Ids = {i1, i2}
    None = None
SYMMETRY Symmetry
PROPERTY QuietWhenIncomplete
