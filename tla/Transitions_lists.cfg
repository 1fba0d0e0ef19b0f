SPECIFICATION Spec
CONSTANTS
    Kinds <- MCKinds
    Ids = {i1, i2}
    None = None
SYMMETRY Symmetry
INVARIANT BidTold
PROPERTIES FarewellOnce AddedNew OrderToldOnce CrossingTold
