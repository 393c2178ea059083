SPECIFICATION Spec
CONSTANTS
    Windows = {w1, w2}
    Calls = {c1, c2}
    MaxTyped = 4
    MaxLost = 1
    MaxRows = 3
    Sizes = {1, 2}
    MaxAsked = 2
    MaxDone = 4
INVARIANTS
    ShownFitsQuery
    WalkMissesNothing
PROPERTIES
    UneditedStays
SYMMETRY Swaps
CHECK_DEADLOCK FALSE
