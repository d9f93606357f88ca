SPECIFICATION Spec
CONSTANTS
    Keys = {0, 1, 2}
    Data = {d1, d2, d3, d4, d5, d6}
    Width = 3
    NONE = NONE
SYMMETRY Symmetry
INVARIANTS
    HeapOrdered
PROPERTIES
    Implements
    RemovePredExact
