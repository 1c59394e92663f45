\* Two maps, three keys; memory for four nodes, so that copies run out of it.
CONSTANTS
    Maps = {m1, m2}
    Keys = {k1, k2, k3}
    Values = {v0, v1}
    Default = v0
    Addresses = {1, 2, 3, 4}
    Nothing = Nothing
SYMMETRY Symmetry
SPECIFICATION Spec
INVARIANTS
    NomapInv
    EqualIsSameElements
PROPERTIES
    ImplementsOrderedMap
