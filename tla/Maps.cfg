CONSTANTS
    Keys = {k1, k2, k3, k4}
    Values = {v1, v2}
    Hashes = {0, 3, 7}
    Smallest = 4
    Largest = 8
SPECIFICATION Spec
INVARIANTS TableInv
PROPERTIES IsFiniteMap
SYMMETRY Symmetry
CHECK_DEADLOCK FALSE
