SPECIFICATION SplitSpec
CONSTANTS
    k1 = k1
    k2 = k2
    k3 = k3
    Keys = {k1, k2, k3}
    MaxPayloads = 3
    MaxCells = 3
INVARIANTS Unmodified
SYMMETRY KeySymmetry
CHECK_DEADLOCK FALSE
