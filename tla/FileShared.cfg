\* The credential store and the model cache with two processes that put.
SPECIFICATION Spec
CONSTANTS
    a = a
    b = b
    v1 = v1
    v2 = v2
    None = None
    Procs = {a, b}
    Writers = {a, b}
    Names = {tmp}
    TempOf <- SharedTemp
    Values = {v1, v2}
    Inodes = {i1, i2, i3, i4}
    Evicts = FALSE
SYMMETRY SymmetricValues
INVARIANTS ReadsAreWhole
