\* The replay stash: every writer has a temp name of its own, and entries age out.
SPECIFICATION Spec
CONSTANTS
    a = a
    b = b
    v1 = v1
    v2 = v2
    None = None
    Procs = {a, b}
    Writers = {a, b}
    Names = {a, b}
    TempOf <- OwnTemp
    Values = {v1, v2}
    Inodes = {i1, i2, i3}
    Evicts = TRUE
SYMMETRY Symmetric
INVARIANTS ReadsAreWhole DurableIsWhole
PROPERTIES IsAtomic
