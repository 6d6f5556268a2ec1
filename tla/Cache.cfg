\* Two processes that ask and list, with reads that may fail.
SPECIFICATION Spec
CONSTANTS
    None = None
    Bare = Bare
    Procs = {p1, p2}
    Names <- FewNames
    NameContains <- ByFamily
    Listings <- SomeListings
    ReadsMayFail = TRUE
SYMMETRY Symmetric
INVARIANTS ListedOnce OnlyKnownModels
PROPERTIES SuccessIsRemembered
