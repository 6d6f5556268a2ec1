\* Two processes, two logins, every server policy; two logins of every kind.
SPECIFICATION MCSpec
CONSTANTS
    None = None
    WrongKind = WrongKind
    Refused = Refused
    Busy = Busy
    Runs = {r1, r2}
    HasAmbient = TRUE
    Policies = {"keeps", "single_use", "revokes"}
    SKEW = 1
    Life = 2
    MaxLogins = 2
    MaxSerial = 2
    MaxTime = 3
    Wires = {"rfc8628", "codex", "loopback", "fixed"}
    DEFAULT_INTERVAL = 1
    Intervals = {0}
    Expiries = {0, 2}
    MaxTries = 2
SYMMETRY Symmetric
INVARIANTS BorrowedStaysBorrowed UsedWasPersisted SentTokensAreFresh AccountIsTheTokens
PROPERTIES LoginServes LoginHeedsTheUser
