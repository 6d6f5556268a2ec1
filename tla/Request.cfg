\* What every provider is sent, for clients of every dialect.
SPECIFICATION Spec
CONSTANTS
    Lookback = 2
    Scenes <- MCScenes
INVARIANTS HeardAsSaid ResultsFollowTheirCalls SwitchesFreely OwnReasoningReturns CacheStaysWarm
INVARIANTS PreparedAsPromised SameDialectIsTransparent
CHECK_DEADLOCK FALSE
