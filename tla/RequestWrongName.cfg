\* The name a provider is told for the result of a call.
SPECIFICATION Spec
CONSTANTS
    Lookback = 2
    Scenes <- MCScenesWandering
INVARIANTS ResultsNameTheirCalls
CHECK_DEADLOCK FALSE
