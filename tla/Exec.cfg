\* Both envelopes.  Without a budget the processes exit some day; with one they may stay.
SPECIFICATION PatientSpec
CONSTANTS
    Envelopes = {"body", "http"}
    Budgets = {TRUE, FALSE}
    ChannelCap = 1
    ChunkMax = 2
    HeadLen = 1
    PipeCap = 2
    ErrCap = 1
    MaxIn = 1
    MaxOut = 2
    MaxErr = 2
    Broken = Broken
INVARIANTS NoZombie FailureIsReported
PROPERTIES IsByteStream OutputWaitEnds
