\* A child that closes its output and stays.
SPECIFICATION FairSpec
CONSTANTS
    Envelopes = {"body", "http"}
    Budgets = {TRUE}
    ChannelCap = 1
    ChunkMax = 2
    HeadLen = 1
    PipeCap = 1
    ErrCap = 1
    MaxIn = 2
    MaxOut = 2
    MaxErr = 2
    Broken = Broken
PROPERTIES SilenceIsBounded
