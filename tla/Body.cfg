\* With a budget and without; every way to cut the texts into reads of 1 to 4 bytes.
SPECIFICATION BodySpec
CONSTANTS
    Budgets = {TRUE, FALSE}
    ChunkMax = 4
    MaxSent = 10
    Broken = Broken
    Texts <- MCTexts
PROPERTIES IsByteStream CallReturns
INVARIANTS FramesAreTheText
