\* Every dialect.
SPECIFICATION Spec
CONSTANTS
    Streaming = {"openai", "anthropic", "google", "ollama", "responses", "claude"}
    MaxFrames <- Long
    MaxBlocks = 2
    ErrorThenDone = TRUE
    ResultMidBlock = TRUE
    HeadCap = 2
    MaxChunk = 2
INVARIANTS NoSilentTruncation EndTellsTheTruth
PROPERTIES IsCanonicalStream
