\* Every form of response, of every dialect.
SPECIFICATION RSpec
CONSTANTS
    Streaming = {"openai", "anthropic", "google", "ollama", "responses", "claude"}
    Forms = {"stream", "inband", "whole", "failed", "raw", "fatal"}
    Statuses = {200, 204, 302, 400, 401, 403, 404, 429, 500, 503}
    Headers <- MCHeaders
    Now <- MCNow
    MaxFrames <- Two
    MaxBlocks = 2
    ErrorThenDone = TRUE
    ResultMidBlock = TRUE
    HeadCap = 1
    MaxChunk = 1
INVARIANTS WholeIsTheStream FailureIsJudgedAlike RetryAfterIsTheDistance SinkShowsTheAnswer
PROPERTIES CanonicalInAnyForm RTerminates
