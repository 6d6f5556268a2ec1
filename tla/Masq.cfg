\* Clients of both dialects, with the answers of every provider.
SPECIFICATION Spec
CONSTANTS
    Conns = {"c1", "c2"}
    Talks = {"v1", "v2"}
    Answers <- MCAnswers
    Scenes <- MCScenes
INVARIANTS StreamIsWellFormed AggregateIsTheStream FailureIsTold PayloadIsThere
INVARIANTS ReplayIsOwnOrTold
