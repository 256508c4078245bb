SPECIFICATION FairSpec
CONSTANTS
    BatchSize = 3
    Modes <- AllModes
    MaxTokens = 3
    Cost <- TwoCosts
    MaxConcurrent = 1
    Timeout = 5
    ExecutorThreads = 2
    MaxRetries = 3
    ScoreKeys <- DictKeys
INVARIANTS
    RateKept
    PlacesKept
PROPERTIES
    BatchEnds
