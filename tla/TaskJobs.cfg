CONSTANTS
    TaskCount = 1
    JobIds = {1, 2}
    Firings = {f1, f2}
    BatchSize = 1
    MAX_RETRY_ATTEMPTS = 3
    MaxStalled = 1
    CountsStart = TRUE
    DbFails = TRUE
    QueueFails = TRUE
    Crashes = TRUE
    Null = Null
SPECIFICATION FairSpec
INVARIANTS
    TypeOK
    OnePassAtATime
    AllButOneUsed
PROPERTIES
    EveryJobEnds
    EveryPassEnds
