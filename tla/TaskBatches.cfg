CONSTANTS
    TaskCount = 2
    JobIds = {1, 2}
    Firings = {f1, f2}
    BatchSize = 1
    MAX_RETRY_ATTEMPTS = 3
    MaxStalled = 1
    CountsStart = FALSE
    DbFails = FALSE
    QueueFails = FALSE
    Crashes = FALSE
    Null = Null
SPECIFICATION SpecWatched
INVARIANT PassCoversOverdue
