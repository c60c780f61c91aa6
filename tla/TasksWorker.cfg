CONSTANTS
    u1 = u1
    t1 = t1
    t2 = t2
    Users = {u1}
    TaskIds = {t1}
    Reqs = {r1}
    Statuses = {"PENDING", "COMPLETED"}
    Priorities = {"MEDIUM"}
    Details = {"old", "new"}
    Overdue = {"old"}
    Filters <- MCAnyFilter
    Sent <- MCCompletion
    Ops = {"read", "create", "update"}
    Tables <- MCDoneTask
    Null = Null
    Unborn = Unborn
    Deleted = Deleted
    DbFails = TRUE
    QueueFails = TRUE
    Restarts = TRUE
    JobIds = {1}
    OtherJobs <- MCOtherJobs
    MaxFallbackSize = 2
    CommandsFail = TRUE
    Flips = FALSE
    StartsAvailable = {TRUE, FALSE}
SPECIFICATION SpecTogether
INVARIANTS
    TypeOKTogether
    NoLostUpdate
    RepairsAfterCommit
    StaleOnlyIfLeft
PROPERTY
    TakesEffectAmongHandlers
