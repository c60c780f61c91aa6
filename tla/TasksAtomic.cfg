CONSTANTS
    u1 = u1
    t1 = t1
    t2 = t2
    Users = {u1}
    TaskIds = {t1, t2}
    Reqs = {r1, r2}
    Statuses = {"PENDING", "COMPLETED"}
    Priorities = {"MEDIUM", "HIGH"}
    Details = {"old", "new"}
    Overdue = {"old"}
    Filters <- MCAnyFilter
    Sent <- MCSentOne
    Ops = {"create", "update", "complete", "remove"}
    Tables <- MCOneTask
    Null = Null
    Unborn = Unborn
    Deleted = Deleted
    DbFails = TRUE
    QueueFails = TRUE
    Restarts = TRUE
    MaxFallbackSize = 2
    CommandsFail = FALSE
    Flips = FALSE
    StartsAvailable = {TRUE}
SPECIFICATION FairSpec
PROPERTIES
    TakesEffectAtOnce
    EveryCallReturns
