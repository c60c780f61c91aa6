CONSTANTS
    u1 = u1
    t1 = t1
    t2 = t2
    Users = {u1}
    TaskIds = {t1}
    Reqs = {r1, r2}
    Statuses = {"PENDING", "COMPLETED"}
    Priorities = {"MEDIUM", "HIGH"}
    Details = {"old", "new"}
    Overdue = {"old"}
    Filters <- MCSearch
    Sent <- MCSent
    Ops = {"read", "create", "update", "remove", "complete", "delete", "unknown", "updateStatus"}
    Tables <- MCFirstTask
    Null = Null
    Unborn = Unborn
    Deleted = Deleted
    DbFails = TRUE
    QueueFails = FALSE
    Restarts = FALSE
    MaxFallbackSize = 2
    CommandsFail = FALSE
    Flips = FALSE
    StartsAvailable = {TRUE}
SYMMETRY AnyRequest
SPECIFICATION Spec
INVARIANTS
    TypeOK
    CoherentUnlessOverlapped
    NoLostUpdate
PROPERTY AnnouncedUnlessOverlapped
