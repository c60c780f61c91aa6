CONSTANTS
    Reqs = {r1, r2}
    Limit = 2
    Window = 4
    Ttl = 4
    MaxDelay = 1
    Null = Null
    CommandsFail = TRUE
    Flips = TRUE
    StartsAvailable = {TRUE, FALSE}
    MaxNow = 5
SYMMETRY AnyRequest
CHECK_DEADLOCK FALSE
SPECIFICATION Spec
INVARIANTS
    TypeOK
    MillisecondsInWindow
    LimiterInv
    FixedWindows
PROPERTY ResetTimeHolds
