CONSTANTS
    k1 = k1
    k2 = k2
    Keys <- MCKeys
    Values = {v1, v2}
    Null = Null
    MaxFallbackSize = 1
    CommandsFail = TRUE
    Flips = TRUE
    StartsAvailable = {TRUE, FALSE}
    Clients = {c1}
    Targets <- MCTargets
SPECIFICATION Spec
INVARIANTS
    TypeOK
    InvalidatedIsGone
PROPERTY ContractHolds
