CONSTANTS
    u1 = u1
    Users = {u1}
    NoUser = NoUser
    Reqs = {r1}
    MaxTokens = 2
    Legacy <- MCLegacy
    LegacyIssued = 1
    MaxIssued = 4
    DbFails = FALSE
SPECIFICATION Spec
PROPERTY LiveTokenRefreshes
