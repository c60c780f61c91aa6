CONSTANTS
    u1 = u1
    Users = {u1}
    NoUser = NoUser
    Reqs = {r1, r2}
    MaxTokens = 2
    Legacy <- MCLegacy
    LegacyIssued = 1
    MaxIssued = 5
    DbFails = TRUE
SYMMETRY AnyRequest
SPECIFICATION Spec
INVARIANTS
    TypeOK
    SessionCap
    CapInv
PROPERTY KeepsNewest
