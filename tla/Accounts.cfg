CONSTANTS
    a = a
    A = A
    b = b
    p = p
    q = q
    Emails = {a, A, b}
    Lower <- MCLower
    Passwords = {p, q}
    Weak = {q}
    Patches <- MCPatches
    None = None
    Reqs = {r1, r2}
    Ops <- Routes
    MaxAttempts = 2
    LockDuration = 1
    DbFails = TRUE
    MaxUsers = 2
    MaxFailed = 3
    MaxNow = 0
SYMMETRY AnyRequest
SPECIFICATION Spec
INVARIANTS
    TypeOK
    OnePerAddress
PROPERTY RemovedStaysRemoved
