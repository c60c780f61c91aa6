CONSTANTS
    a = a
    A = A
    b = b
    p = p
    q = q
    Emails = {a}
    Lower <- MCOneAddress
    Passwords = {p, q}
    Weak = {}
    Patches <- MCPasswords
    None = None
    Reqs = {r1, r2}
    Ops <- LockOps
    MaxAttempts = 2
    LockDuration = 1
    DbFails = FALSE
    MaxUsers = 1
    MaxFailed = 2
    MaxNow = 1
SYMMETRY AnyRequest
SPECIFICATION Spec
INVARIANTS
    RightfulLogin
    LockedOut
    FailuresCounted
PROPERTY LockHolds
