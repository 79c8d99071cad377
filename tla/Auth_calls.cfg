CONSTANTS
    anna = anna
    ben = ben
    c0 = c0
    c1 = c1
    c2 = c2
    c3 = c3
    None = None
    Users = {anna, ben}
    Registered = {anna}
    Calls = {c0, c1, c2, c3}
    LoggedIn = c0
    Plans <- MCPlans
    MaxAttempts = 1
    LockoutWindow = 1
    AccessLife = 1
    RefreshLife = 2
    EmailLife = 1
    ResetLife = 1
    SuspendedLife = 3
    MaxNow = 3
    MaxFailures = 1
    MaxCrashes = 1
SPECIFICATION Spec
INVARIANTS
    RegisteredOnce
PROPERTIES
    SuspendedIsLockedOut
    RevokedIsRefused
CHECK_DEADLOCK FALSE
