CONSTANTS
    a = a
    b = b
    x = x
    y = y
    INR = INR
    e1 = e1
    e2 = e2
    r1 = r1
    r2 = r2
    q = q
    NoAccount = NoAccount
    NoEvent = NoEvent
    Accounts <- MCAccounts
    References <- MCReferences
    Currencies = {INR}
    Dtos <- MCDtos
    Opening <- MCOpening
    Requests = {r1, r2}
    Queries = {q}
    Events <- MCEvents
    DateOf <- TwoDays
    Copies <- OnceEach
    LastDay = 2
    MaxCrashes = 1
    MaxFailures = 0
    MayUpdate = TRUE
SPECIFICATION Spec
SYMMETRY RequestSymmetry
INVARIANTS
    SnapshotsAreSums
    WrongOnlyIfRaced
PROPERTIES
    AnswersAreActual
    EventAppliedOnce
CHECK_DEADLOCK FALSE
