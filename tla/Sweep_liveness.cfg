CONSTANTS
    a = a
    b = b
    x = x
    y = y
    INR = INR
    e1 = e1
    e2 = e2
    r1 = r1
    r2 = r2
    q = q
    NoAccount = NoAccount
    NoEvent = NoEvent
    Accounts <- MCAccounts
    References <- MCReferences
    Currencies = {INR}
    Dtos <- MCDtos
    Opening <- MCOpening
    Requests = {r1, r2}
    Queries = {}
    Events <- MCEvents
    DateOf <- OneDay
    Copies <- TwiceAndOnce
    LastDay = 1
    MaxCrashes = 1
    MaxFailures = 1
    MayUpdate = TRUE
SPECIFICATION FairSpec
PROPERTY
    SweepSettled
CHECK_DEADLOCK FALSE
