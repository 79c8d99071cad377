SPECIFICATION FairSpec
CONSTANTS
    a = a
    b = b
    x = x
    y = y
    z = z
    INR = INR
    Requests = {r1, r2, r3}
    Accounts <- MCAccounts
    References <- MCReferences
    Currencies = {INR}
    Dtos <- MCDtos
    Opening <- MCOpening
INVARIANTS
    NoOverdraft
    ReferenceRecordedOnce
    BooksBalance
    EventsTellTheTruth
PROPERTIES
    EveryRequestAnswered
    ImplementsBook
CHECK_DEADLOCK FALSE
