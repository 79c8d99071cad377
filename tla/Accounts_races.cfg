CONSTANTS
    checking = checking
    savings = savings
    fresh1 = fresh1
    fresh2 = fresh2
    e1 = e1
    c1 = c1
    c2 = c2
    None = None
    Accounts = {checking, savings, fresh1, fresh2}
    Opened = {checking, savings}
    OpeningFunds <- MCFunds
    AccountLimit = 3
    Calls = {c1, c2}
    Inputs <- RaceInputs
    Reviews = {e1}
    DecisionOf <- MCRejected
    ApprovedAs = "verified"
    MaxCrashes = 1
    MaxFailures = 1
SPECIFICATION MCSpec
INVARIANTS
    EventsAreRecorded
    LimitOverrunByRace
    RejectedHoldsNoOpenAccount
PROPERTIES
    ClosedStaysClosed
    ShutAccountsMoveNothing
    ReviewAppliedOnce
    ReviewSettled
CHECK_DEADLOCK FALSE
