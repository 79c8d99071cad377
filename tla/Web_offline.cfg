CONSTANTS
    anna = anna
    kim = kim
    t1 = t1
    t2 = t2
    c1 = c1
    c2 = c2
    c3 = c3
    c4 = c4
    c5 = c5
    c6 = c6
    c7 = c7
    None = None
    Elsewhere = Elsewhere
    Users = {anna, kim}
    Role <- MCRole
    Tabs = {t1, t2}
    Calls = {c1, c2, c3, c4, c5, c6, c7}
    Scripts <- MCScripts
    LiveProfiles <- MCLiveProfiles
    Portfolio = 3
    Amounts = {1, 2}
SPECIFICATION WebSpec
CONSTRAINT Bound
INVARIANTS
    BalancesExplained
    OneAccountEach
CHECK_DEADLOCK FALSE
