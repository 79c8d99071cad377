CONSTANTS
    r1 = r1
    r2 = r2
    r3 = r3
    r4 = r4
    r5 = r5
    ip1 = ip1
    ip2 = ip2
    u = u
    v = v
    tu = tu
    None = None
    Requests = {r1, r2, r3, r4, r5}
    Ips = {ip1, ip2}
    Users = {u, v}
    Tokens = {tu}
    Owner <- MCOwner
    Exp <- MCExp
    Scripts <- MCScripts
    Window = 2
    MaxRequests = 2
    MaxNow = 3
    MaxFailures = 1
SPECIFICATION Spec
INVARIANTS
    WindowBounded
    ActsForTheOwner
PROPERTIES
    DoomedStopsHere
    RefusedAtTheLimit
CHECK_DEADLOCK FALSE
