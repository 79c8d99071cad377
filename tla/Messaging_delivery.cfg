CONSTANTS
    e1 = e1
    e2 = e2
    h1 = h1
    h2 = h2
    NoEvent = NoEvent
    Events = {e1, e2}
    Handlers = {h1, h2}
    RoutingKey = "user.registered"
    MaxLinkLosses = 1
    MaxCrashes = 1
SPECIFICATION FairSpec
INVARIANTS
    NothingIsLost
PROPERTIES
    ImplementsDelivery
    PublishedIsSettled
CHECK_DEADLOCK FALSE
