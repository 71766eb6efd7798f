SPECIFICATION Spec
CONSTANTS
    c1 = c1
    c2 = c2
    f1 = f1
    op1 = op1
    op2 = op2
    home = home
    away = away
    Nil = Nil
    Clients <- TwoClients
    Feeds <- OneFeed
    Requestors <- MCRequestors
    SubscriptionRefs <- MCRefs
    Addresses <- TwoAddresses
    Scenarios <- HeartbeatScenarios
    DefaultInterval = 3
INVARIANTS HeartbeatTicks
CHECK_DEADLOCK FALSE
