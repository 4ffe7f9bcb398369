SPECIFICATION MCFairSpec
CONSTANTS
    a1 = a1
    a2 = a2
    a3 = a3
    q1 = q1
    q2 = q2
    q3 = q3
    q4 = q4
    c1 = c1
    c2 = c2
    Apps <- MCApps3
    Procs <- MCProcs3
    Calls <- MCCalls
    None = None
    Limits <- MCLimits
    Idle = 1
    MaxRestarts = 1
    Stops = TRUE
    u = u
    p1 = p1
    p2 = p2
    g1 = g1
    g2 = g2
    o = o
    k = k
    Tokens = Tokens
    NoPlan = NoPlan
INVARIANTS
    RegistryIsExact
    FreshEnvironment
PROPERTIES
    ProcessesAreBounded
    IdleIsRecycled
    SubscriptionsLast
    ExpiryIsNoticed
CHECK_DEADLOCK FALSE
