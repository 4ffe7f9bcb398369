SPECIFICATION MCFairSpec
CONSTANTS
    r1 = r1
    r2 = r2
    r3 = r3
    r4 = r4
    r5 = r5
    Runs <- MCRuns5
    Limits <- MCLimits
    MaxQueue = 2
    address = address
    pack = pack
    h1 = h1
    h2 = h2
    Pairs = {k1, k2, k3}
    Crashes = 2
    None = None
    Torn = Torn
    app = app
    behind = behind
    visitor = visitor
    port1 = port1
    port2 = port2
    visit = visit
INVARIANTS
    GateIsTight
    HttpsIsConsistent
PROPERTIES
    EveryRunEnds
    HealthConverges
    RenewalHeals
    WaitsEnd
CHECK_DEADLOCK FALSE
