SPECIFICATION MCSpec
CONSTANTS
    u1 = u1
    u2 = u2
    p1 = p1
    p2 = p2
    g1 = g1
    g2 = g2
    o1 = o1
    o2 = o2
    c1 = c1
    Users <- MCUsers2
    Plans <- MCPlans
    Groups <- MCGroups1
    GroupOf <- MCSameGroup
    Orders <- MCOrders
    Codes <- MCCodes
    Durations <- MCOneDuration
    Tokens = Tokens
    NoPlan = NoPlan
    AdminEdits = FALSE
    HalfWrites = FALSE
    MaxTime = 3
    None = None
    acc1 = acc1
    acc2 = acc2
    oidc1 = oidc1
    name1 = name1
    mail1 = mail1
    inv1 = inv1
    ip1 = ip1
    GuardIps = {u1, u2}
    GuardCalls = {o1, o2}
    Window = 2
    PowAt = 1
    BanAt = 2
    FirstBan = 2
    Mult = 2
    Longest = 2
    MaxProofs = 1
    MaxLogged = 2
    Visitors = {name1}
    Addresses = {u1, u2}
    Minute = 2
    Caps = {1, 2}
    Full = 0
    IdleFor = 2
SYMMETRY MCSymmetry
INVARIANTS
    EffectIffSettled
    MembersFollowPlans
    SomeAdminRemains
    LimitsHold
    GuessesLimited
    BurstBounded
PROPERTIES
    PurgedAsked
    AddressIsProven
CHECK_DEADLOCK FALSE
