SPECIFICATION Spec
CONSTANTS
    u1 = u1
    u2 = u2
    p1 = p1
    p2 = p2
    g1 = g1
    g2 = g2
    o1 = o1
    o2 = o2
    c1 = c1
    Users <- MCUsers1
    Plans <- MCPlans
    Groups <- MCGroups
    GroupOf <- MCOwnGroups
    Orders <- MCOrders
    Codes <- MCCodes
    Durations <- MCOneDuration
    Tokens = Tokens
    NoPlan = NoPlan
    AdminEdits = FALSE
    HalfWrites = FALSE
    MaxTime = 3
INVARIANT GroupsFollowSubscriptions
CHECK_DEADLOCK FALSE
