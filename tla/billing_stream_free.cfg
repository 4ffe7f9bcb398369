SPECIFICATION Spec
CONSTANTS
    u1 = u1
    u2 = u2
    r1 = r1
    r2 = r2
    r3 = r3
    Users <- MCUsers1
    NoUser = NoUser
    Requests <- MCRequests2
    NoRow = NoRow
    Candidates = 1
    Estimates <- MCEstimates
    Costs <- MCCosts
    Guesses <- MCNoFreeRoute
    Deltas <- MCOneGrant
    Window = 2
    Anonymous = FALSE
    StreamsBreak = TRUE
    HalfWrites = FALSE
    MaxGrants = 1
    MaxCrashes = 0
INVARIANT DeliveredIsPaid
CHECK_DEADLOCK FALSE
