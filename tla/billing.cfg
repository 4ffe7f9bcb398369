SPECIFICATION FairSpec
CONSTANTS
    u1 = u1
    u2 = u2
    r1 = r1
    r2 = r2
    r3 = r3
    Users <- MCUsers1
    NoUser = NoUser
    Requests <- MCRequests2
    NoRow = NoRow
    Candidates = 2
    Estimates <- MCEstimates
    Costs <- MCCosts
    Guesses <- MCCosts
    Deltas <- MCDeltas
    Window = 2
    Anonymous = FALSE
    StreamsBreak = TRUE
    HalfWrites = TRUE
    MaxGrants = 1
    MaxCrashes = 1
INVARIANTS
    CacheIsLedgerMinusHolds
    NeverShortchanged
PROPERTIES
    GateIsExact
    EveryRequestEnds
    SettlementHeals
CHECK_DEADLOCK FALSE
