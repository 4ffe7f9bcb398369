SPECIFICATION Spec
CONSTANTS
    u1 = u1
    u2 = u2
    r1 = r1
    r2 = r2
    r3 = r3
    Users <- MCUsers1
    NoUser = NoUser
    Requests <- MCRequests2
    NoRow = NoRow
    Candidates = 2
    Estimates <- MCEstimates
    Costs <- MCCosts
    Guesses <- MCCosts
    Deltas <- MCGrantsOnly
    Window = 2
    Anonymous = TRUE
    StreamsBreak = FALSE
    HalfWrites = FALSE
    MaxGrants = 2
    MaxCrashes = 1
SYMMETRY RequestSymmetry
INVARIANTS
    SettledOnce
    CrashNeverCredits
    DebtIsUnderestimate
PROPERTY ImplementsCreditLine
CHECK_DEADLOCK FALSE
