SPECIFICATION Spec
CONSTANTS
    s1 = s1
    s2 = s2
    r1 = r1
    r2 = r2
    k1 = k1
    k2 = k2
    Sessions <- MCSessions
    Requests <- MCRequests
    Secrets <- MCSecrets
    None = None
    Admin = FALSE
    MaxStep = 1
    MaxPasskeys = 2
    Codes = 1
    FailLimit = 2
SYMMETRY AccountSymmetry
INVARIANTS
    KickedOut
    SecondFactorHolds
    OneTimeCodes
CHECK_DEADLOCK FALSE
