SPECIFICATION Spec
CONSTANTS
    a1 = a1
    a2 = a2
    a3 = a3
    q1 = q1
    q2 = q2
    q3 = q3
    q4 = q4
    c1 = c1
    c2 = c2
    Apps <- MCApps1
    Procs <- MCProcs2
    Calls <- MCCalls
    None = None
    Limits <- MCLimits
    Idle = 1
    MaxRestarts = 1
    Stops = FALSE
INVARIANT StoredIsUsed
CHECK_DEADLOCK FALSE
