SPECIFICATION Spec
CONSTANTS
    app1 = app1
    app2 = app2
    app3 = app3
    user1 = user1
    port1 = port1
    call1 = call1
    Apps <- MCApps
    Users <- MCUsers
    Ports <- MCPort
    Calls <- MCCalls
    None = None
    Upstream <- MCUpstream
    Invoked <- MCInvoked
    PassUser <- MCPassUser
    Lacking <- MCOnlyA
    Ttl = 1
    QueueWait = 2
    MaxPersistent = 1
    MaxEdits = 2
INVARIANT NotStartedWithoutEnv
CHECK_DEADLOCK FALSE
