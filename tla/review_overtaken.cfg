SPECIFICATION Spec
CONSTANTS
    u1 = u1
    u2 = u2
    v1 = v1
    v2 = v2
    v3 = v3
    v4 = v4
    w1 = w1
    Users <- MCUsers
    Admin = Admin
    Versions <- MCVersions
    Signed <- MCSigned
    Uploads <- MCUploads
    None = None
    Crashes = FALSE
INVARIANT NoUnreviewedCode
CHECK_DEADLOCK FALSE
