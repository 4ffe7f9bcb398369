SPECIFICATION MCSpec
CONSTANTS
    app1 = app1
    app2 = app2
    app3 = app3
    user1 = user1
    port1 = port1
    call1 = call1
    Apps <- MCApps
    Users <- MCUsers
    Ports <- MCPort
    Calls <- MCCalls
    None = None
    Upstream <- MCUpstream
    Invoked <- MCInvoked
    PassUser <- MCPassUser
    Lacking <- MCNone
    Ttl = 1
    QueueWait = 2
    MaxPersistent = 1
    MaxEdits = 2
    owner = owner
    other = other
    Admin = Admin
    v1 = v1
    v2 = v2
    v3 = v3
    upload1 = upload1
    name1 = name1
    name2 = name2
    Authors = {owner, other}
    RvVersions = {v1, v2, v3}
    RvSigned = {v3}
    RvUploads = {upload1}
    Crashes = TRUE
    Senders = {owner}
    MaxEntries = 4
    MaxBytes = 4
    EnvNames = {name1, name2}
    EnvVersions = {v1, v2}
    Required <- MCRequired
    Secret <- MCSecret
    Declared <- MCDeclared
    MaxSaves = 3
    MaxKeys = 2
    Width = 2
    Private = {1, 2}
    LinkLocal = {2}
    HostNames = {name1, name2}
    Inside = {name2}
    Manifests <- MCManifests
    AllowLists <- MCAllowLists
    MaxHops = 1
    Limits = {1, 2}
    Minute = 2
    MaxTokens = 2
INVARIANTS
    ChargedHadAccess
    OpenIsVouched
    UploadsAreContained
    ConfiguredIsUsed
    ReachedIsAdmitted
    TokensAreContained
CHECK_DEADLOCK FALSE
