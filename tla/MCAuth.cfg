\* One token at a time and one request with it; three changes, two ticks and a
\* restart in between. The clock may pass the end of either kind of token.
SPECIFICATION Spec
CONSTANTS
    root = root
    u1 = u1
    u2 = u2
    g1 = g1
    g2 = g2
    c1 = c1
    e1 = e1
    e2 = e2
    n0 = n0
    n1 = n1
    n2 = n2
    upper1 = upper1
    p0 = p0
    p1 = p1
    p2 = p2
    s1 = s1
    s2 = s2
    canRead = canRead
    canWrite = canWrite
    AdminGroupID = admin
    FlagType = {}
    NoString = ""
    MaxSegmentRules = 0
    MaxSegmentTargetingKeys = 0
    Omitted = omitted
    NoRecord = noRecord
    Setup <- InitialSetup
    Command <- Commands
    Login <- Logins
    Grant <- GrantRequests
    Lowered <- Names
    Secret = {k1, k2}
    tokenTTL = 2
    ServiceTokenTTL = 1
    MaxChange = 3
    MaxClock = 2
    MaxToken = 1
    MaxRestart = 1
CHECK_DEADLOCK FALSE
INVARIANTS
    RevocationImmediate
    TokenLifeBounded
    PowersWereGranted
    PowersNotLost
PROPERTIES
    MeShowsTheHeld
