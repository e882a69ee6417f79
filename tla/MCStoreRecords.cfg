\* Accounts (two users, two usernames, the Admin group) and one record of each
\* other kind; no view: the versions themselves are explored, up to MaxIndex,
\* where the behaviours of the instance end.
SPECIFICATION Spec
CONSTANTS
    e1 = e1
    e2 = e2
    k1 = k1
    s1 = s1
    u1 = u1
    u2 = u2
    n1 = n1
    n2 = n2
    c1 = c1
    p1 = p1
    p2 = p2
    boolean = boolean
    string = string
    AdminGroupID = admin
    NoString = ""
    MaxSegmentRules = 1
    MaxSegmentTargetingKeys = 1
    Payload = {p1, p2}
    EnvironmentID = {e1, e2}
    FlagKey = {k1}
    FlagType = {boolean, string}
    SegmentKey = {s1}
    CredentialID = {c1}
    UserID = {u1, u2}
    Username = {n1, n2}
    GroupID = {admin}
    FlagInput <- RecordFlags
    EnvironmentIDList <- RecordLists
    SegmentInput <- RecordSegments
    EnvironmentInput <- ScopedEnvironments
    CredentialInput <- RecordCredentials
    UserInput <- RecordUsers
    GroupInput <- RecordGroups
    AuditInput <- RecordAudits
    MaxIndex = 5
CHECK_DEADLOCK FALSE
INVARIANTS
    UsernamesUnique
    VersionsAreIndexes
PROPERTIES
    AdminNeverLost
    AdminGroupFixed
    AuditAppendOnly
