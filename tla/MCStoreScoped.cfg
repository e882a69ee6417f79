\* Flags, segments, credentials and environments: two environments, one key
\* each.  MaxIndex is larger than the diameter of the unversioned state space.
SPECIFICATION Spec
CONSTANTS
    e1 = e1
    e2 = e2
    k1 = k1
    s1 = s1
    u1 = u1
    u2 = u2
    n1 = n1
    n2 = n2
    c1 = c1
    p1 = p1
    p2 = p2
    boolean = boolean
    string = string
    AdminGroupID = admin
    NoString = ""
    MaxSegmentRules = 1
    MaxSegmentTargetingKeys = 1
    Payload = {p1, p2}
    EnvironmentID = {e1, e2}
    FlagKey = {k1}
    FlagType = {boolean, string}
    SegmentKey = {s1}
    CredentialID = {c1}
    UserID = {}
    Username = {}
    GroupID = {admin}
    FlagInput <- ScopedFlags
    EnvironmentIDList <- ScopedLists
    SegmentInput <- ScopedSegments
    EnvironmentInput <- ScopedEnvironments
    CredentialInput <- ScopedCredentials
    UserInput <- NoInput
    GroupInput <- NoInput
    AuditInput <- NoInput
    MaxIndex = 40
VIEW Unversioned
INVARIANTS
    TypeOK
    KeysMatch
    EnvironmentsExist
    SnapshotRestorable
PROPERTIES
    EnvironmentsNeverEmptied
    FlagTypeFixed
    ResolvedReferencesKept
    RefusalChangesNothing
