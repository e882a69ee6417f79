\* Two clients, two process starts, one failure of the log store or enqueue
\* timeout, one snapshot: everything at once, few commands.
SPECIFICATION Spec
CONSTANTS
    u1 = u1
    u2 = u2
    u3 = u3
    u4 = u4
    n1 = n1
    n2 = n2
    e1 = e1
    p1 = p1
    none = none
    hash = hash
    AdminGroupID = admin
    FlagType = {}
    NoString = ""
    MaxSegmentRules = 0
    MaxSegmentTargetingKeys = 0
    EnvironmentID = {e1}
    FlagKey = {}
    SegmentKey = {}
    UserID = {u1, u2, u3}
    Username = {n1, n2}
    GroupID = {admin}
    CredentialID = {}
    Payload = {p1, none, hash}
    FlagInput <- NoInput
    EnvironmentIDList <- NoInput
    SegmentInput <- NoInput
    UserInput <- Accounts
    GroupInput <- AdminGroups
    EnvironmentInput <- Environments
    CredentialInput <- NoInput
    AuditInput <- NoInput
    Client = {c1, c2}
    ClientCommand <- EnvironmentSets
    Seeder = seeder
    AdminUsername = {n1}
    AdminSecret = hash
    NoPermissions = none
    Bootstrap = {TRUE}
    MaxStart = 2
    MaxFault = 1
    MaxSnapshot = 1
    MaxCall = 2
    MaxIndex = 12
CHECK_DEADLOCK FALSE
INVARIANTS
    FsmIsPrefix
    NodeRecoverable
    AcknowledgedDurable
