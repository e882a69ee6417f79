\* Any two requests, by an Admin, a member of ops or a service, interleaved, with
\* one failure of the store or crash.
SPECIFICATION Spec
CONSTANTS
    root = root
    op = op
    peer = peer
    ops = ops
    c1 = c1
    e1 = e1
    e2 = e2
    k1 = k1
    n0 = n0
    n1 = n1
    n2 = n2
    n3 = n3
    v1 = v1
    v2 = v2
    s0 = s0
    AdminGroupID = admin
    FlagType = {"boolean", "string"}
    NoString = ""
    MaxSegmentRules = 0
    MaxSegmentTargetingKeys = 0
    Omitted = omitted
    NoRecord = noRecord
    Handler = {h1, h2}
    Request <- AnyRequest
    Subject <- AnySubject
    Setup <- InitialSetup
    MaxRequest = 2
    MaxFault = 1
CHECK_DEADLOCK FALSE
INVARIANTS
    AuditedBeforeAnswer
    TrailTellsNoMore
    TrailTellsAll
PROPERTIES
    AdminGrantedByAdmin
    OrdersFollow
