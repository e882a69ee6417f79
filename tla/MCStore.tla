------------------------------ MODULE MCStore ------------------------------
(***************************************************************************)
(* Instances of Store for TLC: one of the environment-scoped entities,     *)
(* explored to its end, and one of the accounts and of one record of every *)
(* other kind, in which the versions they are given matter.                *)
(***************************************************************************)
EXTENDS Store

CONSTANTS e1, e2, k1, s1, u1, u2, n1, n2, c1, p1, p2, boolean, string

\* No input of this kind in the instance.
NoInput == {}

FlagInputOf(envs, types, refs) ==
    [environmentID : envs, key : FlagKey, type : types, enabled : {TRUE},
     definition : {p1}, segmentRefs : refs, salt : {NoString}, revision : {0}]

ScopedFlags == FlagInputOf(EnvironmentID, FlagType \cup {NoString}, SUBSET SegmentKey)
ScopedLists == {<<e1>>, <<e1, e2>>, <<e2, e1>>, <<e2, e2>>}
ScopedSegments ==
    [environmentID : EnvironmentID, key : SegmentKey, rules : {0, MaxSegmentRules + 1},
     targetingKeys : {MaxSegmentTargetingKeys, MaxSegmentTargetingKeys + 1},
     usesInSegment : BOOLEAN, revision : {0}]
ScopedEnvironments == [id : EnvironmentID, name : {p1}, order : {0}, version : {0}]
ScopedCredentials ==
    [id : CredentialID, clientSecretHash : {p1}, environmentID : EnvironmentID,
     active : {TRUE}, version : {0}]

RecordFlags == FlagInputOf({e1}, {boolean}, {{}})
RecordLists == {<<e1, e2>>}
RecordSegments ==
    [environmentID : {e1}, key : SegmentKey, rules : {0}, targetingKeys : {0},
     usesInSegment : {FALSE}, revision : {0}]
RecordUsers ==
    [id : UserID, username : Username, passwordHash : {p1},
     groupIDs : {{}, {AdminGroupID}}, active : BOOLEAN, version : {0}]
RecordGroups ==
    {[id |-> AdminGroupID, permissions |-> p, environmentIDs |-> {}, system |-> TRUE,
      version |-> 0] : p \in Payload}
RecordCredentials ==
    [id : CredentialID, clientSecretHash : {p1}, environmentID : {e1}, active : {TRUE},
     version : {0}]
RecordAudits == [id : {0}, action : {p1, p2}, success : {TRUE}]

\* The state without versions and indexes: no command reads them, so states
\* that differ only in them have the same future.
Unversioned ==
    <<[k \in DOMAIN fsm.flags |-> [fsm.flags[k] EXCEPT !.revision = 0]],
      [k \in DOMAIN fsm.segments |-> [fsm.segments[k] EXCEPT !.revision = 0]],
      [k \in DOMAIN fsm.users |-> [fsm.users[k] EXCEPT !.version = 0]],
      [k \in DOMAIN fsm.groups |-> [fsm.groups[k] EXCEPT !.version = 0]],
      [k \in DOMAIN fsm.environments |-> [fsm.environments[k] EXCEPT !.version = 0]],
      [k \in DOMAIN fsm.applicationCredentials |->
          [fsm.applicationCredentials[k] EXCEPT !.version = 0]],
      fsm.auditEntries, err>>
=============================================================================
