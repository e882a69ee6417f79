------------------------------- MODULE MCApi -------------------------------
(***************************************************************************)
(* Instances of Api for TLC: requests about accounts and groups, a flag, a *)
(* credential and environments, after a set-up of two Admins, a member of  *)
(* the group "ops" and two environments.                                   *)
(***************************************************************************)
EXTENDS Api

CONSTANTS root, op, peer, ops, c1, e1, e2, k1, n0, n1, n2, n3, v1, v2, s0

UserSetup(id, username, groupIDs) ==
    [entity |-> "user", op |-> "set",
     user |-> [id |-> id, username |-> username, passwordHash |-> s0,
               groupIDs |-> groupIDs, active |-> TRUE, version |-> 0]]
GroupSetup(id, permissions, environmentIDs) ==
    [entity |-> "group", op |-> "set",
     group |-> [id |-> id, permissions |-> permissions, environmentIDs |-> environmentIDs,
                system |-> id = AdminGroupID, version |-> 0]]
EnvironmentSetup(id, order) ==
    [entity |-> "environment", op |-> "set",
     environment |-> [id |-> id, name |-> n0, order |-> order, version |-> 0]]

OpsPermissions ==
    {<<"user", "PUT">>, <<"flag", "PUT">>, <<"applicationCredential", "PUT">>}

Seeding == <<GroupSetup(AdminGroupID, {}, {}), UserSetup(root, n1, {AdminGroupID})>>
InitialSetup ==
    Seeding \o
    <<EnvironmentSetup(e1, 1), EnvironmentSetup(e2, 0),
      GroupSetup(ops, OpsPermissions, {e1}),
      UserSetup(op, n2, {ops}), UserSetup(peer, n3, {AdminGroupID}),
      [entity |-> "flag", op |-> "setBatch",
       flags |-> <<legacyDefinition(e1, k1, TRUE, v1)>>],
      [entity |-> "applicationCredential", op |-> "set",
       credential |-> [id |-> c1, clientSecretHash |-> s0, environmentID |-> e1,
                       scopes |-> {<<"flag", "PUT">>}, active |-> TRUE, version |-> 0]]>>

Human(id) == [service |-> FALSE, id |-> id]
Service(id) == [service |-> TRUE, id |-> id]
AdminOnly == {Human(root)}
AnySubject == {Human(root), Human(op), Service(c1)}

----------------------------------------------------------------------------
UserPost(username, groupIDs) ==
    [entity |-> "user", method |-> "POST", number |-> 0, username |-> username,
     groupIDs |-> groupIDs]
UserPut(id, username, groupIDs, active) ==
    [entity |-> "user", method |-> "PUT", number |-> 0, id |-> id, username |-> username,
     groupIDs |-> groupIDs, active |-> active, password |-> Omitted]
GroupPost(environmentIDs) ==
    [entity |-> "group", method |-> "POST", number |-> 0, permissions |-> {},
     environmentIDs |-> environmentIDs]
GroupPut(permissions) ==
    [entity |-> "group", method |-> "PUT", number |-> 0, id |-> ops,
     permissions |-> permissions, environmentIDs |-> {}]
Delete(entity, id) == [entity |-> entity, method |-> "DELETE", number |-> 0, id |-> id]

FlagRequest(method, padded, enabled, value) ==
    [entity |-> "flag", method |-> method, number |-> 0, environmentID |-> e1, key |-> k1,
     padded |-> padded, enabled |-> enabled, value |-> value]
FlagPost(environmentIDs) ==
    [entity |-> "flag", method |-> "POST", number |-> 0, key |-> k1, enabled |-> TRUE,
     value |-> v2, environmentIDs |-> environmentIDs]

CredentialPut(active) ==
    [entity |-> "applicationCredential", method |-> "PUT", number |-> 0, id |-> c1,
     scopes |-> Omitted, active |-> active, environmentID |-> e2]
CredentialRotate ==
    [entity |-> "applicationCredential", method |-> "ROTATE", number |-> 0, id |-> c1]
CredentialPost(environmentID) ==
    [entity |-> "applicationCredential", method |-> "POST", number |-> 0,
     environmentID |-> environmentID, scopes |-> {<<"flag", "PUT">>}]

EnvironmentPost == [entity |-> "environment", method |-> "POST", number |-> 0, name |-> n0]
EnvironmentPut(id) ==
    [entity |-> "environment", method |-> "PUT", number |-> 0, id |-> id, name |-> n1]

\* peer is an Admin who may be demoted while somebody edits the account.
AccountRequests ==
    {UserPost(n2, {ops}), UserPost(n0, {AdminGroupID}), UserPut(peer, n3, Omitted, Omitted),
     UserPut(peer, n3, {ops}, Omitted), UserPut(op, n2, {AdminGroupID, ops}, Omitted),
     UserPut(root, n1, Omitted, FALSE), Delete("user", op), GroupPost({e1}), GroupPut({}),
     Delete("group", ops), Delete("group", AdminGroupID)}
FlagRequests ==
    {FlagRequest("PUT", FALSE, enabled, v2) : enabled \in {Omitted, TRUE}}
    \cup {FlagRequest("DISABLE", FALSE, Omitted, Omitted),
          FlagRequest("DELETE", TRUE, Omitted, Omitted), FlagPost(<<e1, e2>>)}
CredentialRequests ==
    {CredentialPut(Omitted), CredentialPut(FALSE), CredentialRotate, CredentialPost(e1),
     Delete("applicationCredential", c1)}
EnvironmentRequests ==
    {EnvironmentPost, EnvironmentPut(e1)} \cup {Delete("environment", e) : e \in {e1, e2}}
ScopedRequests == FlagRequests \cup CredentialRequests \cup EnvironmentRequests
AnyRequest == AccountRequests \cup ScopedRequests
=============================================================================
