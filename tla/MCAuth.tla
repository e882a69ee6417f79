------------------------------- MODULE MCAuth -------------------------------
(***************************************************************************)
(* An instance of Auth for TLC: a user in two groups and a credential,     *)
(* which other handlers rename, deactivate, demote, promote and rotate.    *)
(***************************************************************************)
EXTENDS Auth

CONSTANTS root, u1, u2, g1, g2, c1, e1, e2, n0, n1, n2, upper1, p0, p1, p2, s1, s2,
          canRead, canWrite

UserSet(id, username, password, groupIDs, active) ==
    [entity |-> "user", op |-> "set",
     user |-> [id |-> id, username |-> username, passwordHash |-> password,
               groupIDs |-> groupIDs, active |-> active, version |-> 0]]
GroupOf(id, permissions, environmentIDs) ==
    [entity |-> "group", op |-> "set",
     group |-> [id |-> id, permissions |-> permissions, environmentIDs |-> environmentIDs,
                system |-> id = AdminGroupID, version |-> 0]]
EnvironmentOf(id) ==
    [entity |-> "environment", op |-> "set",
     environment |-> [id |-> id, name |-> n0, order |-> 0, version |-> 0]]
CredentialOf(secret, scopes, active) ==
    [entity |-> "applicationCredential", op |-> "set",
     credential |-> [id |-> c1, clientSecretHash |-> secret, environmentID |-> e1,
                     scopes |-> scopes, active |-> active, version |-> 0]]
DeleteOf(entity, id) == [entity |-> entity, op |-> "delete", key |-> id]

\* g1 and g2 both grant canRead; g1 also e1, g2 also canWrite and e2.
InitialSetup ==
    <<GroupOf(AdminGroupID, {}, {}), UserSet(root, n0, p0, {AdminGroupID}, TRUE),
      EnvironmentOf(e1), EnvironmentOf(e2),
      GroupOf(g1, {canRead}, {e1}), GroupOf(g2, {canRead, canWrite}, {e2}),
      UserSet(u1, n1, p1, {g1, g2}, TRUE), CredentialOf(s1, {canRead}, TRUE)>>

\* u1 is deactivated, renamed, given a new password, moved, promoted; somebody
\* else takes its name once it is free.  e2, which groups grant, is deleted.
Commands ==
    {UserSet(u1, n1, p1, {g1, g2}, FALSE), UserSet(u1, n2, p1, {g1, g2}, TRUE),
     UserSet(u1, n1, p2, {g1}, TRUE), UserSet(u1, n1, p1, {g2, AdminGroupID}, TRUE),
     UserSet(u2, n1, p2, {g2}, TRUE),
     GroupOf(g1, {}, {e1, e2}), GroupOf(g2, {canRead}, {}), DeleteOf("group", g1),
     DeleteOf("environment", e2),
     CredentialOf(s2, {canRead}, TRUE), CredentialOf(s1, {canWrite}, TRUE),
     CredentialOf(s1, {canRead}, FALSE), DeleteOf("applicationCredential", c1)}

Names == [username \in {n1, n2, upper1} |-> IF username = upper1 THEN n1 ELSE username]
Logins ==
    [username : {n1, upper1}, password : {p1}] \cup [username : {n1, n2}, password : {p2}]

Pair(id, secret) == [id |-> id, secret |-> secret]
Nothing == Pair(NoString, NoString)
\* By basic authentication, by form, half by each, not at all, for another grant.
GrantRequests ==
    [basic : {Pair(c1, s1), Pair(c1, NoString)}, form : {Pair(NoString, s2)},
     grantType : {"client_credentials"}]
    \cup [basic : {Nothing}, form : {Pair(c1, s1), Nothing}, grantType : {"client_credentials"}]
    \cup [basic : {Pair(c1, s1)}, form : {Nothing}, grantType : {"password"}]
=============================================================================
