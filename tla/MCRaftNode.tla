----------------------------- MODULE MCRaftNode -----------------------------
(***************************************************************************)
(* Instances of RaftNode for TLC: one or two clients that change the       *)
(* accounts and the environments while the node is restarted.              *)
(***************************************************************************)
EXTENDS RaftNode

CONSTANTS u1, u2, u3, u4, n1, n2, e1, p1, none, hash

NoInput == {}
AdminGroups == {AdminGroup}
Accounts ==
    [id : UserID, username : Username, passwordHash : {hash},
     groupIDs : {{}, {AdminGroupID}}, active : {TRUE}, version : {0}]
Environments == [id : EnvironmentID, name : {p1}, order : {0}, version : {0}]

UserSetBy(id, username, groupIDs) ==
    UserSetCommand([id |-> id, username |-> username, passwordHash |-> hash,
                    groupIDs |-> groupIDs, active |-> TRUE, version |-> 0])
UserDelete(id) == [entity |-> "user", op |-> "delete", key |-> id]
EnvironmentSets == {[entity |-> "environment", op |-> "set", environment |-> environment] :
                       environment \in Environments}

\* Remove an admin, demote another, create an environment.
AccountCommands ==
    {UserDelete(u1), UserSetBy(u2, n2, {})} \cup EnvironmentSets
\* One refused by the FSM, one accepted.
RefusedCommands == {UserDelete(u1)} \cup EnvironmentSets
=============================================================================
