----------------------------- MODULE StoreTypes -----------------------------
(***************************************************************************)
(* The records of backend/internal/store, the inputs its callers pass, and *)
(* the predicates on a state of the maps that the invariants of the other  *)
(* modules are built from.                                                 *)
(***************************************************************************)
EXTENDS Fsm

CONSTANTS
    EnvironmentID, FlagKey, SegmentKey, UserID, Username, GroupID, CredentialID,
    Payload,            \* names, colours, hashes, definitions, permission lists
    FlagInput,          \* the records callers pass to each repository method
    EnvironmentIDList,  \* the lists SetMany is called with
    SegmentInput, UserInput, GroupInput, EnvironmentInput, CredentialInput, AuditInput,
    MaxIndex            \* bound on the log index explored

\* A flag as callers pass it, and as the store keeps it: of a known type,
\* salted (stampFlag).
FlagArgument ==
    [environmentID : EnvironmentID, key : FlagKey, type : FlagType \cup {NoString},
     enabled : BOOLEAN, definition : Payload, segmentRefs : SUBSET SegmentKey,
     salt : FlagKey \cup {NoString}, revision : Nat]
Flag ==
    [environmentID : EnvironmentID, key : FlagKey, type : FlagType,
     enabled : BOOLEAN, definition : Payload, segmentRefs : SUBSET SegmentKey,
     salt : FlagKey, revision : Nat]
Segment ==
    [environmentID : EnvironmentID, key : SegmentKey, rules : Nat, targetingKeys : Nat,
     usesInSegment : BOOLEAN, revision : Nat]
User ==
    [id : UserID, username : Username, passwordHash : Payload,
     groupIDs : SUBSET GroupID, active : BOOLEAN, version : Nat]
Group ==
    [id : GroupID, permissions : Payload, environmentIDs : SUBSET EnvironmentID,
     system : BOOLEAN, version : Nat]
Environment ==
    [id : EnvironmentID, name : Payload, order : Nat, version : Nat]
ApplicationCredential ==
    [id : CredentialID, clientSecretHash : Payload, environmentID : EnvironmentID,
     active : BOOLEAN, version : Nat]
AuditEntry ==
    [id : Nat, action : Payload, success : BOOLEAN]

ASSUME MaxIndexAssumption == MaxIndex \in Nat \ {0}
\* NewID never returns "", so no environment has the empty ID.
ASSUME EnvironmentIDAssumption == NoString \notin EnvironmentID
ASSUME InputAssumption ==
    /\ FlagInput \subseteq FlagArgument
    /\ EnvironmentIDList \subseteq Seq(EnvironmentID)
    /\ SegmentInput \subseteq Segment
    /\ UserInput \subseteq User
    /\ EnvironmentInput \subseteq Environment
    /\ CredentialInput \subseteq ApplicationCredential
    /\ AuditInput \subseteq AuditEntry
\* Only auth.seedOnce writes a system group, and only under AdminGroupID.
ASSUME GroupInputAssumption ==
    /\ GroupInput \subseteq Group
    /\ \A group \in GroupInput : group.system <=> group.id = AdminGroupID

\* SetMany: one definition in every listed environment; its own environmentID
\* is ignored.
FlagsOf(definition, environmentIDs) ==
    [i \in DOMAIN environmentIDs |-> [definition EXCEPT !.environmentID = environmentIDs[i]]]

\* The commands the repositories submit.
Command ==
    {[entity |-> "flag", op |-> "set", flag |-> flag] : flag \in FlagInput}
    \cup {[entity |-> "flag", op |-> "setBatch",
           flags |-> FlagsOf(definition, environmentIDs)] :
            definition \in FlagInput, environmentIDs \in EnvironmentIDList}
    \cup {[entity |-> "flag", op |-> "delete", key |-> flagMapKey(environmentID, key)] :
            environmentID \in EnvironmentID, key \in FlagKey}
    \cup {[entity |-> "segment", op |-> "set", segment |-> segment] :
            segment \in SegmentInput}
    \cup {[entity |-> "segment", op |-> "delete", key |-> flagMapKey(environmentID, key)] :
            environmentID \in EnvironmentID, key \in SegmentKey}
    \cup {[entity |-> "user", op |-> "set", user |-> user] : user \in UserInput}
    \cup {[entity |-> "user", op |-> "delete", key |-> id] : id \in UserID}
    \cup {[entity |-> "group", op |-> "set", group |-> group] : group \in GroupInput}
    \cup {[entity |-> "group", op |-> "delete", key |-> id] : id \in GroupID}
    \cup {[entity |-> "environment", op |-> "set", environment |-> environment] :
            environment \in EnvironmentInput}
    \cup {[entity |-> "environment", op |-> "delete", key |-> id] : id \in EnvironmentID}
    \cup {[entity |-> "applicationCredential", op |-> "set", credential |-> cred] :
            cred \in CredentialInput}
    \cup {[entity |-> "applicationCredential", op |-> "delete", key |-> id] :
            id \in CredentialID}
    \cup {[entity |-> "audit", op |-> "append", audit |-> entry] : entry \in AuditInput}

----------------------------------------------------------------------------
(* Predicates on a state of the maps, which the invariants state of fsm.   *)

\* m is a Go map from K to V.
IsMap(m, K, V) ==
    /\ m = [k \in DOMAIN m |-> m[k]]
    /\ DOMAIN m \subseteq K
    /\ \A k \in DOMAIN m : m[k] \in V

Typed(s) ==
    /\ s = [field \in FsmFields |-> s[field]]
    /\ IsMap(s.flags, EnvironmentID \X FlagKey, Flag)
    /\ IsMap(s.segments, EnvironmentID \X SegmentKey, Segment)
    /\ IsMap(s.users, UserID, User)
    /\ IsMap(s.groups, GroupID, Group)
    /\ IsMap(s.auditEntries, Nat, AuditEntry)
    /\ IsMap(s.environments, EnvironmentID, Environment)
    /\ IsMap(s.applicationCredentials, CredentialID, ApplicationCredential)

OwnKeys(s) ==
    /\ \A k \in DOMAIN s.flags : k = flagMapKey(s.flags[k].environmentID, s.flags[k].key)
    /\ \A k \in DOMAIN s.segments :
         k = flagMapKey(s.segments[k].environmentID, s.segments[k].key)
    /\ \A k \in DOMAIN s.users : s.users[k].id = k
    /\ \A k \in DOMAIN s.groups : s.groups[k].id = k
    /\ \A k \in DOMAIN s.auditEntries : s.auditEntries[k].id = k
    /\ \A k \in DOMAIN s.environments : s.environments[k].id = k
    /\ \A k \in DOMAIN s.applicationCredentials : s.applicationCredentials[k].id = k

NoOrphans(s) ==
    /\ \A k \in DOMAIN s.flags : s.flags[k].environmentID \in DOMAIN s.environments
    /\ \A k \in DOMAIN s.segments : s.segments[k].environmentID \in DOMAIN s.environments
    /\ \A k \in DOMAIN s.applicationCredentials :
         s.applicationCredentials[k].environmentID \in DOMAIN s.environments

DistinctUsernames(s) ==
    \A i, j \in DOMAIN s.users : s.users[i].username = s.users[j].username => i = j

HasActiveAdmin(s) == \E id \in DOMAIN s.users : isActiveAdmin(s.users[id])

\* The writes the records of s show, as <<kind, log index, key>>: a record has
\* the version of its last write, an audit entry the index as its ID.
Stamped(s) ==
    {<<"flag", s.flags[k].revision, s.flags[k].key>> : k \in DOMAIN s.flags}
    \cup {<<"segment", s.segments[k].revision, k>> : k \in DOMAIN s.segments}
    \cup {<<"user", s.users[k].version, k>> : k \in DOMAIN s.users}
    \cup {<<"group", s.groups[k].version, k>> : k \in DOMAIN s.groups}
    \cup {<<"audit", k, s.auditEntries[k].id>> : k \in DOMAIN s.auditEntries}
    \cup {<<"environment", s.environments[k].version, k>> : k \in DOMAIN s.environments}
    \cup {<<"credential", s.applicationCredentials[k].version, k>> :
            k \in DOMAIN s.applicationCredentials}

(* Relations between the states before and after a command.                *)

AdminGroupKept(s, t) ==
    AdminGroupID \in DOMAIN s.groups =>
        /\ AdminGroupID \in DOMAIN t.groups
        /\ t.groups[AdminGroupID] = s.groups[AdminGroupID]

TypesKept(s, t) ==
    \A k \in DOMAIN s.flags \cap DOMAIN t.flags : t.flags[k].type = s.flags[k].type

ReferencesKept(s, t) ==
    \A k \in DOMAIN s.flags \cap DOMAIN t.flags :
        \A ref \in s.flags[k].segmentRefs \cap t.flags[k].segmentRefs :
            LET segment == flagMapKey(s.flags[k].environmentID, ref)
            IN  segment \in DOMAIN s.segments => segment \in DOMAIN t.segments

AuditKept(s, t) ==
    \A id \in DOMAIN s.auditEntries :
        id \in DOMAIN t.auditEntries /\ t.auditEntries[id] = s.auditEntries[id]
=============================================================================
