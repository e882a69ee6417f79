------------------------------ MODULE Handlers ------------------------------
(***************************************************************************)
(* The mutating HTTP handlers of backend/internal/api, one read of the     *)
(* store at a time.  A handler is not atomic: it takes the lock of the     *)
(* maps separately for each thing it looks at, and again, through Raft,    *)
(* for what it writes.  The operators here are what one such step computes *)
(* from the maps s it sees; module Api interleaves the steps.              *)
(*                                                                         *)
(* A request q has an entity, a method and the fields its handler reads,   *)
(* with Omitted for an absent optional field.  Its number is unique: the   *)
(* IDs and secrets drawn at random while it is served are named after it.  *)
(* Bodies that do not decode and fields refused for their wording alone    *)
(* (blank names, short passwords, unknown colours) never reach the store   *)
(* and are left out.                                                       *)
(*                                                                         *)
(* A step's outcome is a code and a command: a code other than Continue    *)
(* ends the handler, Continue submits the command.                         *)
(***************************************************************************)
EXTENDS Fsm, FiniteSets

CONSTANTS
    Omitted,        \* an absent optional field of a request body
    NoRecord        \* no record found

Continue == "continue"
NoCommand == [entity |-> "none"]
Refuse(code) == [code |-> code, cmd |-> NoCommand]
Run(cmd) == [code |-> Continue, cmd |-> cmd]

\* Randomness: store.NewID and newHashedClientSecret, a bcrypt hash.
NewID(q) == <<q.entity, q.number>>
NewSecret(q) == <<"secret", q.number>>
Either(field, existing) == IF field = Omitted THEN existing ELSE field

----------------------------------------------------------------------------
(* Principals (auth) *)

Principal(id) ==
    [id |-> id, isAdmin |-> FALSE, isService |-> FALSE, perms |-> {}, envs |-> {}]

hasEnvironmentAccess(p, environmentID) == p.isAdmin \/ environmentID \in p.envs

Authenticate_AnyUser(s, subject) ==
    IF ~subject.service /\ subject.id \in DOMAIN s.users
    THEN [code |-> Continue, groupIDs |-> s.users[subject.id].groupIDs,
          principal |-> Principal(subject.id)]
    ELSE [code |-> "AuthInvalidToken"]
\* AuthenticateToken's one read of the subject: the principal as far as it is
\* known then, and the groups still to be read.
Authenticate(s, subject) ==
    IF subject.service
    THEN IF subject.id \in DOMAIN s.applicationCredentials
            /\ s.applicationCredentials[subject.id].active
         THEN LET cred == s.applicationCredentials[subject.id] IN
              [code |-> Continue, groupIDs |-> {},
               principal |-> [Principal(subject.id) EXCEPT !.isService = TRUE,
                                 !.perms = cred.scopes, !.envs = {cred.environmentID}]]
         ELSE [code |-> "AuthInvalidToken"]
    ELSE IF subject.id \in DOMAIN s.users /\ s.users[subject.id].active
         THEN [code |-> Continue, groupIDs |-> s.users[subject.id].groupIDs,
               principal |-> Principal(subject.id)]
         ELSE [code |-> "AuthInvalidToken"]

\* resolvePermissionsForUser, one group: a missing group grants nothing.
WithGroup(s, p, groupID) ==
    IF groupID \notin DOMAIN s.groups THEN p
    ELSE IF groupID = AdminGroupID /\ s.groups[groupID].system
    THEN [p EXCEPT !.isAdmin = TRUE, !.perms = {}, !.envs = {}]
    ELSE [p EXCEPT !.perms = @ \cup s.groups[groupID].permissions,
                   !.envs = @ \cup s.groups[groupID].environmentIDs]

\* The routes withAudit is around, as entity and method: ROTATE and DISABLE
\* stand for POST on {id}/rotate and {key}/force-disable.
Route ==
    ({"user", "group", "environment", "flag", "applicationCredential"}
        \X {"POST", "PUT", "DELETE"})
    \cup {<<"flag", "DISABLE">>, <<"applicationCredential", "ROTATE">>}

\* requirePermission: the permission each route asks for.
ActionOf(q) == <<q.entity, q.method>>
Permission(q) ==
    CASE q.entity = "flag" /\ q.method = "POST" -> <<"flag", "WRITE">>
      [] q.method \in {"ROTATE", "DISABLE"} -> <<q.entity, "PUT">>
      [] OTHER -> ActionOf(q)
Permitted(p, q) == p.isAdmin \/ Permission(q) \in p.perms

----------------------------------------------------------------------------
(* The record a request names *)

RecordsOf(s, q) ==
    CASE q.entity = "user" -> s.users
      [] q.entity = "group" -> s.groups
      [] q.entity = "environment" -> s.environments
      [] q.entity = "flag" -> s.flags
      [] q.entity = "applicationCredential" -> s.applicationCredentials

KeyOf(q) == IF q.entity = "flag" THEN flagMapKey(q.environmentID, q.key) ELSE q.id
Lookup(s, q) ==
    IF KeyOf(q) \in DOMAIN RecordsOf(s, q) THEN RecordsOf(s, q)[KeyOf(q)] ELSE NoRecord

\* withAudit's Before: the record as the audit entry will show it.  PUT and
\* DELETE of a flag look it up under the environmentId as sent, so one sent
\* with blanks around it (padded) is not found.
Before(s, q) ==
    IF q.method = "POST" THEN NoRecord
    ELSE IF q.entity = "flag" /\ q.method \in {"PUT", "DELETE"} /\ q.padded THEN NoRecord
    ELSE Lookup(s, q)

\* The handler's first read.  Flag handlers check access before they look,
\* credential handlers after; creates do not look.
Existing(s, p, q) ==
    IF q.method = "POST" THEN [code |-> Continue, existing |-> NoRecord]
    ELSE IF q.entity = "flag" /\ ~hasEnvironmentAccess(p, q.environmentID)
    THEN [code |-> "AuthForbidden"]
    ELSE IF Lookup(s, q) = NoRecord THEN [code |-> "NotFound"]
    ELSE IF /\ q.entity = "applicationCredential"
            /\ ~hasEnvironmentAccess(p, Lookup(s, q).environmentID)
    THEN [code |-> "AuthForbidden"]
    ELSE [code |-> Continue, existing |-> Lookup(s, q)]

----------------------------------------------------------------------------
(* Users (users.go) *)

AdminGroupChange(p, groupSets) ==
    ~p.isAdmin /\ \E groupIDs \in groupSets : AdminGroupID \in groupIDs
UsersNamed(s, username) == {id \in DOMAIN s.users : s.users[id].username = username}

usersPost(s, p, q) ==
    IF AdminGroupChange(p, {q.groupIDs}) THEN Refuse("BusinessAdminGroupChange")
    ELSE IF UsersNamed(s, q.username) # {} THEN Refuse("ConflictUsernameTaken")
    ELSE Run([entity |-> "user", op |-> "set",
              user |-> [id |-> NewID(q), username |-> q.username,
                        passwordHash |-> NewSecret(q), groupIDs |-> q.groupIDs,
                        active |-> TRUE, version |-> 0]])

GroupSetsChecked_PayloadOnly(existing, q) == {q.groupIDs} \ {Omitted}
GroupSetsChecked(existing, q) ==
    {existing.groupIDs, Either(q.groupIDs, existing.groupIDs)}

usersPut(s, p, q, existing) ==
    IF AdminGroupChange(p, GroupSetsChecked(existing, q))
    THEN Refuse("BusinessAdminGroupChange")
    ELSE IF UsersNamed(s, q.username) \ {q.id} # {} THEN Refuse("ConflictUsernameTaken")
    ELSE Run([entity |-> "user", op |-> "set",
              user |-> [id |-> existing.id, username |-> q.username,
                        passwordHash |-> IF q.password = Omitted THEN existing.passwordHash
                                         ELSE NewSecret(q),
                        groupIDs |-> Either(q.groupIDs, existing.groupIDs),
                        active |-> Either(q.active, existing.active), version |-> 0]])

usersDelete(p, q) ==
    IF ~p.isAdmin THEN Refuse("BusinessAdminOnlyUserDelete")
    ELSE Run([entity |-> "user", op |-> "delete", key |-> q.id])

(* Groups (groups.go) *)

GroupSet(id, q) ==
    Run([entity |-> "group", op |-> "set",
         group |-> [id |-> id, permissions |-> q.permissions,
                    environmentIDs |-> q.environmentIDs, system |-> FALSE, version |-> 0]])

groupsPost(q) == GroupSet(NewID(q), q)
groupsPut(q, existing) == GroupSet(existing.id, q)
groupsDelete(q) == Run([entity |-> "group", op |-> "delete", key |-> q.id])

(* Environments (environments.go) *)

nextEnvironmentOrder_Count(s) == Cardinality(DOMAIN s.environments)
nextEnvironmentOrder(s) ==
    LET orders == {s.environments[id].order : id \in DOMAIN s.environments} IN
    IF orders = {} THEN 0
    ELSE (CHOOSE highest \in orders : \A order \in orders : order <= highest) + 1

EnvironmentSet(id, name, order) ==
    Run([entity |-> "environment", op |-> "set",
         environment |-> [id |-> id, name |-> name, order |-> order, version |-> 0]])

environmentsPost(s, q) == EnvironmentSet(NewID(q), q.name, nextEnvironmentOrder(s))
environmentsPut(q, existing) == EnvironmentSet(existing.id, q.name, existing.order)
environmentsDelete(q) == Run([entity |-> "environment", op |-> "delete", key |-> q.id])

(* Flags (flags.go): one variation of type string, its value *)

legacyDefinition(environmentID, key, enabled, value) ==
    [environmentID |-> environmentID, key |-> key, type |-> "string", enabled |-> enabled,
     definition |-> value, segmentRefs |-> {}, salt |-> NoString, revision |-> 0]

flagsPost(q) ==
    Run([entity |-> "flag", op |-> "setBatch",
         flags |-> [i \in DOMAIN q.environmentIDs |->
            legacyDefinition(q.environmentIDs[i], q.key, q.enabled, q.value)]])

FlagSet(flag) == Run([entity |-> "flag", op |-> "set", flag |-> flag])
flagsPut(q, existing) ==
    FlagSet(legacyDefinition(q.environmentID, q.key, Either(q.enabled, existing.enabled),
                             Either(q.value, existing.definition)))
flagsDelete(q) == Run([entity |-> "flag", op |-> "delete", key |-> KeyOf(q)])
flagsForceDisable(existing) == FlagSet([existing EXCEPT !.enabled = FALSE])

(* Application credentials (application_credentials.go) *)

CredentialSet(cred) ==
    Run([entity |-> "applicationCredential", op |-> "set", credential |-> cred])

credentialsPost(q) ==
    CredentialSet([id |-> NewID(q), clientSecretHash |-> NewSecret(q),
                   environmentID |-> q.environmentID, scopes |-> q.scopes,
                   active |-> TRUE, version |-> 0])

credentialsPut(q, existing) ==
    CredentialSet([existing EXCEPT !.scopes = Either(q.scopes, @),
                                   !.active = Either(q.active, @)])
credentialsRotate(q, existing) ==
    CredentialSet([existing EXCEPT !.clientSecretHash = NewSecret(q)])
credentialsDelete(q) ==
    Run([entity |-> "applicationCredential", op |-> "delete", key |-> q.id])

----------------------------------------------------------------------------
\* The handler's checks after its first read: of the principal, and of what the
\* maps say of a username or of the highest order.
Decide(s, p, q, existing) ==
    CASE ActionOf(q) = <<"user", "POST">> -> usersPost(s, p, q)
      [] ActionOf(q) = <<"user", "PUT">> -> usersPut(s, p, q, existing)
      [] ActionOf(q) = <<"user", "DELETE">> -> usersDelete(p, q)
      [] ActionOf(q) = <<"group", "POST">> -> groupsPost(q)
      [] ActionOf(q) = <<"group", "PUT">> -> groupsPut(q, existing)
      [] ActionOf(q) = <<"group", "DELETE">> -> groupsDelete(q)
      [] ActionOf(q) = <<"environment", "POST">> -> environmentsPost(s, q)
      [] ActionOf(q) = <<"environment", "PUT">> -> environmentsPut(q, existing)
      [] ActionOf(q) = <<"environment", "DELETE">> -> environmentsDelete(q)
      [] ActionOf(q) = <<"flag", "POST">> -> flagsPost(q)
      [] ActionOf(q) = <<"flag", "PUT">> -> flagsPut(q, existing)
      [] ActionOf(q) = <<"flag", "DELETE">> -> flagsDelete(q)
      [] ActionOf(q) = <<"flag", "DISABLE">> -> flagsForceDisable(existing)
      [] ActionOf(q) = <<"applicationCredential", "POST">> -> credentialsPost(q)
      [] ActionOf(q) = <<"applicationCredential", "PUT">> -> credentialsPut(q, existing)
      [] ActionOf(q) = <<"applicationCredential", "DELETE">> -> credentialsDelete(q)
      [] ActionOf(q) = <<"applicationCredential", "ROTATE">> -> credentialsRotate(q, existing)

\* The groups or environments that the handler then looks up one by one, and
\* what is wrong with one of them: whoever creates in an environment must have
\* access to it, which is checked first.
LookUps(q, existing) ==
    CASE ActionOf(q) = <<"user", "POST">> -> q.groupIDs
      [] ActionOf(q) = <<"user", "PUT">> -> Either(q.groupIDs, existing.groupIDs)
      [] ActionOf(q) \in {<<"group", "POST">>, <<"group", "PUT">>} -> q.environmentIDs
      [] ActionOf(q) = <<"flag", "POST">> ->
           {q.environmentIDs[i] : i \in DOMAIN q.environmentIDs}
      [] ActionOf(q) = <<"applicationCredential", "POST">> -> {q.environmentID}
      [] OTHER -> {}
EnvironmentError(s, p, environmentID) ==
    IF ~hasEnvironmentAccess(p, environmentID) THEN "AuthForbidden"
    ELSE IF environmentID \notin DOMAIN s.environments THEN "BadRequestEnvironmentUnknown"
    ELSE OK
LookUpError(s, p, q, id) ==
    CASE q.entity = "user" -> IF id \in DOMAIN s.groups THEN OK ELSE "BadRequestUnknownGroupID"
      [] q.entity = "group" ->
           IF id \in DOMAIN s.environments THEN OK ELSE "BadRequestEnvironmentUnknown"
      [] OTHER -> EnvironmentError(s, p, id)

\* The repository's own check before it submits (Users, Groups and
\* Environments; the others have none).
Precheck(s, cmd) ==
    CASE cmd.entity = "user" /\ cmd.op = "set" -> UserSetError(s, cmd.user)
      [] cmd.entity = "user" /\ cmd.op = "delete" -> UserDeleteError(s, cmd.key)
      [] cmd.entity = "group" /\ cmd.op = "set" -> GroupError(s, cmd.group.id)
      [] cmd.entity = "group" /\ cmd.op = "delete" -> GroupError(s, cmd.key)
      [] cmd.entity = "environment" /\ cmd.op = "delete" -> EnvironmentDeleteError(s, cmd.key)
      [] OTHER -> OK

\* storeErrorToAPIError and handleErrors: what the client is told of an error
\* of the store.
CodeOf(err) ==
    CASE err = OK -> OK
      [] err = "ErrUsernameTaken" -> "ConflictUsernameTaken"
      [] err = "ErrFlagExists" -> "ConflictFlagExists"
      [] err = "ErrLastAdmin" -> "BusinessLastAdmin"
      [] err = "ErrProtectedSystemGroup" -> "BusinessProtectedGroup"
      [] err = "ErrLastEnvironment" -> "BusinessLastEnvironment"
      [] err = "ErrEnvironmentHasFlags" -> "BusinessEnvironmentHasFlags"
      [] err = "ErrEnvironmentHasCredentials" -> "BusinessEnvironmentHasCredentials"
      [] err = "ErrEnvironmentHasSegments" -> "BusinessEnvironmentHasSegments"
      [] err = "ErrUnknownEnvironment" -> "BadRequestEnvironmentUnknown"
      [] OTHER -> "InternalGeneric"

\* targetIDFrom: the path's {id} or {key}, else what the response shows.
TargetOf(q, code) ==
    IF q.entity = "flag" /\ (q.method # "POST" \/ code = OK) THEN q.key
    ELSE IF q.method # "POST" THEN q.id
    ELSE IF code = OK THEN NewID(q)
    ELSE NoString
=============================================================================
