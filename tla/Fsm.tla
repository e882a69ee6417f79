-------------------------------- MODULE Fsm --------------------------------
(***************************************************************************)
(* The Raft finite state machine of backend/internal/store: what applying  *)
(* one committed command does to the in-memory maps.  Everything here is a *)
(* constant-level operator on a state record, so that the abstract store,  *)
(* the durable node and the HTTP handlers all use one definition.          *)
(*                                                                         *)
(* A Go map is a function whose domain is the set of its keys.  The state  *)
(* record has one field per map of the fsm struct.  An apply operator      *)
(* takes the state, the log index and the command and returns the new      *)
(* state together with "err": OK, or the name of the error the Go code     *)
(* returns.                                                                *)
(*                                                                         *)
(* Data that no operation inspects is abstracted: a flag's variations,     *)
(* rules and fallthrough are one opaque "definition" plus segmentRefs, the *)
(* segment keys its inSegment clauses name; a segment's rules are their    *)
(* number plus whether one of them uses inSegment, and its included and    *)
(* excluded lists are their total length.  String slices are sets.         *)
(*                                                                         *)
(* An operator named X_Why, placed before X, is X with one plausible       *)
(* mistake in it.  Nothing uses it: it is there to be put in X's place,    *)
(* to see that a property of the project notices the mistake.              *)
(***************************************************************************)
EXTENDS Naturals, Sequences

CONSTANTS
    AdminGroupID,             \* group.go: the Admin group's fixed ID
    FlagType,                 \* flag.go: the known FlagType values
    NoString,                 \* the empty Go string ""
    MaxSegmentRules,          \* segment.go: maxSegmentRules
    MaxSegmentTargetingKeys   \* segment.go: maxSegmentTargetingKeys

ASSUME FlagTypeAssumption == NoString \notin FlagType
ASSUME LimitAssumption == MaxSegmentRules \in Nat /\ MaxSegmentTargetingKeys \in Nat

OK == "ok"

----------------------------------------------------------------------------
(* Go maps *)

EmptyMap == [x \in {} |-> x]
Put(m, k, v) == [x \in DOMAIN m \cup {k} |-> IF x = k THEN v ELSE m[x]]
Drop(m, k) == [x \in DOMAIN m \ {k} |-> m[x]]

newFSM == [flags |-> EmptyMap, segments |-> EmptyMap, users |-> EmptyMap,
           groups |-> EmptyMap, auditEntries |-> EmptyMap,
           environments |-> EmptyMap, applicationCredentials |-> EmptyMap]

Accept(s) == [state |-> s, err |-> OK]
Reject(s, e) == [state |-> s, err |-> e]

----------------------------------------------------------------------------
(* Flags (flag.go).  The map key joins environment and key with a slash;   *)
(* environment IDs are UUIDs, so the pair is recovered from the string.    *)

flagMapKey(environmentID, key) == <<environmentID, key>>

hasFlagsInEnvironment(s, environmentID) ==
    \E k \in DOMAIN s.flags : s.flags[k].environmentID = environmentID

isKnownFlagType_AnyType(t) == TRUE
isKnownFlagType(t) == t \in FlagType

stampFlag_NoRevision(flag, index) == flag
stampFlag(flag, index) ==
    [flag EXCEPT !.revision = index,
                 !.salt = IF flag.salt = NoString THEN flag.key ELSE flag.salt]

FlagSetError_Retype(s, flag) ==
    IF flag.environmentID \notin DOMAIN s.environments THEN "ErrUnknownEnvironment"
    ELSE IF ~isKnownFlagType(flag.type) THEN "ErrUnknownFlagType"
    ELSE OK
FlagSetError(s, flag) ==
    LET key == flagMapKey(flag.environmentID, flag.key) IN
    IF flag.environmentID \notin DOMAIN s.environments THEN "ErrUnknownEnvironment"
    ELSE IF ~isKnownFlagType(flag.type) THEN "ErrUnknownFlagType"
    ELSE IF key \in DOMAIN s.flags /\ s.flags[key].type # flag.type THEN "ErrFlagTypeChanged"
    ELSE OK

FlagCreateError(s, flag) ==
    IF flag.environmentID \notin DOMAIN s.environments THEN "ErrUnknownEnvironment"
    ELSE IF ~isKnownFlagType(flag.type) THEN "ErrUnknownFlagType"
    ELSE IF flagMapKey(flag.environmentID, flag.key) \in DOMAIN s.flags THEN "ErrFlagExists"
    ELSE OK

\* The index of the entry of a batch that the validation loop stops at.
FirstBad(s, flags) ==
    CHOOSE i \in DOMAIN flags :
        /\ FlagCreateError(s, flags[i]) # OK
        /\ \A j \in DOMAIN flags : j < i => FlagCreateError(s, flags[j]) = OK

BatchKeys(flags) ==
    {flagMapKey(flags[i].environmentID, flags[i].key) : i \in DOMAIN flags}

BatchEntry_First(flags, k) == flags[1]
\* The entry of a batch stored under k.  SetMany copies one definition to
\* every environment, so entries with one key are equal.
BatchEntry(flags, k) ==
    flags[CHOOSE i \in DOMAIN flags : flagMapKey(flags[i].environmentID, flags[i].key) = k]

PutBatch(s, index, flags) ==
    [s EXCEPT !.flags =
        [k \in DOMAIN s.flags \cup BatchKeys(flags) |->
            IF k \in BatchKeys(flags) THEN stampFlag(BatchEntry(flags, k), index)
            ELSE s.flags[k]]]

SetBatch_WriteWhileValidating(s, index, flags) ==
    IF \E i \in DOMAIN flags : FlagCreateError(s, flags[i]) # OK
    THEN Reject(PutBatch(s, index, SubSeq(flags, 1, FirstBad(s, flags) - 1)),
                FlagCreateError(s, flags[FirstBad(s, flags)]))
    ELSE Accept(PutBatch(s, index, flags))

SetBatch(s, index, flags) ==
    IF \E i \in DOMAIN flags : FlagCreateError(s, flags[i]) # OK
    THEN Reject(s, FlagCreateError(s, flags[FirstBad(s, flags)]))
    ELSE Accept(PutBatch(s, index, flags))

applyFlag(s, index, cmd) ==
    CASE cmd.op = "set" ->
           IF FlagSetError(s, cmd.flag) # OK
           THEN Reject(s, FlagSetError(s, cmd.flag))
           ELSE Accept([s EXCEPT !.flags =
                          Put(@, flagMapKey(cmd.flag.environmentID, cmd.flag.key),
                              stampFlag(cmd.flag, index))])
      [] cmd.op = "setBatch" -> SetBatch(s, index, cmd.flags)
      [] cmd.op = "delete" -> Accept([s EXCEPT !.flags = Drop(@, cmd.key)])
      [] OTHER -> Reject(s, "unknown command op")

----------------------------------------------------------------------------
(* Segments (segment.go) *)

hasSegmentsInEnvironment_Never(s, environmentID) == FALSE
hasSegmentsInEnvironment(s, environmentID) ==
    \E k \in DOMAIN s.segments : s.segments[k].environmentID = environmentID

segmentReferenced_Never(s, environmentID, segmentKey) == FALSE
segmentReferenced(s, environmentID, segmentKey) ==
    \E k \in DOMAIN s.flags :
        /\ s.flags[k].environmentID = environmentID
        /\ segmentKey \in s.flags[k].segmentRefs

validateSegment(segment) ==
    IF segment.rules > MaxSegmentRules THEN "ErrSegmentLimitExceeded"
    ELSE IF segment.targetingKeys > MaxSegmentTargetingKeys THEN "ErrSegmentLimitExceeded"
    ELSE IF segment.usesInSegment THEN "ErrSegmentUsesInSegment"
    ELSE OK

SegmentSetError(s, segment) ==
    IF segment.environmentID \notin DOMAIN s.environments THEN "ErrUnknownEnvironment"
    ELSE validateSegment(segment)

applySegment(s, index, cmd) ==
    CASE cmd.op = "set" ->
           IF SegmentSetError(s, cmd.segment) # OK
           THEN Reject(s, SegmentSetError(s, cmd.segment))
           ELSE Accept([s EXCEPT !.segments =
                          Put(@, flagMapKey(cmd.segment.environmentID, cmd.segment.key),
                              [cmd.segment EXCEPT !.revision = index])])
      [] cmd.op = "delete" ->
           IF cmd.key \notin DOMAIN s.segments THEN Accept(s)
           ELSE IF segmentReferenced(s, s.segments[cmd.key].environmentID,
                                     s.segments[cmd.key].key)
           THEN Reject(s, "ErrSegmentInUse")
           ELSE Accept([s EXCEPT !.segments = Drop(@, cmd.key)])
      [] OTHER -> Reject(s, "unknown command op")

----------------------------------------------------------------------------
(* Users (user.go) *)

isActiveAdmin(u) == u.active /\ AdminGroupID \in u.groupIDs

isSoleActiveAdmin_AnyMember(s, id) ==
    /\ id \in DOMAIN s.users
    /\ isActiveAdmin(s.users[id])
    /\ \A other \in DOMAIN s.users \ {id} : AdminGroupID \notin s.users[other].groupIDs
isSoleActiveAdmin(s, id) ==
    /\ id \in DOMAIN s.users
    /\ isActiveAdmin(s.users[id])
    /\ \A other \in DOMAIN s.users \ {id} : ~isActiveAdmin(s.users[other])

UserSetError_OnlyOnCreate(s, user) ==
    IF /\ user.id \notin DOMAIN s.users
       /\ \E id \in DOMAIN s.users : s.users[id].username = user.username
    THEN "ErrUsernameTaken"
    ELSE IF isSoleActiveAdmin(s, user.id) /\ ~isActiveAdmin(user) THEN "ErrLastAdmin"
    ELSE OK
UserSetError(s, user) ==
    IF \E id \in DOMAIN s.users : id # user.id /\ s.users[id].username = user.username
    THEN "ErrUsernameTaken"
    ELSE IF isSoleActiveAdmin(s, user.id) /\ ~isActiveAdmin(user) THEN "ErrLastAdmin"
    ELSE OK

UserDeleteError(s, id) == IF isSoleActiveAdmin(s, id) THEN "ErrLastAdmin" ELSE OK

applyUser(s, index, cmd) ==
    CASE cmd.op = "set" ->
           IF UserSetError(s, cmd.user) # OK
           THEN Reject(s, UserSetError(s, cmd.user))
           ELSE Accept([s EXCEPT !.users =
                          Put(@, cmd.user.id, [cmd.user EXCEPT !.version = index])])
      [] cmd.op = "delete" ->
           IF UserDeleteError(s, cmd.key) # OK
           THEN Reject(s, UserDeleteError(s, cmd.key))
           ELSE Accept([s EXCEPT !.users = Drop(@, cmd.key)])
      [] OTHER -> Reject(s, "unknown command op")

----------------------------------------------------------------------------
(* Groups (group.go) *)

GroupError_Unprotected(s, id) == OK
GroupError(s, id) ==
    IF id \in DOMAIN s.groups /\ s.groups[id].system THEN "ErrProtectedSystemGroup" ELSE OK

applyGroup(s, index, cmd) ==
    CASE cmd.op = "set" ->
           IF GroupError(s, cmd.group.id) # OK
           THEN Reject(s, GroupError(s, cmd.group.id))
           ELSE Accept([s EXCEPT !.groups =
                          Put(@, cmd.group.id, [cmd.group EXCEPT !.version = index])])
      [] cmd.op = "delete" ->
           IF GroupError(s, cmd.key) # OK
           THEN Reject(s, GroupError(s, cmd.key))
           ELSE Accept([s EXCEPT !.groups = Drop(@, cmd.key)])
      [] OTHER -> Reject(s, "unknown command op")

----------------------------------------------------------------------------
(* Audit entries (audit.go): appended, keyed by the log index *)

applyAuditEntry_FixedID(s, index, cmd) ==
    Accept([s EXCEPT !.auditEntries = Put(@, cmd.audit.id, cmd.audit)])
applyAuditEntry(s, index, cmd) ==
    IF cmd.op = "append"
    THEN Accept([s EXCEPT !.auditEntries =
                   Put(@, index, [cmd.audit EXCEPT !.id = index])])
    ELSE Reject(s, "unknown command op")

----------------------------------------------------------------------------
(* Application credentials (application_credential.go) *)

hasCredentialsInEnvironment(s, environmentID) ==
    \E id \in DOMAIN s.applicationCredentials :
        s.applicationCredentials[id].environmentID = environmentID

CredentialSetError(s, cred) ==
    IF cred.environmentID \notin DOMAIN s.environments THEN "ErrUnknownEnvironment" ELSE OK

applyApplicationCredential(s, index, cmd) ==
    CASE cmd.op = "set" ->
           IF CredentialSetError(s, cmd.credential) # OK
           THEN Reject(s, CredentialSetError(s, cmd.credential))
           ELSE Accept([s EXCEPT !.applicationCredentials =
                          Put(@, cmd.credential.id, [cmd.credential EXCEPT !.version = index])])
      [] cmd.op = "delete" -> Accept([s EXCEPT !.applicationCredentials = Drop(@, cmd.key)])
      [] OTHER -> Reject(s, "unknown command op")

----------------------------------------------------------------------------
(* Environments (environment.go) *)

\* len(f.environments) <= 1 with id present: id is the only key.
EnvironmentDeleteError_NoCount(s, id) ==
    IF hasFlagsInEnvironment(s, id) THEN "ErrEnvironmentHasFlags"
    ELSE IF hasCredentialsInEnvironment(s, id) THEN "ErrEnvironmentHasCredentials"
    ELSE IF hasSegmentsInEnvironment(s, id) THEN "ErrEnvironmentHasSegments"
    ELSE OK
EnvironmentDeleteError(s, id) ==
    IF DOMAIN s.environments = {id} THEN "ErrLastEnvironment"
    ELSE IF hasFlagsInEnvironment(s, id) THEN "ErrEnvironmentHasFlags"
    ELSE IF hasCredentialsInEnvironment(s, id) THEN "ErrEnvironmentHasCredentials"
    ELSE IF hasSegmentsInEnvironment(s, id) THEN "ErrEnvironmentHasSegments"
    ELSE OK

applyEnvironment(s, index, cmd) ==
    CASE cmd.op = "set" ->
           Accept([s EXCEPT !.environments =
                     Put(@, cmd.environment.id, [cmd.environment EXCEPT !.version = index])])
      [] cmd.op = "delete" ->
           IF EnvironmentDeleteError(s, cmd.key) # OK
           THEN Reject(s, EnvironmentDeleteError(s, cmd.key))
           ELSE Accept([s EXCEPT !.environments = Drop(@, cmd.key)])
      [] OTHER -> Reject(s, "unknown command op")

----------------------------------------------------------------------------
(* Apply: dispatch on the command's entity (fsm.go) *)

Apply(s, index, cmd) ==
    CASE cmd.entity = "flag" -> applyFlag(s, index, cmd)
      [] cmd.entity = "segment" -> applySegment(s, index, cmd)
      [] cmd.entity = "user" -> applyUser(s, index, cmd)
      [] cmd.entity = "group" -> applyGroup(s, index, cmd)
      [] cmd.entity = "audit" -> applyAuditEntry(s, index, cmd)
      [] cmd.entity = "environment" -> applyEnvironment(s, index, cmd)
      [] cmd.entity = "applicationCredential" -> applyApplicationCredential(s, index, cmd)
      [] OTHER -> Reject(s, "unknown command entity")

----------------------------------------------------------------------------
(* Snapshot and Restore (fsm.go).  A snapshot document is a function from  *)
(* the JSON keys present in it to maps, and what Restore reads is a        *)
(* sequence: empty, or holding one document.  Documents written by older   *)
(* builds lack keys; a missing map is restored empty.                      *)

FsmFields == DOMAIN newFSM

Snapshot_ForgetsEnvironments(s) ==
    <<[field \in FsmFields \ {"environments"} |-> s[field]]>>
Snapshot_OmitsEmpty(s) ==
    <<[field \in {f \in FsmFields : DOMAIN s[f] # {}} |-> s[field]]>>
Snapshot(s) == <<[field \in FsmFields |-> s[field]]>>

Decode(raw) ==
    [field \in FsmFields |->
        IF Len(raw) > 0 /\ field \in DOMAIN raw[1] THEN raw[1][field] ELSE EmptyMap]

RestoreError(raw) ==
    LET flags == Decode(raw).flags IN
    IF Len(raw) > 0 /\ {"flags", "users", "groups"} \cap DOMAIN raw[1] = {}
    THEN "unrecognized (pre-user/group) format"
    ELSE IF \E k \in DOMAIN flags : flags[k].environmentID = NoString
    THEN "pre-environment-scoped flags"
    ELSE IF \E k \in DOMAIN flags : flags[k].type = NoString
    THEN "pre-definition flags"
    ELSE OK

Restore(s, raw) ==
    IF RestoreError(raw) # OK THEN Reject(s, RestoreError(raw)) ELSE Accept(Decode(raw))
=============================================================================
