------------------------------- MODULE Store -------------------------------
(***************************************************************************)
(* What the replicated store promises to its callers: a sequence of        *)
(* commands, each applied exactly once, in log order, by Fsm!Apply.  There *)
(* is one action per mutating repository method of backend/internal/store, *)
(* and one for the entries Raft itself writes to the log, which take an    *)
(* index and change no map.                                                *)
(*                                                                         *)
(* The repositories' pre-checks outside the lock, leadership, crashes and  *)
(* replay are left to the modules that implement this one.                 *)
(***************************************************************************)
EXTENDS StoreTypes

VARIABLES
    fsm,     \* the maps, as newFSM and Apply build them
    index,   \* the index of the last log entry applied
    err      \* what the last command answered

vars == <<fsm, index, err>>

----------------------------------------------------------------------------
Init == fsm = newFSM /\ index = 0 /\ err = OK

Submit(cmd) ==
    /\ index < MaxIndex
    /\ index' = index + 1
    /\ fsm' = Apply(fsm, index', cmd).state
    /\ err' = Apply(fsm, index', cmd).err

FlagSet ==
    \E flag \in FlagInput :
        Submit([entity |-> "flag", op |-> "set", flag |-> flag])

FlagSetMany ==
    \E definition \in FlagInput, environmentIDs \in EnvironmentIDList :
        Submit([entity |-> "flag", op |-> "setBatch",
                flags |-> FlagsOf(definition, environmentIDs)])

FlagDelete ==
    \E environmentID \in EnvironmentID, key \in FlagKey :
        Submit([entity |-> "flag", op |-> "delete", key |-> flagMapKey(environmentID, key)])

SegmentSet ==
    \E segment \in SegmentInput :
        Submit([entity |-> "segment", op |-> "set", segment |-> segment])

SegmentDelete ==
    \E environmentID \in EnvironmentID, key \in SegmentKey :
        Submit([entity |-> "segment", op |-> "delete", key |-> flagMapKey(environmentID, key)])

UserSet ==
    \E user \in UserInput : Submit([entity |-> "user", op |-> "set", user |-> user])

UserDelete ==
    \E id \in UserID : Submit([entity |-> "user", op |-> "delete", key |-> id])

GroupSet ==
    \E group \in GroupInput : Submit([entity |-> "group", op |-> "set", group |-> group])

GroupDelete ==
    \E id \in GroupID : Submit([entity |-> "group", op |-> "delete", key |-> id])

EnvironmentSet ==
    \E environment \in EnvironmentInput :
        Submit([entity |-> "environment", op |-> "set", environment |-> environment])

EnvironmentDelete ==
    \E id \in EnvironmentID :
        Submit([entity |-> "environment", op |-> "delete", key |-> id])

CredentialSet ==
    \E cred \in CredentialInput :
        Submit([entity |-> "applicationCredential", op |-> "set", credential |-> cred])

CredentialDelete ==
    \E id \in CredentialID :
        Submit([entity |-> "applicationCredential", op |-> "delete", key |-> id])

AuditAppend ==
    \E entry \in AuditInput :
        Submit([entity |-> "audit", op |-> "append", audit |-> entry])

\* Raft's own entries (a new leader's no-op, the bootstrap configuration).
RaftEntry ==
    /\ index < MaxIndex
    /\ index' = index + 1
    /\ UNCHANGED <<fsm, err>>

Next ==
    \/ FlagSet \/ FlagSetMany \/ FlagDelete
    \/ SegmentSet \/ SegmentDelete
    \/ UserSet \/ UserDelete
    \/ GroupSet \/ GroupDelete
    \/ EnvironmentSet \/ EnvironmentDelete
    \/ CredentialSet \/ CredentialDelete
    \/ AuditAppend
    \/ RaftEntry

Spec == Init /\ [][Next]_vars

----------------------------------------------------------------------------
(* Invariants *)

\* The state has the shape the Go structs declare: seven maps, each from the
\* keys of one entity to its records.
TypeOK == index \in Nat /\ Typed(fsm)

\* Every record is stored under its own identity: no command files a record
\* under another record's key (flagMapKey and the ID fields, also in SetMany).
KeysMatch == OwnKeys(fsm)

\* Nothing is ever orphaned: whatever the order of creates and deletes, the
\* environment of every flag, segment and credential exists
\* (ErrUnknownEnvironment on the writes, ErrEnvironmentHas* on the delete).
EnvironmentsExist == NoOrphans(fsm)

\* No two users have one username, after any sequence of creates and renames
\* (ErrUsernameTaken): login looks users up by it.
UsernamesUnique == DistinctUsernames(fsm)

\* A snapshot of any reachable state is accepted by Restore and brings back
\* exactly that state: a node can always be restarted from its own snapshot.
SnapshotRestorable == Restore(newFSM, Snapshot(fsm)) = [state |-> fsm, err |-> OK]

\* Versions and revisions are the log indexes of the writes: never ahead of
\* the log, and two records share one only when one SetMany wrote both.
VersionsAreIndexes ==
    /\ \A r \in Stamped(fsm) : r[2] \in 1..index
    /\ \A r, q \in Stamped(fsm) : r[2] = q[2] => r[1] = q[1] /\ r[3] = q[3]

(* Action properties *)

\* Once there is an active admin there always is one: no user command, in any
\* order, deletes, deactivates or demotes the last of them (ErrLastAdmin).
AdminNeverLost == [][HasActiveAdmin(fsm) => HasActiveAdmin(fsm')]_vars

\* Once created, the Admin group is never changed or removed, not even by
\* seeding again (ErrProtectedSystemGroup).
AdminGroupFixed == [][AdminGroupKept(fsm, fsm')]_vars

\* The last environment is never deleted (ErrLastEnvironment).
EnvironmentsNeverEmptied ==
    [][DOMAIN fsm.environments # {} => DOMAIN fsm'.environments # {}]_vars

\* A flag's type is fixed while the flag exists, on every write path
\* (ErrFlagTypeChanged on Set, ErrFlagExists on SetMany).
FlagTypeFixed == [][TypesKept(fsm, fsm')]_vars

\* A segment reference that resolves keeps resolving as long as the flag
\* makes it: the segment is not deleted under the flag (ErrSegmentInUse).
ResolvedReferencesKept == [][ReferencesKept(fsm, fsm')]_vars

\* A refused command changes nothing: in particular a SetMany of which one
\* entry is refused writes none of the others.
RefusalChangesNothing == [][err' # OK => fsm' = fsm]_vars

\* The audit trail is append-only: no command changes or drops an entry.
AuditAppendOnly == [][AuditKept(fsm, fsm')]_vars
=============================================================================
