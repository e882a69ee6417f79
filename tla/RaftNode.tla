------------------------------ MODULE RaftNode ------------------------------
(***************************************************************************)
(* One aerendil server process and its Raft node: opening the store,       *)
(* replaying the log, seeding the admin account, serving mutations, taking *)
(* snapshots, losing and regaining leadership, shutting down, crashing and *)
(* starting again on the same data directory.                              *)
(*                                                                         *)
(* The repository only ever bootstraps single-member clusters (newRaft     *)
(* never adds a voter), so the node is its own quorum: an entry is         *)
(* committed as soon as the leader has stored it.  What hashicorp/raft     *)
(* does is modelled from how internal/store uses it: NewRaft restores the  *)
(* newest usable snapshot before it returns; the log is applied to the FSM *)
(* in the background, and only once the node, elected, has stored a no-op; *)
(* State() says Leader before that.                                        *)
(*                                                                         *)
(* log keeps every entry ever stored, with compacted marking the prefix    *)
(* that compaction deleted from disk; nothing reads that prefix.           *)
(***************************************************************************)
EXTENDS StoreTypes

CONSTANTS
    Client,         \* concurrent API handlers
    ClientCommand,  \* the commands their requests submit
    Seeder,         \* the goroutine that runs SeedAdminGroupAndUser
    AdminUsername,  \* the configured names of the admin account, over restarts
    AdminSecret,    \* the configured password's hash
    NoPermissions,  \* an empty permission list
    Bootstrap,      \* the values of Config.Bootstrap, over restarts
    MaxStart,       \* bounds on process starts,
    MaxFault,       \* failures of the log store and enqueue timeouts,
    MaxSnapshot,    \* snapshots taken
    MaxCall         \* and mutations requested

Caller == Client \cup {Seeder}

VARIABLES
    \* On disk
    log,            \* the entries stored in raft.db
    compacted,      \* how many of them compaction has deleted
    snapshots,      \* the snapshot files, newest first: <<[index, raw], ...>>
    \* In the process
    phase,          \* "down", "opening", "seeding", "serving", "stopping"
    role,           \* "Follower", "Elected" (no-op not stored yet), "Leader"
    commitIndex,    \* what Raft knows to be committed
    applied,        \* the last entry applied to fsm
    fsm,            \* the maps
    persisting,     \* snapshots captured and not yet written: <<>> or <<[index, raw]>>
    call,           \* each caller's Store.apply: its step, command, entry and answer
    seed,           \* where SeedAdminGroupAndUser stands
    config,         \* the admin username the process was started with
    \* History, read by no action's guard but the bounds
    acknowledged,   \* the log indexes of the mutations callers were told are done
    starts, faults, taken, calls

disk == <<log, compacted, snapshots>>
process == <<phase, role, commitIndex, applied, fsm, persisting, call, seed, config>>
history == <<acknowledged, starts, faults, taken, calls>>
vars == <<disk, process, history>>

Idle == [step |-> "idle"]
Done(index, err) == [step |-> "done", index |-> index, err |-> err]
NotLogged == 0
Entry(kind, cmd) == [kind |-> kind, cmd |-> cmd]
NoCommand == [entity |-> "none"]

GroupSetCommand(group) == [entity |-> "group", op |-> "set", group |-> group]
UserSetCommand(user) == [entity |-> "user", op |-> "set", user |-> user]
AdminGroup ==
    [id |-> AdminGroupID, permissions |-> NoPermissions, environmentIDs |-> {},
     system |-> TRUE, version |-> 0]
AdminUser(id, username) ==
    [id |-> id, username |-> username, passwordHash |-> AdminSecret,
     groupIDs |-> {AdminGroupID}, active |-> TRUE, version |-> 0]

ASSUME SeedInputAssumption ==
    /\ AdminGroup \in GroupInput
    /\ \A id \in UserID, username \in AdminUsername : AdminUser(id, username) \in UserInput
ASSUME SeederAssumption == Seeder \notin Client
ASSUME ClientCommandAssumption == ClientCommand \subseteq Command

\* What the first n entries of a log make of the maps, and the last answer.
ReplayEntry(s, i, entry) ==
    IF entry.kind = "command" THEN Apply(s.state, i, entry.cmd) ELSE s
Replay(l, n) ==
    LET at[i \in 0..n] == IF i = 0 THEN Accept(newFSM) ELSE ReplayEntry(at[i - 1], i, l[i])
    IN  at[n]

----------------------------------------------------------------------------
Init ==
    /\ log = <<>> /\ compacted = 0 /\ snapshots = <<>>
    /\ phase = "down" /\ role = "Follower" /\ commitIndex = 0 /\ applied = 0
    /\ fsm = newFSM /\ persisting = <<>>
    /\ call = [c \in Caller |-> Idle]
    /\ seed = "none"
    /\ config = NoString
    /\ acknowledged = {} /\ starts = 0 /\ faults = 0 /\ taken = 0 /\ calls = 0

(* Opening the store *)

Usable(i) == RestoreError(snapshots[i].raw) = OK

\* store.Open, newRaft up to NewRaft: restore the newest usable snapshot.
Start ==
    /\ phase = "down" /\ starts < MaxStart
    /\ starts' = starts + 1
    /\ phase' = "opening"
    /\ \E username \in AdminUsername : config' = username
    /\ IF snapshots = <<>>
       THEN fsm' = newFSM /\ applied' = 0 /\ commitIndex' = 0
       ELSE \E i \in DOMAIN snapshots :
              /\ Usable(i)
              /\ \A j \in DOMAIN snapshots : j < i => ~Usable(j)
              /\ fsm' = Restore(newFSM, snapshots[i].raw).state
              /\ applied' = snapshots[i].index
              /\ commitIndex' = snapshots[i].index
    /\ UNCHANGED <<disk, role, persisting, call, seed, acknowledged, faults, taken, calls>>

\* newRaft's last step: bootstrap the cluster unless the disk holds state.
BootstrapCluster ==
    /\ phase = "opening"
    /\ phase' = "seeding"
    /\ seed' = "readGroup"
    /\ \E bootstrap \in Bootstrap :
         IF bootstrap /\ log = <<>> /\ snapshots = <<>>
         THEN log' = <<Entry("configuration", NoCommand)>>
         ELSE UNCHANGED log
    /\ UNCHANGED <<compacted, snapshots, role, commitIndex, applied, fsm, persisting, call,
                   config, history>>

----------------------------------------------------------------------------
(* Raft *)

Up == phase # "down"
IsLeader == role \in {"Elected", "Leader"}

\* The election timer fires; a single voter, knowing itself to be in the
\* configuration, elects itself.
Elect ==
    /\ Up /\ role = "Follower"
    /\ log # <<>>
    /\ role' = "Elected"
    /\ UNCHANGED <<disk, phase, commitIndex, applied, fsm, persisting, call, seed, config, history>>

\* The new leader stores a no-op; committing it commits everything before it.
LeaderNoop ==
    /\ Up /\ role = "Elected" /\ Len(log) < MaxIndex
    /\ role' = "Leader"
    /\ log' = Append(log, Entry("noop", NoCommand))
    /\ UNCHANGED <<compacted, snapshots, phase, commitIndex, applied, fsm, persisting, call,
                   seed, config, history>>

\* What the only voter has stored is committed.
Commit ==
    /\ Up /\ role = "Leader" /\ commitIndex < Len(log)
    /\ commitIndex' = Len(log)
    /\ UNCHANGED <<disk, phase, role, applied, fsm, persisting, call, seed, config, history>>

\* The FSM goroutine applies the next committed entry (fsm.Apply) and answers
\* the caller that waits for it, if there still is one.
NextApplied == ReplayEntry(Accept(fsm), applied + 1, log[applied + 1])

ApplyReady == Up /\ applied < commitIndex

Answer(index, err) ==
    [c \in Caller |-> IF call[c].step = "waiting" /\ call[c].index = index
                      THEN Done(index, err) ELSE call[c]]

ApplyNext ==
    /\ applied' = applied + 1
    /\ fsm' = NextApplied.state
    /\ call' = Answer(applied', NextApplied.err)
    /\ UNCHANGED <<disk, phase, role, commitIndex, persisting, seed, config, history>>

\* An early return that keeps f.mu locked: the goroutine never comes back.
FsmApply_LockedAfterRefusal == ApplyReady /\ NextApplied.err = OK /\ ApplyNext
FsmApply == ApplyReady /\ ApplyNext

\* The log store fails: the leader steps down.  The callers whose entries it
\* could not store, and those whose entries are stored and not committed, are
\* answered with errors of Raft's own; the stored entries stay in the log.
LogStoreFails ==
    /\ Up /\ IsLeader /\ faults < MaxFault
    /\ faults' = faults + 1
    /\ role' = "Follower"
    /\ \E unstored \in SUBSET {c \in Caller : call[c].step = "checked"} :
         /\ unstored = {} <=> role = "Elected"
         /\ call' = [c \in Caller |->
                       IF c \in unstored THEN Done(NotLogged, "raft.LogStoreError")
                       ELSE IF call[c].step = "waiting" /\ call[c].index > commitIndex
                       THEN Done(call[c].index, "raft.ErrLeadershipLost")
                       ELSE call[c]]
    /\ UNCHANGED <<disk, phase, commitIndex, applied, fsm, persisting, seed, config,
                   acknowledged, starts, taken, calls>>

\* runSnapshots: the FSM is captured (fsm.Snapshot) ...
SnapshotBegin ==
    /\ Up /\ persisting = <<>> /\ applied > 0 /\ taken < MaxSnapshot
    /\ \A i \in DOMAIN snapshots : snapshots[i].index < applied
    /\ taken' = taken + 1
    /\ persisting' = <<[index |-> applied, raw |-> Snapshot(fsm)]>>
    /\ UNCHANGED <<disk, phase, role, commitIndex, applied, fsm, call, seed, config,
                   acknowledged, starts, faults, calls>>

\* ... and written while commands go on being applied (fsmSnapshot.Persist);
\* the snapshot store keeps the two newest.
SnapshotPersist ==
    /\ Up /\ persisting # <<>>
    /\ snapshots' = IF snapshots = <<>> THEN persisting
                    ELSE <<persisting[1], snapshots[1]>>
    /\ persisting' = <<>>
    /\ UNCHANGED <<log, compacted, phase, role, commitIndex, applied, fsm, call, seed, config,
                   history>>

\* Encoding or writing fails: Persist cancels the sink.
SnapshotCancel ==
    /\ Up /\ persisting # <<>>
    /\ persisting' = <<>>
    /\ UNCHANGED <<disk, phase, role, commitIndex, applied, fsm, call, seed, config, history>>

\* After a snapshot Raft deletes log entries it covers.
Compact ==
    /\ Up /\ snapshots # <<>>
    /\ compacted < snapshots[1].index
    /\ compacted' = snapshots[1].index
    /\ UNCHANGED <<log, snapshots, process, history>>

----------------------------------------------------------------------------
(* Store.apply *)

\* Leadership is checked first; without it nothing is submitted.
CheckedCall(cmd) ==
    IF IsLeader THEN [step |-> "checked", cmd |-> cmd]
    ELSE Done(NotLogged, "ErrNotLeader")

\* raft.Apply hands the command to the leader loop, which stores it.
Stored_Twice(c) == <<Entry("command", call[c].cmd), Entry("command", call[c].cmd)>>
Stored(c) == <<Entry("command", call[c].cmd)>>

Submit(c) ==
    /\ Up /\ call[c].step = "checked"
    /\ role = "Leader" /\ Len(log) < MaxIndex
    /\ log' = log \o Stored(c)
    /\ call' = [call EXCEPT ![c] = [step |-> "waiting", index |-> Len(log')]]
    /\ UNCHANGED <<compacted, snapshots, phase, role, commitIndex, applied, fsm, persisting,
                   seed, config, history>>

\* Leadership was lost between the check and raft.Apply, which answers with
\* an error of its own (future.Error).
Refuse(c, e) ==
    /\ Up /\ call[c].step = "checked" /\ ~IsLeader
    /\ call' = [call EXCEPT ![c] = Done(NotLogged, e)]
    /\ UNCHANGED <<disk, phase, role, commitIndex, applied, fsm, persisting, seed, config,
                   history>>

SubmitRefused_ErrorIgnored(c) == Refuse(c, OK)
SubmitRefused(c) == Refuse(c, "raft.ErrNotLeader")

\* The leader loop does not take the command within five seconds.
EnqueueTimeout(c) ==
    /\ Up /\ call[c].step = "checked" /\ faults < MaxFault
    /\ faults' = faults + 1
    /\ call' = [call EXCEPT ![c] = Done(NotLogged, "raft.ErrEnqueueTimeout")]
    /\ UNCHANGED <<disk, phase, role, commitIndex, applied, fsm, persisting, seed, config,
                   acknowledged, starts, taken, calls>>

\* An API handler starts a mutation, and returns once it is answered.  It has
\* authenticated its caller against the stored users, so there is one.
ClientCall(c) ==
    /\ phase = "serving" /\ call[c] = Idle /\ calls < MaxCall
    /\ DOMAIN fsm.users # {}
    /\ calls' = calls + 1
    /\ \E cmd \in ClientCommand : call' = [call EXCEPT ![c] = CheckedCall(cmd)]
    /\ UNCHANGED <<disk, phase, role, commitIndex, applied, fsm, persisting, seed, config,
                   acknowledged, starts, faults, taken>>

\* The caller gets its answer.
Return(c) ==
    /\ Up /\ call[c].step = "done"
    /\ call' = [call EXCEPT ![c] = Idle]
    /\ acknowledged' = IF call[c].err = OK THEN acknowledged \cup {call[c].index}
                       ELSE acknowledged
    /\ UNCHANGED <<disk, role, commitIndex, applied, fsm, persisting, config, starts, faults,
                   taken, calls>>

ClientReturn(c) == Return(c) /\ UNCHANGED <<phase, seed>>

----------------------------------------------------------------------------
(* SeedAdminGroupAndUser *)

raftUnchanged == UNCHANGED <<disk, role, commitIndex, applied, fsm, persisting, config, history>>

SeedReadGroup_GroupMeansSeeded ==
    /\ phase = "seeding" /\ seed = "readGroup"
    /\ IF AdminGroupID \in DOMAIN fsm.groups
       THEN seed' = "seeded" /\ phase' = "serving"
       ELSE seed' = "setGroup" /\ UNCHANGED phase
    /\ UNCHANGED call /\ raftUnchanged

SeedReadGroup ==
    /\ phase = "seeding" /\ seed = "readGroup"
    /\ seed' = IF AdminGroupID \in DOMAIN fsm.groups THEN "readUser" ELSE "setGroup"
    /\ UNCHANGED <<phase, call>> /\ raftUnchanged

\* Groups.Set: its pre-check, then Store.apply.
SeedSetGroup ==
    /\ phase = "seeding" /\ seed = "setGroup"
    /\ call[Seeder] = Idle
    /\ call' = [call EXCEPT ![Seeder] =
                   IF GroupError(fsm, AdminGroupID) # OK
                   THEN Done(NotLogged, GroupError(fsm, AdminGroupID))
                   ELSE CheckedCall(GroupSetCommand(AdminGroup))]
    /\ UNCHANGED <<phase, seed>> /\ raftUnchanged

UserNamed(username) == \E id \in DOMAIN fsm.users : fsm.users[id].username = username

SeedReadUser ==
    /\ phase = "seeding" /\ seed = "readUser"
    /\ IF UserNamed(config)
       THEN seed' = "seeded" /\ phase' = "serving"
       ELSE seed' = "setUser" /\ UNCHANGED phase
    /\ UNCHANGED call /\ raftUnchanged

\* IDs are random: a new one is none that the log has seen.
FreshUserID_Fixed == {CHOOSE id \in UserID : TRUE}
FreshUserID ==
    UserID \ {log[i].cmd.user.id : i \in {j \in DOMAIN log :
                /\ log[j].cmd.entity = "user" /\ log[j].cmd.op = "set"}}

\* Users.Set: its pre-check, then Store.apply.
SeedSetUser ==
    /\ phase = "seeding" /\ seed = "setUser"
    /\ call[Seeder] = Idle
    /\ \E id \in FreshUserID :
         call' = [call EXCEPT ![Seeder] =
                    IF UserSetError(fsm, AdminUser(id, config)) # OK
                    THEN Done(NotLogged, UserSetError(fsm, AdminUser(id, config)))
                    ELSE CheckedCall(UserSetCommand(AdminUser(id, config)))]
    /\ UNCHANGED <<phase, seed>> /\ raftUnchanged

\* What seedAdminGroupAndUser makes of the answer: success leads to the next
\* step, ErrNotLeader to another attempt or, past the deadline, to serving
\* without; any other error ends run().
SeedAnswer(ok) ==
    phase = "seeding" /\ Return(Seeder) /\ ok = (call[Seeder].err = OK)

SeedSetDone ==
    /\ SeedAnswer(TRUE)
    /\ IF seed = "setGroup" THEN seed' = "readUser" /\ UNCHANGED phase
       ELSE seed' = "seeded" /\ phase' = "serving"

SeedRetry ==
    /\ SeedAnswer(FALSE) /\ call[Seeder].err = "ErrNotLeader"
    /\ seed' = "readGroup" /\ UNCHANGED phase

SeedGiveUp_Never == FALSE
SeedGiveUp ==
    /\ SeedAnswer(FALSE) /\ call[Seeder].err = "ErrNotLeader"
    /\ seed' = "gaveUp" /\ phase' = "serving"

SeedFail ==
    /\ SeedAnswer(FALSE) /\ call[Seeder].err # "ErrNotLeader"
    /\ seed' = "failed" /\ phase' = "stopping"

----------------------------------------------------------------------------
(* The end of the process *)

\* SIGTERM: http.Server.Shutdown takes no new requests.
ShutdownRequested ==
    /\ phase = "serving"
    /\ phase' = "stopping"
    /\ UNCHANGED <<disk, role, commitIndex, applied, fsm, persisting, call, seed, config, history>>

Stop ==
    /\ phase' = "down" /\ role' = "Follower"
    /\ commitIndex' = 0 /\ applied' = 0 /\ fsm' = newFSM /\ persisting' = <<>>
    /\ call' = [c \in Caller |-> Idle] /\ seed' = "none" /\ config' = NoString
    /\ UNCHANGED <<disk, history>>

\* Store.Close and exit: after Shutdown or its 10 s timeout, with handlers
\* possibly still waiting, or after a failed seeding.
Exit == phase = "stopping" /\ Stop

\* The process dies with what it holds in memory.
Crash == Up /\ Stop

Seed == \/ SeedReadGroup \/ SeedSetGroup \/ SeedReadUser \/ SeedSetUser
        \/ SeedSetDone \/ SeedRetry \/ SeedGiveUp \/ SeedFail

Next ==
    \/ Start \/ BootstrapCluster
    \/ Elect \/ LeaderNoop \/ Commit \/ FsmApply \/ LogStoreFails
    \/ SnapshotBegin \/ SnapshotPersist \/ SnapshotCancel \/ Compact
    \/ \E c \in Caller : Submit(c) \/ SubmitRefused(c) \/ EnqueueTimeout(c)
    \/ \E c \in Client : ClientCall(c) \/ ClientReturn(c)
    \/ Seed
    \/ ShutdownRequested \/ Exit \/ Crash

Spec == Init /\ [][Next]_vars

\* Raft's goroutines, the seeding goroutine and the handlers keep running as
\* long as the process does.  An attempt to seed that is refused past the
\* deadline is the last: attempts do not go on for ever.  Nothing obliges the
\* process to be started, to be stopped, to snapshot, or its disk to fail.
Fairness ==
    /\ WF_vars(BootstrapCluster) /\ WF_vars(Elect) /\ WF_vars(LeaderNoop)
    /\ WF_vars(Commit) /\ WF_vars(FsmApply)
    /\ \A c \in Caller : WF_vars(Submit(c)) /\ WF_vars(SubmitRefused(c))
    /\ WF_vars(Seed) /\ SF_vars(SeedGiveUp)

FairSpec == Spec /\ Fairness

----------------------------------------------------------------------------
(* Properties *)

\* What readers see is always the state some prefix of the log led to, also
\* after any number of restores, replays and changes of leader.
FsmIsPrefix == Up => fsm = Replay(log, applied).state

\* The data directory can always be started from: both snapshots are usable
\* and are the state at their index, and compaction has deleted no entry that
\* a restart, or the FSM goroutine now, still has to apply.
NodeRecoverable ==
    /\ \A i \in DOMAIN snapshots :
         /\ Usable(i)
         /\ Restore(newFSM, snapshots[i].raw).state = Replay(log, snapshots[i].index).state
    /\ compacted > 0 => snapshots # <<>> /\ snapshots[1].index >= compacted
    /\ Up => applied >= compacted

\* A mutation reported done stays done: its entry is in the log, whatever
\* crashes, elections and restores come after, and replaying the log up to it
\* still accepts it.
AcknowledgedDurable ==
    \A i \in acknowledged :
        /\ i \in DOMAIN log /\ log[i].kind = "command"
        /\ Replay(log, i).err = OK

\* A server that serves after seeding has an active admin and the Admin
\* group, whatever crashes interrupted earlier seedings and whatever was done
\* to the accounts since: somebody can log in and administer it.
ServingHasAdmin ==
    phase = "serving" /\ seed = "seeded" =>
        LET s == Replay(log, Len(log)).state
        IN  HasActiveAdmin(s) /\ AdminGroupID \in DOMAIN s.groups

\* Seeding never touches an account that exists ("never ... resets an
\* existing admin's password"), however stale the maps it read.
SeedingTouchesNoAccount ==
    [][call[Seeder].step = "checked" /\ call'[Seeder].step = "waiting" =>
         LET s == Replay(log, Len(log)).state.users
             t == Replay(log', Len(log')).state.users
         IN  \A id \in DOMAIN s : id \in DOMAIN t /\ t[id] = s[id]]_vars

\* The node implements the abstract store: its log is the store's history.
S == INSTANCE Store WITH fsm <- Replay(log, Len(log)).state,
                         err <- Replay(log, Len(log)).err,
                         index <- Len(log)
ImplementsStore == S!Spec

\* Seeding comes to an end: with success, failure or by giving up.
SeedingEnds == phase = "seeding" ~> phase # "seeding"

\* A caller of Store.apply gets an answer, or the process ends.
CallsAnswered == \A c \in Caller : call[c].step \in {"checked", "waiting"} ~>
                                    call[c].step \in {"idle", "done"}

\* A process that stays up catches up with its log.
CatchesUp == Up ~> (~Up \/ applied = Len(log))

(* What comments of the repository say and the code does not do            *)

\* auth/bootstrap.go:19 "It's idempotent -- it never recreates the group":
\* seeding a store that is already seeded succeeds.
SeedingNeverFails == seed # "failed"
=============================================================================
