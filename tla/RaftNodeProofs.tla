--------------------------- MODULE RaftNodeProofs ---------------------------
(***************************************************************************)
(* Proofs about RaftNode, for every value of its constants.                *)
(***************************************************************************)
EXTENDS RaftNode, ApplyProofs, Induction

\* What a log holds: commands of the repositories, and Raft's own entries.
LogEntry ==
    {Entry("command", cmd) : cmd \in Command}
    \cup {Entry("noop", NoCommand), Entry("configuration", NoCommand)}

----------------------------------------------------------------------------
(* What replaying the prefixes of a log gives                              *)

\* at[i] is what the first i entries of l make of the maps, for i up to n.
Replays(l, n, at) ==
    at = [i \in 0..n |-> IF i = 0 THEN Accept(newFSM)
                         ELSE ReplayEntry(at[i - 1], i, l[i])]

\* There is such a function for every n.
LEMMA ReplaysExists == \A l : \A n \in Nat : \E at : Replays(l, n, at)
<1>1. SUFFICES ASSUME NEW l PROVE \A n \in Nat : \E at : Replays(l, n, at)
  OBVIOUS
<1> DEFINE Holding == {n \in Nat : \E at : Replays(l, n, at)}
<1>2. 0 \in Holding
  <2> DEFINE at == [i \in 0..0 |-> Accept(newFSM)]
  <2>1. Replays(l, 0, at)
    BY DEF Replays
  <2> QED
    BY <2>1
<1>3. ASSUME NEW n \in Nat, n \in Holding PROVE n + 1 \in Holding
  <2>1. PICK at : Replays(l, n, at)
    BY <1>3
  <2> DEFINE next == [i \in 0..(n + 1) |-> IF i = n + 1 THEN ReplayEntry(at[n], i, l[i])
                                           ELSE at[i]]
             e(i) == IF i = 0 THEN Accept(newFSM) ELSE ReplayEntry(next[i - 1], i, l[i])
  <2>2. ASSUME NEW i \in 0..(n + 1) PROVE next[i] = e(i)
    <3>1. CASE i = n + 1
      BY <3>1
    <3>2. CASE i \in 1..n
      <4>1. next[i] = at[i] /\ next[i - 1] = at[i - 1]
        BY <3>2
      <4> QED
        BY <2>1, <3>2, <4>1 DEF Replays
    <3>3. CASE i = 0
      BY <2>1, <3>3 DEF Replays
    <3> QED
      BY <3>1, <3>2, <3>3
  <2>3. next = [i \in 0..(n + 1) |-> e(i)]
    <3>1. next = [i \in 0..(n + 1) |-> next[i]]
      OBVIOUS
    <3> HIDE DEF next
    <3> QED
      BY <2>2, <3>1
  <2>4. Replays(l, n + 1, next)
    BY <2>3 DEF Replays
  <2> QED
    BY <2>4
<1> HIDE DEF Holding
<1>4. Nat \subseteq Holding
  BY <1>2, <1>3, SetInduction
<1> QED
  BY <1>4 DEF Holding

\* Replay takes it at n.
LEMMA ReplayAt == \A l : \A n \in Nat : \E at : Replays(l, n, at) /\ Replay(l, n) = at[n]
<1>1. SUFFICES ASSUME NEW l, NEW n \in Nat
               PROVE  \E at : Replays(l, n, at) /\ Replay(l, n) = at[n]
  OBVIOUS
<1> DEFINE f == CHOOSE at : Replays(l, n, at)
<1>2. Replays(l, n, f)
  BY ReplaysExists
<1>3. Replay(l, n) = f[n]
  BY DEF Replay, Replays
<1> QED
  BY <1>2, <1>3

\* Two such functions agree where both are defined.
LEMMA ReplaysAgree ==
    ASSUME NEW l, NEW n \in Nat, NEW m \in Nat, NEW at, NEW bt,
           Replays(l, n, at), Replays(l, m, bt)
    PROVE  \A i \in Nat : i <= n /\ i <= m => at[i] = bt[i]
<1> DEFINE Holding == {i \in Nat : i <= n /\ i <= m => at[i] = bt[i]}
<1>1. 0 \in Holding
  BY DEF Replays
<1>2. ASSUME NEW i \in Nat, i \in Holding PROVE i + 1 \in Holding
  <2>1. SUFFICES ASSUME i + 1 <= n, i + 1 <= m PROVE at[i + 1] = bt[i + 1]
    OBVIOUS
  <2>2. at[i] = bt[i]
    BY <1>2, <2>1
  <2>3. at[i + 1] = ReplayEntry(at[i], i + 1, l[i + 1])
    BY <2>1 DEF Replays
  <2>4. bt[i + 1] = ReplayEntry(bt[i], i + 1, l[i + 1])
    BY <2>1 DEF Replays
  <2> QED
    BY <2>2, <2>3, <2>4
<1> HIDE DEF Holding
<1>3. Nat \subseteq Holding
  BY <1>1, <1>2, SetInduction
<1> QED
  BY <1>3 DEF Holding

\* Nothing replayed leaves the new maps.
LEMMA ReplayZero == \A l : Replay(l, 0) = Accept(newFSM)
BY ReplayAt DEF Replays

\* Replaying one entry more applies that entry.
LEMMA ReplayNext ==
    \A l : \A n \in Nat : Replay(l, n + 1) = ReplayEntry(Replay(l, n), n + 1, l[n + 1])
<1>1. SUFFICES ASSUME NEW l, NEW n \in Nat
               PROVE  Replay(l, n + 1) = ReplayEntry(Replay(l, n), n + 1, l[n + 1])
  OBVIOUS
<1>2. PICK at : Replays(l, n, at) /\ Replay(l, n) = at[n]
  BY ReplayAt
<1>3. PICK bt : Replays(l, n + 1, bt) /\ Replay(l, n + 1) = bt[n + 1]
  BY ReplayAt, n + 1 \in Nat
<1>4. at[n] = bt[n]
  BY <1>2, <1>3, ReplaysAgree, n + 1 \in Nat
<1>5. bt[n + 1] = ReplayEntry(bt[n], n + 1, l[n + 1])
  BY <1>3 DEF Replays
<1> QED
  BY <1>2, <1>3, <1>4, <1>5

\* What a log holds past n makes no difference to its first n entries.
LEMMA ReplayPrefix ==
    ASSUME NEW l, NEW k, NEW m \in Nat, \A i \in 1..m : l[i] = k[i]
    PROVE  Replay(l, m) = Replay(k, m)
<1> DEFINE Holding == {n \in Nat : n <= m => Replay(l, n) = Replay(k, n)}
<1>1. 0 \in Holding
  BY ReplayZero
<1>2. ASSUME NEW n \in Nat, n \in Holding PROVE n + 1 \in Holding
  <2>1. SUFFICES ASSUME n + 1 <= m PROVE Replay(l, n + 1) = Replay(k, n + 1)
    OBVIOUS
  <2>2. Replay(l, n) = Replay(k, n) /\ l[n + 1] = k[n + 1]
    BY <1>2, <2>1
  <2> QED
    BY <2>2, ReplayNext
<1> HIDE DEF Holding
<1>3. Nat \subseteq Holding
  BY <1>1, <1>2, SetInduction
<1> QED
  BY <1>3 DEF Holding

\* So appending an entry changes nothing before it.
LEMMA ReplayAppend ==
    ASSUME NEW l \in Seq(LogEntry), NEW e \in LogEntry
    PROVE  LET k == Append(l, e) IN
           /\ k \in Seq(LogEntry) /\ Len(k) = Len(l) + 1
           /\ k[Len(l) + 1] = e
           /\ \A i \in 1..Len(l) : k[i] = l[i]
           /\ \A n \in 0..Len(l) : Replay(k, n) = Replay(l, n)
           /\ Replay(k, Len(l) + 1) = ReplayEntry(Replay(l, Len(l)), Len(l) + 1, e)
<1> DEFINE k == Append(l, e)
<1>1. /\ k \in Seq(LogEntry) /\ Len(k) = Len(l) + 1 /\ Len(l) \in Nat
      /\ k[Len(l) + 1] = e
      /\ \A i \in 1..Len(l) : k[i] = l[i]
  BY AppendProperties
<1> HIDE DEF k
<1>2. ASSUME NEW n \in 0..Len(l) PROVE Replay(k, n) = Replay(l, n)
  <2>1. n \in Nat /\ \A i \in 1..n : k[i] = l[i]
    BY <1>1
  <2> QED
    BY <2>1, ReplayPrefix
<1>3. Replay(k, Len(l) + 1) = ReplayEntry(Replay(l, Len(l)), Len(l) + 1, e)
  <2>1. Replay(k, Len(l) + 1) = ReplayEntry(Replay(k, Len(l)), Len(l) + 1, k[Len(l) + 1])
    BY <1>1, ReplayNext
  <2>2. Replay(k, Len(l)) = Replay(l, Len(l))
    BY <1>1, <1>2
  <2> QED
    BY <1>1, <2>1, <2>2
<1> QED
  BY <1>1, <1>2, <1>3 DEF k

----------------------------------------------------------------------------
(* What is true of the state at every prefix of a log                      *)

\* What an entry of a log is.
LEMMA LogEntryKinds ==
    ASSUME NEW e \in LogEntry
    PROVE  \/ e.kind = "command" /\ e.cmd \in Command
           \/ e.kind # "command" /\ e.cmd = NoCommand
<1>1. CASE e \in {Entry("command", cmd) : cmd \in Command}
  BY <1>1 DEF Entry
<1>2. CASE e \in {Entry("noop", NoCommand), Entry("configuration", NoCommand)}
  BY <1>2 DEF Entry
<1> QED
  BY <1>1, <1>2 DEF LogEntry

\* The maps at a prefix are good, and no audit entry is past its end.
GoodUpTo(s, n) == Good(s) /\ \A id \in DOMAIN s.auditEntries : id <= n

\* Replaying an entry re-establishes that, and takes nothing away.
LEMMA EntrySound ==
    ASSUME NEW r, NEW n \in Nat, GoodUpTo(r.state, n), NEW e \in LogEntry
    PROVE  LET t == ReplayEntry(r, n + 1, e) IN
           GoodUpTo(t.state, n + 1) /\ Kept(r.state, t.state)
<1> DEFINE s == r.state
           t == ReplayEntry(r, n + 1, e)
<1>0. DOMAIN s.auditEntries \subseteq Nat
  BY DEF GoodUpTo, Good, Typed, IsMap
<1>1. CASE e.kind = "command" /\ e.cmd \in Command
  <2>1. n + 1 \in Nat /\ n + 1 \notin DOMAIN s.auditEntries
    BY <1>0 DEF GoodUpTo
  <2>2. Sound(s, n + 1, Apply(s, n + 1, e.cmd))
    BY <1>1, <2>1, CommandSound DEF GoodUpTo
  <2>3. t = Apply(s, n + 1, e.cmd)
    BY <1>1 DEF ReplayEntry
  <2> QED
    BY <1>0, <2>2, <2>3 DEF Sound, GoodUpTo
<1>2. CASE e.kind # "command"
  <2>1. t = r
    BY <1>2 DEF ReplayEntry
  <2> QED
    BY <1>0, <2>1, KeptRefl DEF GoodUpTo
<1> QED
  BY <1>1, <1>2, LogEntryKinds

\* Hence the state at every prefix of a log is good.
LEMMA ReplayGood ==
    ASSUME NEW l \in Seq(LogEntry)
    PROVE  \A n \in 0..Len(l) : GoodUpTo(Replay(l, n).state, n)
<1> DEFINE Holding == {n \in Nat : n <= Len(l) => GoodUpTo(Replay(l, n).state, n)}
<1>1. 0 \in Holding
  <2>1. Replay(l, 0).state = newFSM
    BY ReplayZero DEF Accept
  <2>2. DOMAIN newFSM.auditEntries = {}
    BY Fields DEF newFSM, EmptyMap
  <2> QED
    BY <2>1, <2>2, NewGood DEF GoodUpTo
<1>2. ASSUME NEW n \in Nat, n \in Holding PROVE n + 1 \in Holding
  <2>1. SUFFICES ASSUME n + 1 <= Len(l) PROVE GoodUpTo(Replay(l, n + 1).state, n + 1)
    OBVIOUS
  <2>2. GoodUpTo(Replay(l, n).state, n) /\ l[n + 1] \in LogEntry
    BY <1>2, <2>1
  <2> QED
    BY <2>2, ReplayNext, EntrySound
<1> HIDE DEF Holding
<1>3. Nat \subseteq Holding
  BY <1>1, <1>2, SetInduction
<1> QED
  BY <1>3 DEF Holding

\* What a later prefix still has of an earlier one: an active admin, the Admin
\* group.
LEMMA ReplayKeeps ==
    ASSUME NEW l \in Seq(LogEntry), NEW m \in 0..Len(l)
    PROVE  \A n \in m..Len(l) :
               LET s == Replay(l, m).state  t == Replay(l, n).state IN
               /\ HasActiveAdmin(s) => HasActiveAdmin(t)
               /\ AdminGroupID \in DOMAIN s.groups => AdminGroupID \in DOMAIN t.groups
<1> DEFINE P(n) == LET s == Replay(l, m).state  t == Replay(l, n).state IN
                   /\ HasActiveAdmin(s) => HasActiveAdmin(t)
                   /\ AdminGroupID \in DOMAIN s.groups => AdminGroupID \in DOMAIN t.groups
           Holding == {d \in Nat : m + d <= Len(l) => P(m + d)}
<1>1. 0 \in Holding
  OBVIOUS
<1>2. ASSUME NEW d \in Nat, d \in Holding PROVE d + 1 \in Holding
  <2>1. SUFFICES ASSUME m + (d + 1) <= Len(l) PROVE P(m + (d + 1))
    OBVIOUS
  <2> DEFINE n == m + d
  <2>2. n \in Nat /\ n \in 0..Len(l) /\ n + 1 = m + (d + 1) /\ n + 1 <= Len(l)
    BY <2>1
  <2>3. P(n)
    BY <1>2, <2>2
  <2> HIDE DEF n
  <2>4. GoodUpTo(Replay(l, n).state, n) /\ l[n + 1] \in LogEntry
    BY <2>2, ReplayGood
  <2>5. Kept(Replay(l, n).state, Replay(l, n + 1).state)
    BY <2>2, <2>4, ReplayNext, EntrySound
  <2>6. P(n + 1)
    BY <2>3, <2>5 DEF Kept, AdminGroupKept
  <2> QED
    BY <2>2, <2>6
<1> HIDE DEF Holding
<1>3. Nat \subseteq Holding
  BY <1>1, <1>2, SetInduction
<1>4. \A d \in Nat : m + d <= Len(l) => P(m + d)
  BY <1>3 DEF Holding
<1> HIDE DEF P
<1>5. ASSUME NEW n \in m..Len(l) PROVE P(n)
  <2>1. n - m \in Nat /\ m + (n - m) = n
    OBVIOUS
  <2> QED
    BY <1>4, <2>1
<1> QED
  BY <1>5 DEF P

----------------------------------------------------------------------------
(* What commands do to the accounts                                        *)

\* Only a user command changes the users.
LEMMA OthersLeaveUsers ==
    ASSUME NEW s, Shape(s), NEW i, NEW cmd, cmd.entity # "user"
    PROVE  Apply(s, i, cmd).state.users = s.users
<1>1. CASE cmd.entity = "flag"
  <2>1. \A m : [s EXCEPT !.flags = m].users = s.users
    BY FlagsFrame
  <2> QED
    BY <1>1, <2>1 DEF Apply, applyFlag, SetBatch, PutBatch, Accept, Reject
<1>2. CASE cmd.entity = "segment"
  <2>1. \A m : [s EXCEPT !.segments = m].users = s.users
    BY SegmentsFrame
  <2> QED
    BY <1>2, <2>1 DEF Apply, applySegment, Accept, Reject
<1>3. CASE cmd.entity = "group"
  <2>1. \A m : [s EXCEPT !.groups = m].users = s.users
    BY GroupsFrame
  <2> QED
    BY <1>3, <2>1 DEF Apply, applyGroup, Accept, Reject
<1>4. CASE cmd.entity = "audit"
  <2>1. \A m : [s EXCEPT !.auditEntries = m].users = s.users
    BY AuditFrame
  <2> QED
    BY <1>4, <2>1 DEF Apply, applyAuditEntry, Accept, Reject
<1>5. CASE cmd.entity = "environment"
  <2>1. \A m : [s EXCEPT !.environments = m].users = s.users
    BY EnvironmentsFrame
  <2> QED
    BY <1>5, <2>1 DEF Apply, applyEnvironment, Accept, Reject
<1>6. CASE cmd.entity = "applicationCredential"
  <2>1. \A m : [s EXCEPT !.applicationCredentials = m].users = s.users
    BY CredentialsFrame
  <2> QED
    BY <1>6, <2>1 DEF Apply, applyApplicationCredential, Accept, Reject
<1>7. CASE cmd.entity \notin {"flag", "segment", "user", "group", "audit", "environment",
                              "applicationCredential"}
  BY <1>7 DEF Apply, Reject
<1> QED
  BY <1>1, <1>2, <1>3, <1>4, <1>5, <1>6, <1>7

\* Only setting a user adds an account, and it adds that one.
LEMMA UserAdded ==
    ASSUME NEW s, Shape(s), NEW i, NEW cmd,
           NEW id \in DOMAIN Apply(s, i, cmd).state.users, id \notin DOMAIN s.users
    PROVE  cmd.entity = "user" /\ cmd.op = "set" /\ cmd.user.id = id
<1>1. cmd.entity = "user"
  BY OthersLeaveUsers
<1>2. Apply(s, i, cmd) = applyUser(s, i, cmd)
  BY <1>1 DEF Apply
<1>3. \A m : [s EXCEPT !.users = m].users = m
  BY UsersFrame
<1>4. CASE cmd.op = "set"
  <2>1. \/ Apply(s, i, cmd).state = s
        \/ Apply(s, i, cmd).state.users =
             Put(s.users, cmd.user.id, [cmd.user EXCEPT !.version = i])
    BY <1>2, <1>3, <1>4 DEF applyUser, Accept, Reject
  <2> QED
    BY <1>1, <1>4, <2>1 DEF Put
<1>5. CASE cmd.op = "delete"
  <2>1. \/ Apply(s, i, cmd).state = s
        \/ Apply(s, i, cmd).state.users = Drop(s.users, cmd.key)
    BY <1>2, <1>3, <1>5 DEF applyUser, Accept, Reject
  <2> QED
    BY <2>1 DEF Drop
<1>6. CASE cmd.op \notin {"set", "delete"}
  <2>1. applyUser(s, i, cmd).state = s
    BY <1>6 DEF applyUser, Reject
  <2> QED
    BY <1>2, <2>1
<1> QED
  BY <1>4, <1>5, <1>6

\* Seeding the Admin group leaves the users alone, and there is an Admin group
\* once it is accepted.
LEMMA SeedGroupApplied ==
    ASSUME NEW s, Shape(s), NEW i
    PROVE  LET r == Apply(s, i, GroupSetCommand(AdminGroup)) IN
           /\ r.state.users = s.users
           /\ r.err = OK => AdminGroupID \in DOMAIN r.state.groups
<1> DEFINE cmd == GroupSetCommand(AdminGroup)
<1>1. cmd.entity = "group" /\ cmd.op = "set" /\ cmd.group = AdminGroup
  BY DEF GroupSetCommand
<1>2. AdminGroup.id = AdminGroupID
  BY DEF AdminGroup
<1>3. \A m : [s EXCEPT !.groups = m].groups = m
  BY GroupsFrame
<1> HIDE DEF cmd
<1>4. Apply(s, i, cmd).state.users = s.users
  BY <1>1, OthersLeaveUsers
<1>5. Apply(s, i, cmd).err = OK =>
        Apply(s, i, cmd).state.groups =
          Put(s.groups, AdminGroupID, [AdminGroup EXCEPT !.version = i])
  BY <1>1, <1>2, <1>3 DEF Apply, applyGroup, Accept, Reject
<1>6. Apply(s, i, cmd).err = OK => AdminGroupID \in DOMAIN Apply(s, i, cmd).state.groups
  BY <1>5 DEF Put
<1> QED
  BY <1>4, <1>6 DEF cmd

\* Seeding the admin account gives an active admin once it is accepted, and
\* touches no other account.
LEMMA SeedUserApplied ==
    ASSUME NEW s, Shape(s), NEW i, NEW id, NEW username
    PROVE  LET r == Apply(s, i, UserSetCommand(AdminUser(id, username))) IN
           /\ r.err = OK => HasActiveAdmin(r.state)
           /\ DOMAIN r.state.users # {} => DOMAIN s.users # {} \/ HasActiveAdmin(r.state)
           /\ \A j \in DOMAIN s.users : j # id =>
                j \in DOMAIN r.state.users /\ r.state.users[j] = s.users[j]
<1> DEFINE user == AdminUser(id, username)
           cmd == UserSetCommand(user)
           v == [user EXCEPT !.version = i]
           r == Apply(s, i, cmd)
<1>1. cmd.entity = "user" /\ cmd.op = "set" /\ cmd.user = user
  BY DEF UserSetCommand
<1>2. user.id = id /\ v.active /\ v.groupIDs = {AdminGroupID}
  BY DEF AdminUser
<1>3. \A m : [s EXCEPT !.users = m].users = m
  BY UsersFrame
<1> HIDE DEF cmd, user
<1>4. \/ r.err # OK /\ r.state = s
      \/ r.err = OK /\ r.state.users = Put(s.users, id, v)
  BY <1>1, <1>2, <1>3 DEF Apply, applyUser, Accept, Reject
<1> HIDE DEF v, r
<1>5. r.err = OK => HasActiveAdmin(r.state)
  BY <1>2, <1>4 DEF HasActiveAdmin, isActiveAdmin, Put
<1>6. \A j \in DOMAIN s.users : j # id =>
        j \in DOMAIN r.state.users /\ r.state.users[j] = s.users[j]
  BY <1>4 DEF Put
<1> QED
  BY <1>4, <1>5, <1>6 DEF r, cmd, user

\* Every account has been set by a command of the log.
LEMMA AccountsLogged ==
    ASSUME NEW l \in Seq(LogEntry)
    PROVE  \A n \in 0..Len(l) : \A id \in DOMAIN Replay(l, n).state.users :
               \E i \in DOMAIN l : /\ l[i].cmd.entity = "user" /\ l[i].cmd.op = "set"
                                   /\ l[i].cmd.user.id = id
<1> DEFINE Set(id) == \E i \in DOMAIN l : /\ l[i].cmd.entity = "user" /\ l[i].cmd.op = "set"
                                          /\ l[i].cmd.user.id = id
           Holding == {n \in Nat : n <= Len(l) => \A id \in DOMAIN Replay(l, n).state.users : Set(id)}
<1> HIDE DEF Set
<1>1. 0 \in Holding
  <2>1. Replay(l, 0).state = newFSM
    BY ReplayZero DEF Accept
  <2>2. DOMAIN newFSM.users = {}
    BY Fields DEF newFSM, EmptyMap
  <2> QED
    BY <2>1, <2>2
<1>2. ASSUME NEW n \in Nat, n \in Holding PROVE n + 1 \in Holding
  <2>1. SUFFICES ASSUME n + 1 <= Len(l), NEW id \in DOMAIN Replay(l, n + 1).state.users
                 PROVE  Set(id)
    OBVIOUS
  <2>2. \A j \in DOMAIN Replay(l, n).state.users : Set(j)
    BY <1>2, <2>1
  <2>3. Shape(Replay(l, n).state)
    BY <2>1, ReplayGood DEF GoodUpTo, Good, Typed, Shape
  <2>4. Replay(l, n + 1) = ReplayEntry(Replay(l, n), n + 1, l[n + 1])
    BY ReplayNext
  <2>5. CASE id \in DOMAIN Replay(l, n).state.users
    BY <2>2, <2>5
  <2>6. CASE id \notin DOMAIN Replay(l, n).state.users
    <3>1. Replay(l, n + 1) = Apply(Replay(l, n).state, n + 1, l[n + 1].cmd)
      BY <2>1, <2>4, <2>6 DEF ReplayEntry
    <3>2. /\ l[n + 1].cmd.entity = "user" /\ l[n + 1].cmd.op = "set"
          /\ l[n + 1].cmd.user.id = id
      BY <2>1, <2>3, <2>6, <3>1, UserAdded
    <3> QED
      BY <2>1, <3>2 DEF Set
  <2> QED
    BY <2>5, <2>6
<1> HIDE DEF Holding
<1>3. Nat \subseteq Holding
  BY <1>1, <1>2, SetInduction
<1> QED
  BY <1>3 DEF Holding, Set

----------------------------------------------------------------------------
(* The inductive invariant                                                 *)

\* The maps after the whole of a log.
End(l) == Replay(l, Len(l)).state

\* The snapshots that can be taken along a log.
SnapshotsOf(l) == {[index |-> n, raw |-> Snapshot(Replay(l, n).state)] : n \in 1..Len(l)}

\* On disk: the snapshots are true to the log, the newest is first, and nothing
\* it does not cover is compacted.
DiskInv ==
    /\ log \in Seq(LogEntry)
    /\ snapshots \in Seq(SnapshotsOf(log))
    /\ \A i \in DOMAIN snapshots : snapshots[i].index <= snapshots[1].index
    /\ compacted \in Nat
    /\ compacted > 0 => snapshots # <<>> /\ snapshots[1].index >= compacted

\* In memory: the maps are the state at the last applied entry, at or past
\* every snapshot, and the snapshot being written is newer than those written.
MemoryInv ==
    /\ applied \in 0..commitIndex
    /\ commitIndex \in 0..Len(log)
    /\ fsm = Replay(log, applied).state
    /\ Up => /\ \A i \in DOMAIN snapshots : snapshots[i].index <= applied
             /\ config \in AdminUsername
    /\ persisting \in Seq(SnapshotsOf(log))
    /\ persisting # <<>> =>
         /\ Up /\ Len(persisting) = 1
         /\ persisting[1].index <= applied
         /\ \A i \in DOMAIN snapshots : snapshots[i].index < persisting[1].index

\* The commands a caller may have asked for: seeding asks for two.
SeedCommand ==
    IF seed = "setGroup" THEN {GroupSetCommand(AdminGroup)}
    ELSE {UserSetCommand(AdminUser(id, username)) : id \in UserID, username \in AdminUsername}
Asked(c) == IF c = Seeder THEN SeedCommand ELSE ClientCommand

\* Where a log holds one of some commands.
Logged(l, cmds) == {i \in DOMAIN l : l[i].kind = "command" /\ l[i].cmd \in cmds}

\* A caller waits for an entry with its command, and is told OK only when that
\* entry was accepted.
CallSound(c) ==
    /\ call[c].step = "checked" => call[c].cmd \in Asked(c)
    /\ call[c].step = "waiting" => call[c].index \in Logged(log, Asked(c))
    /\ call[c].step = "done" /\ call[c].err = OK =>
         /\ call[c].index \in Logged(log, Asked(c))
         /\ Replay(log, call[c].index).err = OK

\* Seeding has the process for itself.
CallInv ==
    /\ call = [c \in Caller |-> call[c]]
    /\ \A c \in Caller : CallSound(c)
    /\ call[Seeder] # Idle => phase = "seeding" /\ seed \in {"setGroup", "setUser"}
    /\ phase \in {"down", "opening", "seeding"} => \A c \in Client : call[c] = Idle
    /\ AcknowledgedDurable

\* There are accounts only once there is an active admin: a client, who needs an
\* account, finds one; and so does who trusts a finished seeding.
SeedInv ==
    /\ \A n \in 0..Len(log) : LET s == Replay(log, n).state
                              IN  DOMAIN s.users # {} => HasActiveAdmin(s)
    /\ \A c \in Client : call[c].step = "checked" => HasActiveAdmin(End(log))
    /\ call[Seeder].step = "checked" /\ seed = "setUser" =>
         call[Seeder].cmd.user.id \notin DOMAIN End(log).users
    /\ seed \in {"readUser", "setUser", "seeded"} => AdminGroupID \in DOMAIN End(log).groups
    /\ seed = "seeded" => HasActiveAdmin(End(log))

IInv == DiskInv /\ MemoryInv /\ CallInv /\ SeedInv

----------------------------------------------------------------------------
(* What growing the log preserves                                          *)

\* k holds what l holds, and perhaps more.
Extends(l, k) ==
    /\ l \in Seq(LogEntry) /\ k \in Seq(LogEntry)
    /\ Len(l) <= Len(k)
    /\ \A i \in 1..Len(l) : k[i] = l[i]

\* A log extends itself, and an appended log the log before it.
LEMMA ExtendsAppend ==
    ASSUME NEW l \in Seq(LogEntry)
    PROVE  Extends(l, l) /\ \A e \in LogEntry : Extends(l, Append(l, e))
<1>1. Len(l) \in Nat
  OBVIOUS
<1> QED
  BY <1>1, ReplayAppend DEF Extends

\* What a log says of its prefixes, entries and last state, its extensions say.
LEMMA ExtendsFacts ==
    ASSUME NEW l, NEW k, Extends(l, k)
    PROVE  /\ Len(l) \in Nat /\ Len(k) \in Nat
           /\ \A n \in 0..Len(l) : Replay(k, n) = Replay(l, n)
           /\ \A x \in SnapshotsOf(l) : x \in SnapshotsOf(k)
           /\ \A cmds : \A i \in Logged(l, cmds) : i \in Logged(k, cmds) /\ i \in 0..Len(l)
           /\ HasActiveAdmin(End(l)) => HasActiveAdmin(End(k))
           /\ AdminGroupID \in DOMAIN End(l).groups => AdminGroupID \in DOMAIN End(k).groups
<1>1. /\ Len(l) \in Nat /\ Len(k) \in Nat /\ Len(l) <= Len(k)
      /\ DOMAIN l = 1..Len(l) /\ DOMAIN k = 1..Len(k)
      /\ \A i \in 1..Len(l) : k[i] = l[i]
  BY DEF Extends
<1>2. ASSUME NEW n \in 0..Len(l) PROVE Replay(k, n) = Replay(l, n)
  <2>1. n \in Nat /\ \A i \in 1..n : k[i] = l[i]
    BY <1>1
  <2> QED
    BY <2>1, ReplayPrefix
<1>3. ASSUME NEW x \in SnapshotsOf(l) PROVE x \in SnapshotsOf(k)
  <2>1. PICK n \in 1..Len(l) : x = [index |-> n, raw |-> Snapshot(Replay(l, n).state)]
    BY DEF SnapshotsOf
  <2>2. n \in 1..Len(k) /\ Replay(k, n) = Replay(l, n)
    BY <1>1, <1>2
  <2> QED
    BY <2>1, <2>2 DEF SnapshotsOf
<1>4. \A cmds : \A i \in Logged(l, cmds) : i \in Logged(k, cmds) /\ i \in 0..Len(l)
  BY <1>1 DEF Logged
<1>5. Replay(k, Len(l)) = Replay(l, Len(l))
  BY <1>1, <1>2
<1>6. /\ HasActiveAdmin(End(l)) => HasActiveAdmin(End(k))
      /\ AdminGroupID \in DOMAIN End(l).groups => AdminGroupID \in DOMAIN End(k).groups
  <2>1. Len(l) \in 0..Len(k) /\ Len(k) \in Len(l)..Len(k) /\ k \in Seq(LogEntry)
    BY <1>1 DEF Extends
  <2> QED
    BY <1>5, <2>1, ReplayKeeps DEF End
<1> QED
  BY <1>1, <1>2, <1>3, <1>4, <1>6

\* A step that at most grows the log keeps the invariant of the disk.
LEMMA DiskFrame ==
    ASSUME DiskInv, Extends(log, log'), UNCHANGED <<snapshots, compacted>>
    PROVE  DiskInv'
<1>1. snapshots \in Seq(SnapshotsOf(log'))
  <2>1. SnapshotsOf(log) \subseteq SnapshotsOf(log')
    BY ExtendsFacts
  <2> QED
    BY <2>1, SeqMonotonic DEF DiskInv
<1> QED
  BY <1>1 DEF DiskInv, Extends

\* Nor does it matter to what is in memory.
LEMMA MemoryFrame ==
    ASSUME MemoryInv, Extends(log, log'), Up' = Up,
           UNCHANGED <<snapshots, commitIndex, applied, fsm, persisting, config>>
    PROVE  MemoryInv'
<1>1. persisting \in Seq(SnapshotsOf(log'))
  <2>1. SnapshotsOf(log) \subseteq SnapshotsOf(log')
    BY ExtendsFacts
  <2> QED
    BY <2>1, SeqMonotonic DEF MemoryInv
<1>2. /\ applied \in 0..commitIndex /\ commitIndex \in 0..Len(log')
      /\ Replay(log', applied) = Replay(log, applied)
  BY ExtendsFacts DEF MemoryInv, Extends
<1> QED
  BY <1>1, <1>2 DEF MemoryInv

\* Nor to what one caller has been told.
LEMMA CallFrame ==
    ASSUME Extends(log, log'), NEW c, CallSound(c), call'[c] = call[c],
           c = Seeder => UNCHANGED seed
    PROVE  CallSound(c)'
<1>1. Asked(c)' = Asked(c)
  BY DEF Asked, SeedCommand
<1>2. \A i \in Logged(log, Asked(c)) : /\ i \in Logged(log', Asked(c))
                                       /\ Replay(log', i) = Replay(log, i)
  BY ExtendsFacts
<1> QED
  BY <1>1, <1>2 DEF CallSound

\* Nor to what all have been told.
LEMMA AcknowledgedFrame ==
    ASSUME Extends(log, log'), AcknowledgedDurable, UNCHANGED acknowledged
    PROVE  AcknowledgedDurable'
<1>1. DOMAIN log = 1..Len(log) /\ DOMAIN log' = 1..Len(log') /\ Len(log) <= Len(log')
  BY DEF Extends
<1>2. \A i \in DOMAIN log : i \in DOMAIN log' /\ log'[i] = log[i] /\ Replay(log', i) = Replay(log, i)
  BY <1>1, ExtendsFacts DEF Extends
<1> QED
  BY <1>2 DEF AcknowledgedDurable

\* Nor to what the callers are at, if they stay there.
LEMMA CallInvFrame ==
    ASSUME CallInv, Extends(log, log'), UNCHANGED <<phase, call, seed, acknowledged>>
    PROVE  CallInv'
<1>1. \A c \in Caller : CallSound(c)'
  BY CallFrame DEF CallInv
<1>2. AcknowledgedDurable'
  BY AcknowledgedFrame DEF CallInv
<1> QED
  BY <1>1, <1>2 DEF CallInv

\* One caller's step is sound if what it is told is.
LEMMA CallInvUpdate ==
    ASSUME CallInv, Extends(log, log'), UNCHANGED <<phase, seed, acknowledged>>,
           NEW c \in Caller, NEW x, call' = [call EXCEPT ![c] = x], CallSound(c)',
           x # Idle =>
             IF c = Seeder THEN phase = "seeding" /\ seed \in {"setGroup", "setUser"}
             ELSE phase \notin {"down", "opening", "seeding"}
    PROVE  CallInv'
<1>1. call' = [d \in Caller |-> call'[d]] /\ call'[c] = x
      /\ \A d \in Caller \ {c} : call'[d] = call[d]
  BY DEF CallInv
<1>2. \A d \in Caller : CallSound(d)'
  BY <1>1, CallFrame DEF CallInv
<1>3. AcknowledgedDurable'
  BY AcknowledgedFrame DEF CallInv
<1>4. Seeder \in Caller /\ Client \subseteq Caller /\ Seeder \notin Client
  BY SeederAssumption DEF Caller
<1> QED
  BY <1>1, <1>2, <1>3, <1>4 DEF CallInv

\* Seeding's facts are about the log and the commands on their way to it.
LEMMA SeedInvFrame ==
    ASSUME SeedInv, UNCHANGED <<log, seed>>,
           \A c \in Caller : call'[c].step = "checked" => call'[c] = call[c]
    PROVE  SeedInv'
<1>1. Seeder \in Caller /\ Client \subseteq Caller
  BY DEF Caller
<1> QED
  BY <1>1 DEF SeedInv, End

\* An appended entry keeps them if it brings no account, or an active admin.
LEMMA SeedInvAppend ==
    ASSUME DiskInv, SeedInv, NEW e \in LogEntry, log' = Append(log, e), UNCHANGED seed,
           \A c \in Caller : call'[c].step = "checked" => call'[c] = call[c],
           DOMAIN End(log').users # {} => HasActiveAdmin(End(log')),
           call'[Seeder].step = "checked" => DOMAIN End(log').users \subseteq DOMAIN End(log).users
    PROVE  SeedInv'
<1>1. Seeder \in Caller /\ Client \subseteq Caller
  BY DEF Caller
<1>2. /\ Extends(log, log') /\ Len(log') = Len(log) + 1 /\ Len(log) \in Nat
      /\ \A n \in 0..Len(log) : Replay(log', n) = Replay(log, n)
  BY ReplayAppend, ExtendsAppend DEF DiskInv
<1>3. \A n \in 0..Len(log') : LET s == Replay(log', n).state
                              IN  DOMAIN s.users # {} => HasActiveAdmin(s)
  <2>1. \A n \in 0..Len(log') : n = Len(log') \/ n \in 0..Len(log)
    BY <1>2
  <2> QED
    BY <1>2, <2>1 DEF SeedInv, End
<1>4. /\ HasActiveAdmin(End(log)) => HasActiveAdmin(End(log'))
      /\ AdminGroupID \in DOMAIN End(log).groups => AdminGroupID \in DOMAIN End(log').groups
  BY <1>2, ExtendsFacts
<1> HIDE DEF Caller
<1> QED
  BY <1>1, <1>3, <1>4 DEF SeedInv

\* Entries of Raft's own change no map.
LEMMA RaftEntryAppend ==
    ASSUME DiskInv, NEW e \in LogEntry, e.kind # "command", log' = Append(log, e)
    PROVE  Replay(log', Len(log')) = Replay(log, Len(log)) /\ End(log') = End(log)
<1>1. /\ Len(log') = Len(log) + 1
      /\ Replay(log', Len(log) + 1) = ReplayEntry(Replay(log, Len(log)), Len(log) + 1, e)
  BY ReplayAppend DEF DiskInv
<1> QED
  BY <1>1 DEF ReplayEntry, End

\* What callers ask for are commands of the repositories.
LEMMA AskedCommands ==
    /\ \A c : Asked(c) \subseteq Command
    /\ GroupSetCommand(AdminGroup) \in Command
    /\ \A id \in UserID, username \in AdminUsername :
         UserSetCommand(AdminUser(id, username)) \in Command
<1>1. GroupSetCommand(AdminGroup) \in Command
  BY SeedInputAssumption, CommandForms DEF GroupSetCommand, CommandForm
<1>2. \A id \in UserID, username \in AdminUsername :
        UserSetCommand(AdminUser(id, username)) \in Command
  BY SeedInputAssumption, CommandForms DEF UserSetCommand, CommandForm
<1>3. \A c : Asked(c) \subseteq Command
  BY <1>1, <1>2, ClientCommandAssumption DEF Asked, SeedCommand
<1> QED
  BY <1>1, <1>2, <1>3

\* Every snapshot on disk is accepted by Restore and gives the state at its index.
LEMMA SnapshotsUsable ==
    ASSUME DiskInv, NEW i \in DOMAIN snapshots
    PROVE  /\ snapshots[i].index \in 1..Len(log)
           /\ Usable(i)
           /\ Restore(newFSM, snapshots[i].raw).state = Replay(log, snapshots[i].index).state
<1>1. snapshots[i] \in SnapshotsOf(log)
  BY DEF DiskInv
<1>2. PICK n \in 1..Len(log) :
        snapshots[i] = [index |-> n, raw |-> Snapshot(Replay(log, n).state)]
  BY <1>1 DEF SnapshotsOf
<1>3. Len(log) \in Nat /\ Good(Replay(log, n).state)
  BY ReplayGood DEF DiskInv, GoodUpTo
<1> QED
  BY <1>2, <1>3, SnapshotRestored DEF Usable, Accept

----------------------------------------------------------------------------
(* The steps, one lemma per part of the system                             *)

\* An empty log and a process that is down: the initial state.
LEMMA InitIInv == Init => IInv
<1>1. SUFFICES ASSUME Init PROVE IInv
  OBVIOUS
<1>2. /\ log = <<>> /\ snapshots = <<>> /\ persisting = <<>> /\ compacted = 0
      /\ Len(log) = 0 /\ applied = 0 /\ commitIndex = 0 /\ ~Up
      /\ Replay(log, 0) = Accept(newFSM)
  BY <1>1, ReplayZero DEF Init, Up
<1>3. newFSM.users = EmptyMap /\ DOMAIN EmptyMap = {}
  BY Fields DEF newFSM, EmptyMap
<1>4. DiskInv
  BY <1>2 DEF DiskInv
<1>5. MemoryInv
  BY <1>1, <1>2 DEF MemoryInv, Init, Accept
<1>6. Seeder \in Caller /\ Client \subseteq Caller
  BY DEF Caller
<1>7. \A c \in Caller : call[c] = Idle /\ Idle.step = "idle"
  BY <1>1 DEF Init, Idle
<1>8. CallInv
  BY <1>1, <1>6, <1>7 DEF CallInv, CallSound, AcknowledgedDurable, Init
<1>9. SeedInv
  BY <1>1, <1>2, <1>3, <1>6, <1>7 DEF SeedInv, Accept, Init
<1> QED
  BY <1>4, <1>5, <1>8, <1>9 DEF IInv

\* Opening the store restores the newest snapshot, which is the state at its
\* index; with none, the maps start empty, as at the beginning of the log.
LEMMA StartStep == ASSUME IInv, Start PROVE IInv'
<1> USE DEF IInv
<1>1. phase = "down" /\ phase' = "opening" /\ config' \in AdminUsername
      /\ UNCHANGED <<log, compacted, snapshots, persisting, call, seed, acknowledged>>
  BY DEF Start, disk
<1>2. Extends(log, log')
  BY <1>1, ExtendsAppend DEF DiskInv
<1>3. DiskInv'
  BY <1>1, <1>2, DiskFrame
<1>4. MemoryInv'
  <2>1. Up' /\ ~Up /\ persisting' = <<>>
    BY <1>1 DEF Up, MemoryInv
  <2>2. CASE snapshots = <<>>
    <3>1. fsm' = newFSM /\ applied' = 0 /\ commitIndex' = 0
      BY <2>2 DEF Start
    <3>2. Replay(log, 0).state = newFSM
      BY ReplayZero DEF Accept
    <3> QED
      BY <1>1, <2>1, <2>2, <3>1, <3>2 DEF MemoryInv, DiskInv
  <2>3. CASE snapshots # <<>>
    <3>1. PICK i \in DOMAIN snapshots :
            /\ \A j \in DOMAIN snapshots : j < i => ~Usable(j)
            /\ fsm' = Restore(newFSM, snapshots[i].raw).state
            /\ applied' = snapshots[i].index
            /\ commitIndex' = snapshots[i].index
      BY <2>3 DEF Start
    <3>2. DOMAIN snapshots = 1..Len(snapshots) /\ Len(snapshots) \in Nat
      BY DEF DiskInv
    <3>3. i = 1
      BY <3>1, <3>2, SnapshotsUsable
    <3>4. /\ snapshots[1].index \in 1..Len(log)
          /\ fsm' = Replay(log, snapshots[1].index).state
      BY <3>1, <3>3, SnapshotsUsable
    <3>5. \A k \in DOMAIN snapshots : snapshots[k].index <= snapshots[1].index
      BY DEF DiskInv
    <3>6. Len(log) \in Nat
      BY DEF DiskInv
    <3> QED
      BY <1>1, <2>1, <3>1, <3>3, <3>4, <3>5, <3>6 DEF MemoryInv
  <2> QED
    BY <2>2, <2>3
<1>5. CallInv'
  <2>1. \A c \in Caller : CallSound(c)'
    BY <1>1, <1>2, CallFrame DEF CallInv
  <2>2. AcknowledgedDurable'
    BY <1>1, <1>2, AcknowledgedFrame DEF CallInv
  <2> QED
    BY <1>1, <2>1, <2>2 DEF CallInv
<1>6. SeedInv'
  BY <1>1, SeedInvFrame
<1> QED
  BY <1>3, <1>4, <1>5, <1>6

\* Bootstrapping writes at most one entry, into an empty log; nobody is calling.
LEMMA BootstrapStep == ASSUME IInv, BootstrapCluster PROVE IInv'
<1> USE DEF IInv
<1>1. /\ phase = "opening" /\ phase' = "seeding" /\ seed' = "readGroup"
      /\ UNCHANGED <<compacted, snapshots, role, commitIndex, applied, fsm, persisting, call,
                     config, acknowledged>>
  BY DEF BootstrapCluster, history
<1> DEFINE e == Entry("configuration", NoCommand)
<1>2. e \in LogEntry /\ e.kind # "command"
  BY DEF LogEntry, Entry
<1>3. log' = log \/ log' = Append(log, e)
  <2>1. log' = log \/ (log = <<>> /\ log' = <<e>>)
    BY DEF BootstrapCluster
  <2>2. <<>> \o <<e>> = <<e>> /\ Append(<<>>, e) = <<>> \o <<e>>
    BY <1>2, EmptySeq, AppendIsConcat, ConcatEmptySeq
  <2> QED
    BY <2>1, <2>2
<1> HIDE DEF e
<1>4. Extends(log, log')
  BY <1>2, <1>3, ExtendsAppend DEF DiskInv
<1>5. DiskInv'
  BY <1>1, <1>4, DiskFrame
<1>6. MemoryInv'
  BY <1>1, <1>4, MemoryFrame DEF Up
<1>7. \A c \in Caller : call[c] = Idle /\ Idle.step = "idle"
  BY <1>1 DEF CallInv, Caller, Idle
<1>8. Seeder \in Caller /\ Client \subseteq Caller
  BY DEF Caller
<1>9. CallInv'
  <2>1. AcknowledgedDurable'
    BY <1>1, <1>4, AcknowledgedFrame DEF CallInv
  <2> QED
    BY <1>1, <1>7, <1>8, <2>1 DEF CallInv, CallSound
<1>10. SeedInv'
  <2>1. \A n \in 0..Len(log') : LET s == Replay(log', n).state
                                IN  DOMAIN s.users # {} => HasActiveAdmin(s)
    <3>1. CASE log' = log
      BY <3>1 DEF SeedInv
    <3>2. CASE log' = Append(log, e)
      <4>1. Len(log') = Len(log) + 1 /\ Len(log) \in Nat
        BY <1>2, <3>2, ReplayAppend DEF DiskInv
      <4>2. /\ Replay(log', Len(log')) = Replay(log, Len(log))
            /\ \A n \in 0..Len(log) : Replay(log', n) = Replay(log, n)
        BY <1>2, <3>2, <4>1, RaftEntryAppend, ReplayAppend DEF DiskInv
      <4>3. \A n \in 0..Len(log') : n = Len(log') \/ n \in 0..Len(log)
        BY <4>1
      <4> QED
        BY <4>1, <4>2, <4>3 DEF SeedInv
    <3> QED
      BY <1>3, <3>1, <3>2
  <2> QED
    BY <1>1, <1>7, <1>8, <2>1 DEF SeedInv
<1> QED
  BY <1>5, <1>6, <1>9, <1>10

\* Elections change nothing the invariant speaks of; the no-op of a new leader
\* changes no map; what is stored is committed.
LEMMA LeaderStep ==
    ASSUME IInv, Elect \/ LeaderNoop \/ Commit
    PROVE  IInv'
<1> USE DEF IInv
<1>1. CASE Elect
  <2>1. UNCHANGED <<log, compacted, snapshots, phase, commitIndex, applied, fsm, persisting, call,
                    seed, config, acknowledged>>
    BY <1>1 DEF Elect, disk, history
  <2>2. Extends(log, log') /\ Up' = Up
    BY <2>1, ExtendsAppend DEF DiskInv, Up
  <2> QED
    BY <2>1, <2>2, DiskFrame, MemoryFrame, CallInvFrame, SeedInvFrame
<1>2. CASE LeaderNoop
  <2> DEFINE e == Entry("noop", NoCommand)
  <2>1. /\ UNCHANGED <<compacted, snapshots, phase, commitIndex, applied, fsm, persisting, call,
                       seed, config, acknowledged>>
        /\ log' = Append(log, e)
    BY <1>2 DEF LeaderNoop, history
  <2>2. e \in LogEntry /\ e.kind # "command"
    BY DEF LogEntry, Entry
  <2> HIDE DEF e
  <2>3. Extends(log, log') /\ Up' = Up
    BY <2>1, <2>2, ExtendsAppend DEF DiskInv, Up
  <2>4. DiskInv' /\ MemoryInv' /\ CallInv'
    BY <2>1, <2>3, DiskFrame, MemoryFrame, CallInvFrame
  <2>5. End(log') = End(log)
    BY <2>1, <2>2, RaftEntryAppend
  <2>6. DOMAIN End(log).users # {} => HasActiveAdmin(End(log))
    BY DEF SeedInv, End, DiskInv
  <2>7. SeedInv'
    BY <2>1, <2>2, <2>5, <2>6, SeedInvAppend
  <2> QED
    BY <2>4, <2>7
<1>3. CASE Commit
  <2>1. /\ UNCHANGED <<log, compacted, snapshots, phase, applied, fsm, persisting, call, seed,
                       config, acknowledged>>
        /\ commitIndex < Len(log) /\ commitIndex' = Len(log)
    BY <1>3 DEF Commit, disk, history
  <2>2. Extends(log, log')
    BY <2>1, ExtendsAppend DEF DiskInv
  <2>3. DiskInv' /\ CallInv' /\ SeedInv'
    BY <2>1, <2>2, DiskFrame, CallInvFrame, SeedInvFrame
  <2>4. MemoryInv'
    <3>1. Len(log) \in Nat
      BY DEF DiskInv
    <3> QED
      BY <2>1, <3>1 DEF MemoryInv, Up
  <2> QED
    BY <2>3, <2>4
<1> QED
  BY <1>1, <1>2, <1>3

\* Answering callers with what is not OK, or with what the log says, is sound.
LEMMA CallInvAnswers ==
    ASSUME CallInv, DiskInv, UNCHANGED <<log, phase, seed, acknowledged>>,
           call' = [c \in Caller |-> call'[c]],
           \A c \in Caller :
               \/ call'[c] = call[c]
               \/ /\ call[c] # Idle
                  /\ call'[c].step = "done"
                  /\ call'[c].err = OK => /\ call'[c].index \in Logged(log, Asked(c))
                                          /\ Replay(log, call'[c].index).err = OK
    PROVE  CallInv'
<1>1. Extends(log, log')
  BY ExtendsAppend DEF DiskInv
<1>2. AcknowledgedDurable'
  BY <1>1, AcknowledgedFrame DEF CallInv
<1>3. ASSUME NEW c \in Caller PROVE CallSound(c)'
  <2>1. CASE call'[c] = call[c]
    BY <1>1, <2>1, CallFrame DEF CallInv
  <2>2. CASE call'[c] # call[c]
    <3>1. /\ call'[c].step = "done"
          /\ call'[c].err = OK => /\ call'[c].index \in Logged(log, Asked(c))
                                  /\ Replay(log, call'[c].index).err = OK
      BY <2>2
    <3>2. Asked(c)' = Asked(c)
      BY DEF Asked, SeedCommand
    <3> QED
      BY <3>1, <3>2 DEF CallSound
  <2> QED
    BY <2>1, <2>2
<1>4. Seeder \in Caller /\ Client \subseteq Caller
  BY DEF Caller
<1>5. \A c \in Caller : call[c] = Idle => call'[c] = Idle
  OBVIOUS
<1> QED
  BY <1>2, <1>3, <1>4, <1>5 DEF CallInv

\* Applying the next entry gives the state at it, and the caller that waits for
\* it the answer the log gives.
LEMMA FsmApplyStep == ASSUME IInv, FsmApply PROVE IInv'
<1> USE DEF IInv
<1> DEFINE n == applied + 1
<1>1. /\ UNCHANGED <<log, compacted, snapshots, phase, commitIndex, persisting, seed, config,
                     acknowledged>>
      /\ applied < commitIndex /\ applied' = n
      /\ fsm' = NextApplied.state
      /\ call' = Answer(n, NextApplied.err)
  BY DEF FsmApply, ApplyReady, ApplyNext, disk, history
<1>2. Extends(log, log') /\ Up' = Up
  BY <1>1, ExtendsAppend DEF DiskInv, Up
<1>3. DiskInv'
  BY <1>1, <1>2, DiskFrame
<1>4. Len(log) \in Nat /\ commitIndex \in 0..Len(log) /\ applied \in 0..commitIndex
  BY DEF DiskInv, MemoryInv
<1>5. NextApplied = ReplayEntry(Accept(fsm), n, log[n]) /\ fsm = Replay(log, applied).state
  BY DEF NextApplied, MemoryInv
<1>6. Replay(log, n) = ReplayEntry(Replay(log, applied), n, log[n])
  BY <1>4, ReplayNext
<1>7. NextApplied.state = Replay(log, n).state
  BY <1>5, <1>6 DEF ReplayEntry, Accept
<1>8. log[n].kind = "command" => NextApplied.err = Replay(log, n).err
  BY <1>5, <1>6 DEF ReplayEntry, Accept
<1> HIDE DEF n
<1>9. n = applied + 1
  BY DEF n
<1>10. MemoryInv'
  <2>1. applied' \in 0..commitIndex' /\ applied <= applied'
    BY <1>1, <1>4, <1>9
  <2>2. fsm' = Replay(log', applied').state
    BY <1>1, <1>7
  <2>3. \A i \in DOMAIN snapshots : snapshots[i].index \in Nat
    BY <1>4, SnapshotsUsable
  <2>4. persisting # <<>> => persisting[1].index \in Nat
    BY DEF MemoryInv, SnapshotsOf
  <2> QED
    BY <1>1, <1>2, <1>4, <2>1, <2>2, <2>3, <2>4 DEF MemoryInv
<1>11. CallInv'
  <2>1. call' = [c \in Caller |-> call'[c]]
    BY <1>1 DEF Answer
  <2>2. ASSUME NEW c \in Caller, call'[c] # call[c]
        PROVE  /\ call[c] # Idle
               /\ call'[c].step = "done"
               /\ call'[c].err = OK => /\ call'[c].index \in Logged(log, Asked(c))
                                       /\ Replay(log, call'[c].index).err = OK
    <3>1. /\ call[c].step = "waiting" /\ call[c].index = n
          /\ call'[c] = Done(n, NextApplied.err)
      BY <1>1, <2>2 DEF Answer
    <3>2. n \in Logged(log, Asked(c))
      BY <3>1 DEF CallInv, CallSound
    <3>3. log[n].kind = "command"
      BY <3>2 DEF Logged
    <3> QED
      BY <1>8, <3>1, <3>2, <3>3 DEF Done, Idle
  <2> QED
    BY <1>1, <2>1, <2>2, CallInvAnswers
<1>12. SeedInv'
  <2>1. \A c \in Caller : call'[c].step = "checked" => call'[c] = call[c]
    BY <1>1 DEF Answer, Done
  <2> QED
    BY <1>1, <2>1, SeedInvFrame
<1> QED
  BY <1>3, <1>10, <1>11, <1>12

\* A log store that fails answers callers with errors and loses no entry.
LEMMA LogStoreFailsStep == ASSUME IInv, LogStoreFails PROVE IInv'
<1> USE DEF IInv
<1>1. UNCHANGED <<log, compacted, snapshots, phase, commitIndex, applied, fsm, persisting, seed,
                  config, acknowledged>>
  BY DEF LogStoreFails, disk
<1>2. PICK unstored \in SUBSET {c \in Caller : call[c].step = "checked"} :
         call' = [c \in Caller |->
                    IF c \in unstored THEN Done(NotLogged, "raft.LogStoreError")
                    ELSE IF call[c].step = "waiting" /\ call[c].index > commitIndex
                    THEN Done(call[c].index, "raft.ErrLeadershipLost")
                    ELSE call[c]]
  BY DEF LogStoreFails
<1>3. Extends(log, log') /\ Up' = Up
  BY <1>1, ExtendsAppend DEF DiskInv, Up
<1>4. \A c \in Caller :
        \/ call'[c] = call[c]
        \/ call[c] # Idle /\ call'[c].step = "done" /\ call'[c].err # OK
  BY <1>2 DEF Done, Idle, OK
<1>5. call' = [c \in Caller |-> call'[c]]
  BY <1>2
<1>6. DiskInv' /\ MemoryInv'
  BY <1>1, <1>3, DiskFrame, MemoryFrame
<1>7. CallInv'
  BY <1>1, <1>4, <1>5, CallInvAnswers
<1>8. SeedInv'
  BY <1>1, <1>4, SeedInvFrame
<1> QED
  BY <1>6, <1>7, <1>8

\* A snapshot is taken of the maps at the last applied entry, written in front
\* of the older one or given up; compaction stops at the newest.
LEMMA SnapshotStep ==
    ASSUME IInv, SnapshotBegin \/ SnapshotPersist \/ SnapshotCancel \/ Compact
    PROVE  IInv'
<1> USE DEF IInv
<1>1. UNCHANGED <<log, phase, role, commitIndex, applied, fsm, call, seed, config, acknowledged>>
  BY DEF SnapshotBegin, SnapshotPersist, SnapshotCancel, Compact, disk, process, history
<1>2. Extends(log, log') /\ Up' = Up
  BY <1>1, ExtendsAppend DEF DiskInv, Up
<1>3. CallInv' /\ SeedInv'
  BY <1>1, <1>2, CallInvFrame, SeedInvFrame
<1>4. /\ Len(log) \in Nat /\ commitIndex \in 0..Len(log) /\ applied \in 0..commitIndex
      /\ \A i \in DOMAIN snapshots : snapshots[i].index \in 1..Len(log)
      /\ DOMAIN snapshots = 1..Len(snapshots) /\ Len(snapshots) \in Nat
  BY SnapshotsUsable DEF DiskInv, MemoryInv
<1>5. CASE SnapshotBegin
  <2>1. /\ UNCHANGED <<compacted, snapshots>>
        /\ Up /\ applied > 0
        /\ \A i \in DOMAIN snapshots : snapshots[i].index < applied
        /\ persisting' = <<[index |-> applied, raw |-> Snapshot(fsm)]>>
    BY <1>5 DEF SnapshotBegin, disk
  <2>2. DiskInv'
    BY <1>2, <2>1, DiskFrame
  <2>3. [index |-> applied, raw |-> Snapshot(fsm)] \in SnapshotsOf(log)
    BY <1>4, <2>1 DEF SnapshotsOf, MemoryInv
  <2>4. MemoryInv'
    BY <1>1, <1>2, <1>4, <2>1, <2>3 DEF MemoryInv
  <2> QED
    BY <1>3, <2>2, <2>4
<1>6. CASE SnapshotPersist
  <2>1. /\ UNCHANGED compacted /\ Up /\ persisting # <<>> /\ persisting' = <<>>
        /\ snapshots' = IF snapshots = <<>> THEN persisting
                        ELSE <<persisting[1], snapshots[1]>>
    BY <1>6 DEF SnapshotPersist
  <2>2. /\ persisting \in Seq(SnapshotsOf(log)) /\ Len(persisting) = 1
        /\ persisting[1].index <= applied
        /\ \A i \in DOMAIN snapshots : snapshots[i].index < persisting[1].index
    BY <2>1 DEF MemoryInv
  <2>3. persisting[1] \in SnapshotsOf(log) /\ persisting[1].index \in Nat
    <3>1. persisting[1] \in SnapshotsOf(log)
      BY <2>2
    <3> QED
      BY <1>4, <3>1 DEF SnapshotsOf
  <2>4. /\ snapshots' \in Seq(SnapshotsOf(log)) /\ snapshots' # <<>>
        /\ snapshots'[1] = persisting[1]
        /\ \A i \in DOMAIN snapshots' :
             snapshots'[i] = persisting[1] \/ (snapshots # <<>> /\ snapshots'[i] = snapshots[1])
    <3>1. CASE snapshots = <<>>
      BY <2>1, <2>2, <3>1
    <3>2. CASE snapshots # <<>>
      <4>1. snapshots[1] \in SnapshotsOf(log)
        BY <1>4, <3>2, EmptySeq DEF DiskInv
      <4> QED
        BY <2>1, <2>3, <3>2, <4>1
    <3> QED
      BY <3>1, <3>2
  <2>5. snapshots # <<>> => 1 \in DOMAIN snapshots
    BY <1>4, EmptySeq DEF DiskInv
  <2>6. \A i \in DOMAIN snapshots' : snapshots'[i].index <= persisting[1].index
    BY <1>4, <2>2, <2>3, <2>4, <2>5
  <2>7. DiskInv'
    BY <1>1, <1>4, <2>1, <2>2, <2>3, <2>4, <2>5, <2>6 DEF DiskInv
  <2>8. \A i \in DOMAIN snapshots' : snapshots'[i].index <= applied
    BY <1>4, <2>2, <2>3, <2>4, <2>5
  <2>9. MemoryInv'
    BY <1>1, <1>2, <2>1, <2>8 DEF MemoryInv
  <2> QED
    BY <1>3, <2>7, <2>9
<1>7. CASE SnapshotCancel
  <2>1. UNCHANGED <<compacted, snapshots>> /\ persisting' = <<>>
    BY <1>7 DEF SnapshotCancel, disk
  <2>2. DiskInv'
    BY <1>2, <2>1, DiskFrame
  <2>3. MemoryInv'
    BY <1>1, <1>2, <2>1 DEF MemoryInv
  <2> QED
    BY <1>3, <2>2, <2>3
<1>8. CASE Compact
  <2>1. UNCHANGED <<snapshots, persisting>> /\ snapshots # <<>> /\ compacted' = snapshots[1].index
    BY <1>8 DEF Compact, process
  <2>2. 1 \in DOMAIN snapshots
    BY <1>4, <2>1, EmptySeq DEF DiskInv
  <2>3. DiskInv'
    BY <1>1, <1>4, <2>1, <2>2 DEF DiskInv
  <2>4. MemoryInv'
    BY <1>1, <1>2, <2>1, MemoryFrame
  <2> QED
    BY <1>3, <2>3, <2>4
<1> QED
  BY <1>5, <1>6, <1>7, <1>8

\* What Submit appends: the command its caller asked for.
LEMMA SubmitAppends ==
    ASSUME IInv, NEW c \in Caller, Submit(c)
    PROVE  LET e == Entry("command", call[c].cmd) IN
           /\ call[c].cmd \in Asked(c) /\ call[c].cmd \in Command
           /\ e \in LogEntry /\ e.kind = "command" /\ e.cmd = call[c].cmd
           /\ log' = Append(log, e)
           /\ Len(log) < MaxIndex
<1> DEFINE e == Entry("command", call[c].cmd)
<1>1. call[c].cmd \in Asked(c) /\ call[c].cmd \in Command
  BY AskedCommands DEF Submit, IInv, CallInv, CallSound
<1>2. e \in LogEntry /\ e.kind = "command" /\ e.cmd = call[c].cmd
  BY <1>1 DEF LogEntry, Entry
<1>3. log' = log \o <<e>> /\ Len(log) < MaxIndex
  BY DEF Submit, Stored
<1> HIDE DEF e
<1>4. log' = Append(log, e)
  BY <1>2, <1>3, AppendIsConcat DEF IInv, DiskInv
<1> QED
  BY <1>1, <1>2, <1>3, <1>4 DEF e

\* A submitted command is in the log at the index its caller waits for.  A
\* client's finds an active admin, and leaves one; of seeding's two the first
\* brings no account and the second an active admin.
LEMMA SubmitStep == ASSUME IInv, NEW c \in Caller, Submit(c) PROVE IInv'
<1> USE DEF IInv
<1> DEFINE cmd == call[c].cmd
           e == Entry("command", cmd)
           n == Len(log) + 1
<1>1. /\ UNCHANGED <<compacted, snapshots, phase, commitIndex, applied, fsm, persisting, seed,
                     config, acknowledged>>
      /\ Up /\ call[c].step = "checked"
      /\ call' = [call EXCEPT ![c] = [step |-> "waiting", index |-> Len(log')]]
  BY DEF Submit, history
<1>2. /\ cmd \in Asked(c) /\ cmd \in Command
      /\ e \in LogEntry /\ e.kind = "command" /\ e.cmd = cmd
      /\ log' = Append(log, e)
  BY SubmitAppends
<1> HIDE DEF e
<1>3. Extends(log, log') /\ Up' = Up
  BY <1>1, <1>2, ExtendsAppend DEF DiskInv, Up
<1>4. /\ Len(log') = n /\ Len(log) \in Nat /\ log'[n] = e /\ n \in DOMAIN log'
      /\ Replay(log', n) = Apply(End(log), n, cmd)
  BY <1>2, ReplayAppend DEF DiskInv, ReplayEntry, End
<1>5. DiskInv' /\ MemoryInv'
  BY <1>1, <1>3, DiskFrame, MemoryFrame
<1> DEFINE x == [step |-> "waiting", index |-> n]
<1>6. /\ call' = [call EXCEPT ![c] = x] /\ call'[c] = x /\ x.step = "waiting" /\ x.index = n
      /\ \A d \in Caller \ {c} : call'[d] = call[d]
  BY <1>1, <1>4 DEF CallInv
<1> HIDE DEF x
<1>7. call[c] # Idle
  BY <1>1 DEF Idle
<1>8. IF c = Seeder THEN phase = "seeding" /\ seed \in {"setGroup", "setUser"}
      ELSE c \in Client /\ phase \notin {"down", "opening", "seeding"}
  BY <1>7 DEF CallInv, Caller
<1>9. CallInv'
  <2>1. Asked(c)' = Asked(c)
    BY <1>1 DEF Asked, SeedCommand
  <2>2. n \in Logged(log', Asked(c))
    BY <1>2, <1>4 DEF Logged
  <2>3. CallSound(c)'
    BY <1>6, <2>1, <2>2 DEF CallSound
  <2> QED
    BY <1>1, <1>3, <1>6, <1>8, <2>3, CallInvUpdate
<1>10. SeedInv'
  <2>1. \A d \in Caller : call'[d].step = "checked" => call'[d] = call[d]
    BY <1>6
  <2>2. End(log') = Apply(End(log), n, cmd).state
    BY <1>4 DEF End
  <2>3. GoodUpTo(End(log), Len(log))
    BY <1>4, ReplayGood DEF DiskInv, End
  <2>4. Shape(End(log))
    BY <2>3 DEF GoodUpTo, Good, Typed, Shape
  <2>5. DOMAIN End(log).users # {} => HasActiveAdmin(End(log))
    BY <1>4 DEF SeedInv, End
  <2>6. HasActiveAdmin(End(log)) => HasActiveAdmin(End(log'))
    BY <1>3, ExtendsFacts
  <2>7. CASE c = Seeder
    <3>1. call'[Seeder].step # "checked"
      BY <1>6, <2>7
    <3>2. DOMAIN End(log').users # {} => HasActiveAdmin(End(log'))
      <4>1. CASE seed = "setGroup"
        <5>1. cmd = GroupSetCommand(AdminGroup)
          BY <1>2, <2>7, <4>1 DEF Asked, SeedCommand
        <5>2. End(log').users = End(log).users
          BY <2>2, <2>4, <5>1, SeedGroupApplied
        <5> QED
          BY <2>5, <2>6, <5>2
      <4>2. CASE seed = "setUser"
        <5>1. PICK id \in UserID, username \in AdminUsername :
                cmd = UserSetCommand(AdminUser(id, username))
          BY <1>2, <2>7, <4>2 DEF Asked, SeedCommand
        <5> QED
          BY <2>2, <2>4, <2>5, <2>6, <5>1, SeedUserApplied
      <4> QED
        BY <1>8, <2>7, <4>1, <4>2
    <3> QED
      BY <1>1, <1>2, <2>1, <3>1, <3>2, SeedInvAppend
  <2>8. CASE c # Seeder
    <3>1. HasActiveAdmin(End(log))
      BY <1>1, <1>8, <2>8 DEF SeedInv
    <3>2. call'[Seeder].step # "checked"
      <4>1. call[Seeder] = Idle
        BY <1>8, <2>8 DEF CallInv
      <4>2. call'[Seeder] = call[Seeder]
        BY <1>6, <2>8 DEF Caller
      <4> QED
        BY <4>1, <4>2 DEF Idle
    <3> QED
      BY <1>1, <1>2, <2>1, <2>6, <3>1, <3>2, SeedInvAppend
  <2> QED
    BY <2>7, <2>8
<1> QED
  BY <1>5, <1>9, <1>10

\* A command that does not reach the log is answered with an error.
LEMMA RefusedStep ==
    ASSUME IInv, NEW c \in Caller, SubmitRefused(c) \/ EnqueueTimeout(c)
    PROVE  IInv'
<1> USE DEF IInv
<1>1. /\ UNCHANGED <<log, compacted, snapshots, phase, commitIndex, applied, fsm, persisting,
                     seed, config, acknowledged>>
      /\ call[c].step = "checked"
      /\ \/ call' = [call EXCEPT ![c] = Done(NotLogged, "raft.ErrNotLeader")]
         \/ call' = [call EXCEPT ![c] = Done(NotLogged, "raft.ErrEnqueueTimeout")]
  BY DEF SubmitRefused, Refuse, EnqueueTimeout, disk, history
<1>2. Extends(log, log') /\ Up' = Up
  BY <1>1, ExtendsAppend DEF DiskInv, Up
<1>3. DiskInv' /\ MemoryInv'
  BY <1>1, <1>2, DiskFrame, MemoryFrame
<1>4. /\ call' = [d \in Caller |-> call'[d]]
      /\ \A d \in Caller \ {c} : call'[d] = call[d]
      /\ call[c] # Idle /\ call'[c].step = "done" /\ call'[c].err # OK
  BY <1>1 DEF CallInv, Done, Idle, OK
<1>5. CallInv'
  <2>1. \A d \in Caller :
          \/ call'[d] = call[d]
          \/ call[d] # Idle /\ call'[d].step = "done" /\ call'[d].err # OK
    BY <1>4
  <2> QED
    BY <1>1, <1>4, <2>1, CallInvAnswers
<1>6. SeedInv'
  BY <1>1, <1>4, SeedInvFrame
<1> QED
  BY <1>3, <1>5, <1>6

\* What a caller that gets its answer leaves behind: an acknowledged entry is
\* one the log holds and accepted.
LEMMA ReturnStep ==
    ASSUME IInv, NEW c \in Caller, Return(c)
    PROVE  /\ DiskInv'
           /\ Up' => MemoryInv'
           /\ AcknowledgedDurable'
           /\ call' = [call EXCEPT ![c] = Idle]
           /\ Extends(log, log') /\ log' = log
<1> USE DEF IInv
<1>1. /\ UNCHANGED <<log, compacted, snapshots, commitIndex, applied, fsm, persisting, config>>
      /\ Up /\ call[c].step = "done" /\ call' = [call EXCEPT ![c] = Idle]
      /\ acknowledged' = IF call[c].err = OK THEN acknowledged \cup {call[c].index}
                         ELSE acknowledged
  BY DEF Return, disk
<1>2. Extends(log, log')
  BY <1>1, ExtendsAppend DEF DiskInv
<1>3. DiskInv'
  BY <1>1, <1>2, DiskFrame
<1>4. Up' => MemoryInv'
  BY <1>1, <1>2, MemoryFrame
<1>5. AcknowledgedDurable'
  <2>1. call[c].err = OK => /\ call[c].index \in Logged(log, Asked(c))
                            /\ Replay(log, call[c].index).err = OK
    BY <1>1 DEF CallInv, CallSound
  <2> QED
    BY <1>1, <2>1 DEF Logged, CallInv, AcknowledgedDurable
<1> QED
  BY <1>1, <1>2, <1>3, <1>4, <1>5

\* A client calls once it has found an account, so there is an active admin.
LEMMA ClientStep ==
    ASSUME IInv, NEW c \in Client, ClientCall(c) \/ ClientReturn(c)
    PROVE  IInv'
<1> USE DEF IInv
<1>0. c \in Caller /\ Seeder \in Caller /\ Client \subseteq Caller /\ c # Seeder
  BY SeederAssumption DEF Caller
<1>1. CASE ClientCall(c)
  <2>1. /\ UNCHANGED <<log, compacted, snapshots, phase, commitIndex, applied, fsm, persisting,
                       seed, config, acknowledged>>
        /\ phase = "serving" /\ DOMAIN fsm.users # {}
    BY <1>1 DEF ClientCall, disk
  <2>2. PICK cmd \in ClientCommand : call' = [call EXCEPT ![c] = CheckedCall(cmd)]
    BY <1>1 DEF ClientCall
  <2>3. Extends(log, log') /\ Up' = Up
    BY <2>1, ExtendsAppend DEF DiskInv, Up
  <2>4. DiskInv' /\ MemoryInv'
    BY <2>1, <2>3, DiskFrame, MemoryFrame
  <2> DEFINE x == CheckedCall(cmd)
  <2>5. \/ x.step = "checked" /\ x.cmd = cmd
        \/ x.step = "done" /\ x.err # OK
    BY DEF CheckedCall, Done, OK
  <2> HIDE DEF x
  <2>6. call'[c] = x /\ \A d \in Caller \ {c} : call'[d] = call[d]
    BY <1>0, <2>2 DEF x, CallInv
  <2>7. CallInv'
    <3>1. cmd \in Asked(c)'
      BY <1>0 DEF Asked
    <3>2. CallSound(c)'
      BY <2>5, <2>6, <3>1 DEF CallSound
    <3> QED
      BY <1>0, <2>1, <2>2, <2>3, <3>2, CallInvUpdate DEF x
  <2>8. HasActiveAdmin(End(log))
    <3>1. Len(log) \in Nat /\ applied \in 0..Len(log) /\ fsm = Replay(log, applied).state
      BY DEF DiskInv, MemoryInv
    <3>2. HasActiveAdmin(fsm)
      BY <2>1, <3>1 DEF SeedInv
    <3> QED
      BY <3>1, <3>2, ReplayKeeps DEF End, DiskInv
  <2>9. SeedInv'
    <3>1. call'[Seeder] = call[Seeder]
      BY <1>0, <2>6
    <3> QED
      BY <2>1, <2>8, <3>1 DEF SeedInv, End
  <2> QED
    BY <2>4, <2>7, <2>9
<1>2. CASE ClientReturn(c)
  <2>1. UNCHANGED <<phase, seed>> /\ Return(c) /\ Up
    BY <1>2 DEF ClientReturn, Return
  <2>2. /\ DiskInv' /\ MemoryInv' /\ AcknowledgedDurable' /\ Extends(log, log') /\ log' = log
        /\ call' = [call EXCEPT ![c] = Idle]
    BY <1>0, <2>1, ReturnStep DEF Up
  <2>3. /\ call' = [d \in Caller |-> call'[d]]
        /\ call'[c] = Idle /\ \A d \in Caller \ {c} : call'[d] = call[d]
    BY <1>0, <2>2 DEF CallInv
  <2>4. \A d \in Caller : CallSound(d)'
    <3>1. CallSound(c)'
      BY <2>3 DEF CallSound, Idle
    <3>2. \A d \in Caller \ {c} : CallSound(d)'
      BY <2>1, <2>2, <2>3, CallFrame DEF CallInv
    <3> QED
      BY <3>1, <3>2
  <2>5. CallInv'
    BY <1>0, <2>1, <2>2, <2>3, <2>4 DEF CallInv
  <2>6. SeedInv'
    <3>1. \A d \in Caller : call'[d].step = "checked" => call'[d] = call[d]
      BY <2>3 DEF Idle
    <3> QED
      BY <2>1, <2>2, <3>1, SeedInvFrame
  <2> QED
    BY <2>2, <2>5, <2>6
<1> QED
  BY <1>1, <1>2

\* What a step of seeding has to show while no caller is at anything: that the
\* log already holds what the next step counts on.
LEMMA SeedInvMove ==
    ASSUME IInv, log' = log, \A c \in Caller : call'[c] = Idle,
           seed' \in {"readUser", "setUser", "seeded"} => AdminGroupID \in DOMAIN End(log).groups,
           seed' = "seeded" => HasActiveAdmin(End(log))
    PROVE  SeedInv'
<1>1. Seeder \in Caller /\ Client \subseteq Caller
  BY DEF Caller
<1>2. Idle.step # "checked"
  BY DEF Idle
<1> QED
  BY <1>1, <1>2 DEF IInv, SeedInv, End

\* What seeding reads is a prefix of the log: the Admin group it finds, and the
\* active admin that comes with an account, are still there at its end.
LEMMA SeedReads ==
    ASSUME IInv
    PROVE  /\ AdminGroupID \in DOMAIN fsm.groups => AdminGroupID \in DOMAIN End(log).groups
           /\ DOMAIN fsm.users # {} => HasActiveAdmin(End(log))
<1>1. Len(log) \in Nat /\ applied \in 0..Len(log) /\ fsm = Replay(log, applied).state
  BY DEF IInv, DiskInv, MemoryInv
<1>2. DOMAIN fsm.users # {} => HasActiveAdmin(fsm)
  BY <1>1 DEF IInv, SeedInv
<1> QED
  BY <1>1, <1>2, ReplayKeeps DEF IInv, DiskInv, End

\* Seeding's two reads move it on.
LEMMA SeedReadStep == ASSUME IInv, SeedReadGroup \/ SeedReadUser PROVE IInv'
<1> USE DEF IInv
<1>1. /\ UNCHANGED <<log, compacted, snapshots, commitIndex, applied, fsm, persisting, config,
                     call, acknowledged>>
      /\ phase = "seeding" /\ seed \in {"readGroup", "readUser"}
      /\ phase' \in {"seeding", "serving"}
  BY DEF SeedReadGroup, SeedReadUser, raftUnchanged, disk, history
<1>2. Extends(log, log') /\ Up' = Up
  BY <1>1, ExtendsAppend DEF DiskInv, Up
<1>3. DiskInv' /\ MemoryInv'
  BY <1>1, <1>2, DiskFrame, MemoryFrame
<1>4. \A c \in Caller : call[c] = Idle /\ call'[c] = Idle /\ Idle.step = "idle"
  BY <1>1 DEF CallInv, Caller, Idle
<1>5. Seeder \in Caller /\ Client \subseteq Caller
  BY DEF Caller
<1>6. AcknowledgedDurable'
  BY <1>1, <1>2, AcknowledgedFrame DEF CallInv
<1>7. CallInv'
  BY <1>1, <1>4, <1>5, <1>6 DEF CallInv, CallSound
<1>8. SeedInv'
  <2>1. CASE SeedReadGroup
    BY <1>1, <1>4, <2>1, SeedReads, SeedInvMove DEF SeedReadGroup
  <2>2. CASE SeedReadUser
    <3>1. /\ seed = "readUser" /\ seed' \in {"seeded", "setUser"}
          /\ seed' = "seeded" => DOMAIN fsm.users # {}
      BY <2>2 DEF SeedReadUser, UserNamed
    <3>2. AdminGroupID \in DOMAIN End(log).groups
      BY <3>1 DEF SeedInv
    <3> QED
      BY <1>1, <1>4, <3>1, <3>2, SeedReads, SeedInvMove
  <2> QED
    BY <2>1, <2>2
<1> QED
  BY <1>3, <1>7, <1>8

\* A fresh ID is that of no account of the log.
LEMMA FreshIDs ==
    ASSUME DiskInv, NEW id \in FreshUserID
    PROVE  id \in UserID /\ id \notin DOMAIN End(log).users
<1>1. Len(log) \in Nat /\ DOMAIN log = 1..Len(log)
  BY DEF DiskInv
<1>2. ASSUME id \in DOMAIN End(log).users PROVE FALSE
  <2>1. PICK i \in DOMAIN log : /\ log[i].cmd.entity = "user" /\ log[i].cmd.op = "set"
                                /\ log[i].cmd.user.id = id
    BY <1>1, <1>2, AccountsLogged DEF DiskInv, End
  <2> QED
    BY <2>1 DEF FreshUserID
<1> QED
  BY <1>2 DEF FreshUserID

\* Seeding's two writes ask for the Admin group and for an admin with an ID that
\* no account has.
LEMMA SeedSetStep == ASSUME IInv, SeedSetGroup \/ SeedSetUser PROVE IInv'
<1> USE DEF IInv
<1>1. /\ UNCHANGED <<log, compacted, snapshots, phase, commitIndex, applied, fsm, persisting,
                     seed, config, acknowledged>>
      /\ phase = "seeding" /\ seed \in {"setGroup", "setUser"} /\ call[Seeder] = Idle
  BY DEF SeedSetGroup, SeedSetUser, raftUnchanged, disk, history
<1>2. Extends(log, log') /\ Up' = Up
  BY <1>1, ExtendsAppend DEF DiskInv, Up
<1>3. DiskInv' /\ MemoryInv'
  BY <1>1, <1>2, DiskFrame, MemoryFrame
<1>4. Seeder \in Caller /\ Client \subseteq Caller /\ Seeder \notin Client
  BY SeederAssumption DEF Caller
<1>5. PICK x : /\ call' = [call EXCEPT ![Seeder] = x]
               /\ \/ x.step = "done" /\ x.err # OK
                  \/ /\ x.step = "checked" /\ x.cmd \in SeedCommand
                     /\ seed = "setUser" => x.cmd.user.id \notin DOMAIN End(log).users
  <2>1. CASE SeedSetGroup
    <3>1. seed = "setGroup"
      BY <2>1 DEF SeedSetGroup
    <3>2. GroupSetCommand(AdminGroup) \in SeedCommand
      BY <3>1 DEF SeedCommand
    <3> DEFINE x == IF GroupError(fsm, AdminGroupID) # OK
                    THEN Done(NotLogged, GroupError(fsm, AdminGroupID))
                    ELSE CheckedCall(GroupSetCommand(AdminGroup))
    <3>3. \/ x.step = "done" /\ x.err # OK
          \/ x.step = "checked" /\ x.cmd \in SeedCommand
      BY <3>2 DEF Done, CheckedCall, OK
    <3> QED
      BY <2>1, <3>1, <3>3 DEF SeedSetGroup
  <2>2. CASE SeedSetUser
    <3>1. seed = "setUser" /\ config \in AdminUsername
      BY <1>1, <2>2 DEF SeedSetUser, MemoryInv, Up
    <3>2. PICK id \in FreshUserID :
            call' = [call EXCEPT ![Seeder] =
                       IF UserSetError(fsm, AdminUser(id, config)) # OK
                       THEN Done(NotLogged, UserSetError(fsm, AdminUser(id, config)))
                       ELSE CheckedCall(UserSetCommand(AdminUser(id, config)))]
      BY <2>2 DEF SeedSetUser
    <3> DEFINE cmd == UserSetCommand(AdminUser(id, config))
               x == IF UserSetError(fsm, AdminUser(id, config)) # OK
                    THEN Done(NotLogged, UserSetError(fsm, AdminUser(id, config)))
                    ELSE CheckedCall(cmd)
    <3>3. id \in UserID /\ id \notin DOMAIN End(log).users
      BY FreshIDs
    <3>4. cmd \in SeedCommand
      BY <3>1, <3>3 DEF SeedCommand
    <3>5. cmd.user.id = id
      BY DEF UserSetCommand, AdminUser
    <3> HIDE DEF cmd
    <3>6. \/ x.step = "done" /\ x.err # OK
          \/ x.step = "checked" /\ x.cmd = cmd
      BY DEF Done, CheckedCall, OK
    <3> QED
      BY <3>2, <3>3, <3>4, <3>5, <3>6 DEF cmd
  <2> QED
    BY <2>1, <2>2
<1>6. call'[Seeder] = x /\ \A d \in Caller \ {Seeder} : call'[d] = call[d]
  BY <1>4, <1>5 DEF CallInv
<1>7. CallInv'
  <2>1. x.step = "checked" => x.cmd \in Asked(Seeder)'
    BY <1>1, <1>5 DEF Asked, SeedCommand
  <2>2. CallSound(Seeder)'
    BY <1>5, <1>6, <2>1 DEF CallSound
  <2> QED
    BY <1>1, <1>2, <1>4, <1>5, <2>2, CallInvUpdate
<1>8. SeedInv'
  BY <1>1, <1>4, <1>5, <1>6 DEF SeedInv, End
<1> QED
  BY <1>3, <1>7, <1>8

\* An answer of OK is the log's: the Admin group, or an active admin, is there.
LEMMA SeedAnswered ==
    ASSUME IInv, phase = "seeding", call[Seeder].step = "done", call[Seeder].err = OK
    PROVE  /\ seed \in {"setGroup", "setUser"}
           /\ AdminGroupID \in DOMAIN End(log).groups
           /\ seed = "setUser" => HasActiveAdmin(End(log))
<1> USE DEF IInv
<1> DEFINE n == call[Seeder].index
           s == Replay(log, n - 1).state
<1>1. seed \in {"setGroup", "setUser"}
  BY DEF CallInv, Idle
<1>2. n \in Logged(log, SeedCommand) /\ Replay(log, n).err = OK
  BY DEF CallInv, CallSound, Asked, Caller
<1>3. /\ Len(log) \in Nat /\ n \in 1..Len(log) /\ log[n].kind = "command"
      /\ log[n].cmd \in SeedCommand
  BY <1>2 DEF Logged, DiskInv
<1> HIDE DEF n
<1>4. Replay(log, n) = Apply(s, n, log[n].cmd)
  <2>1. n - 1 \in Nat /\ n = (n - 1) + 1
    BY <1>3
  <2>2. Replay(log, n) = ReplayEntry(Replay(log, n - 1), n, log[n])
    BY <2>1, ReplayNext
  <2> QED
    BY <1>3, <2>2 DEF ReplayEntry
<1>5. Shape(s)
  <2>1. n - 1 \in 0..Len(log)
    BY <1>3
  <2> QED
    BY <2>1, ReplayGood DEF DiskInv, GoodUpTo, Good, Typed, Shape
<1> HIDE DEF s
<1>6. CASE seed = "setGroup"
  <2>1. log[n].cmd = GroupSetCommand(AdminGroup)
    BY <1>3, <1>6 DEF SeedCommand
  <2>2. AdminGroupID \in DOMAIN Replay(log, n).state.groups
    BY <1>2, <1>4, <1>5, <2>1, SeedGroupApplied
  <2> QED
    BY <1>1, <1>3, <1>6, <2>2, ReplayKeeps DEF End, DiskInv
<1>7. CASE seed = "setUser"
  <2>1. PICK id \in UserID, username \in AdminUsername :
          log[n].cmd = UserSetCommand(AdminUser(id, username))
    BY <1>3, <1>7 DEF SeedCommand
  <2>2. HasActiveAdmin(Replay(log, n).state)
    BY <1>2, <1>4, <1>5, <2>1, SeedUserApplied
  <2>3. HasActiveAdmin(End(log))
    BY <1>3, <2>2, ReplayKeeps DEF End, DiskInv
  <2> QED
    BY <1>1, <1>7, <2>3 DEF SeedInv
<1> QED
  BY <1>1, <1>6, <1>7

\* Seeding goes on, tries again, gives up or fails by the answer it gets.
LEMMA SeedAnswerStep ==
    ASSUME IInv, SeedSetDone \/ SeedRetry \/ SeedGiveUp \/ SeedFail
    PROVE  IInv'
<1> USE DEF IInv
<1>1. /\ phase = "seeding" /\ Return(Seeder) /\ call[Seeder].step = "done"
      /\ phase' \in {"seeding", "serving", "stopping"}
  BY DEF SeedSetDone, SeedRetry, SeedGiveUp, SeedFail, SeedAnswer, Return
<1>2. Seeder \in Caller /\ Client \subseteq Caller
  BY DEF Caller
<1>3. /\ DiskInv' /\ MemoryInv' /\ AcknowledgedDurable' /\ log' = log
      /\ call' = [call EXCEPT ![Seeder] = Idle]
  BY <1>1, <1>2, ReturnStep DEF Up
<1>4. /\ call' = [c \in Caller |-> call'[c]]
      /\ \A c \in Caller : call'[c] = Idle /\ Idle.step = "idle"
  BY <1>1, <1>3 DEF CallInv, Caller, Idle
<1>5. CallInv'
  BY <1>1, <1>2, <1>3, <1>4 DEF CallInv, CallSound
<1>6. SeedInv'
  <2>1. CASE SeedSetDone
    <3>1. /\ call[Seeder].err = OK
          /\ seed' = IF seed = "setGroup" THEN "readUser" ELSE "seeded"
      BY <2>1 DEF SeedSetDone, SeedAnswer
    <3> QED
      BY <1>1, <1>3, <1>4, <3>1, SeedAnswered, SeedInvMove
  <2>2. CASE SeedRetry \/ SeedGiveUp \/ SeedFail
    <3>1. seed' \in {"readGroup", "gaveUp", "failed"}
      BY <2>2 DEF SeedRetry, SeedGiveUp, SeedFail
    <3> QED
      BY <1>3, <1>4, <3>1, SeedInvMove
  <2> QED
    BY <2>1, <2>2
<1> QED
  BY <1>3, <1>5, <1>6

\* A process that stops loses what it holds in memory and nothing else.
LEMMA StopStep == ASSUME IInv, ShutdownRequested \/ Exit \/ Crash PROVE IInv'
<1> USE DEF IInv
<1>1. CASE ShutdownRequested
  <2>1. /\ UNCHANGED <<log, compacted, snapshots, commitIndex, applied, fsm, persisting, call,
                       seed, config, acknowledged>>
        /\ phase = "serving" /\ phase' = "stopping"
    BY <1>1 DEF ShutdownRequested, disk, history
  <2>2. Extends(log, log') /\ Up' = Up
    BY <2>1, ExtendsAppend DEF DiskInv, Up
  <2>3. DiskInv' /\ MemoryInv' /\ SeedInv'
    BY <2>1, <2>2, DiskFrame, MemoryFrame, SeedInvFrame
  <2>4. \A c \in Caller : CallSound(c)'
    BY <2>1, <2>2, CallFrame DEF CallInv
  <2>5. AcknowledgedDurable'
    BY <2>1, <2>2, AcknowledgedFrame DEF CallInv
  <2>6. CallInv'
    BY <2>1, <2>4, <2>5 DEF CallInv
  <2> QED
    BY <2>3, <2>6
<1>2. CASE Exit \/ Crash
  <2>1. /\ UNCHANGED <<log, compacted, snapshots, acknowledged>>
        /\ phase' = "down" /\ commitIndex' = 0 /\ applied' = 0 /\ fsm' = newFSM
        /\ persisting' = <<>> /\ call' = [c \in Caller |-> Idle] /\ seed' = "none"
    BY <1>2 DEF Exit, Crash, Stop, disk, history
  <2>2. Extends(log, log') /\ ~Up'
    BY <2>1, ExtendsAppend DEF DiskInv, Up
  <2>3. DiskInv'
    BY <2>1, <2>2, DiskFrame
  <2>4. MemoryInv'
    <3>1. Replay(log, 0).state = newFSM /\ Len(log) \in Nat
      BY ReplayZero DEF Accept, DiskInv
    <3> QED
      BY <2>1, <2>2, <3>1 DEF MemoryInv
  <2>5. /\ Seeder \in Caller /\ Client \subseteq Caller
        /\ \A c \in Caller : call'[c] = Idle /\ Idle.step = "idle"
    BY <2>1 DEF Caller, Idle
  <2>6. CallInv'
    <3>1. AcknowledgedDurable'
      BY <2>1, <2>2, AcknowledgedFrame DEF CallInv
    <3> QED
      BY <2>1, <2>5, <3>1 DEF CallInv, CallSound
  <2>7. SeedInv'
    BY <2>1, <2>5, SeedInvMove
  <2> QED
    BY <2>3, <2>4, <2>6, <2>7
<1> QED
  BY <1>1, <1>2

\* Every step re-establishes the invariant.
LEMMA NextIInv == ASSUME IInv, [Next]_vars PROVE IInv'
<1>1. CASE UNCHANGED vars
  <2>1. UNCHANGED <<log, compacted, snapshots, phase, commitIndex, applied, fsm, persisting, call,
                    seed, config, acknowledged>>
    BY <1>1 DEF vars, disk, process, history
  <2>2. Extends(log, log') /\ Up' = Up
    BY <2>1, ExtendsAppend DEF IInv, DiskInv, Up
  <2> QED
    BY <2>1, <2>2, DiskFrame, MemoryFrame, CallInvFrame, SeedInvFrame DEF IInv
<1>2. ASSUME NEW c \in Caller, Submit(c) \/ SubmitRefused(c) \/ EnqueueTimeout(c) PROVE IInv'
  BY <1>2, SubmitStep, RefusedStep
<1>3. ASSUME NEW c \in Client, ClientCall(c) \/ ClientReturn(c) PROVE IInv'
  BY <1>3, ClientStep
<1>4. Seed => IInv'
  BY SeedReadStep, SeedSetStep, SeedAnswerStep DEF Seed
<1> QED
  BY <1>1, <1>2, <1>3, <1>4, StartStep, BootstrapStep, LeaderStep, FsmApplyStep,
     LogStoreFailsStep, SnapshotStep, StopStep DEF Next

----------------------------------------------------------------------------
(* The theorems *)

\* IInv is an invariant.
THEOREM Invariance == Spec => []IInv
<1>1. IInv /\ [Next]_vars => IInv'
  BY NextIInv
<1> QED
  BY <1>1, InitIInv, PTL DEF Spec

\* Readers of a node always see the state of some prefix of its log.
THEOREM FsmAlwaysPrefix == Spec => []FsmIsPrefix
<1>1. IInv => FsmIsPrefix
  BY DEF IInv, MemoryInv, FsmIsPrefix
<1> QED
  BY <1>1, Invariance, PTL

\* The data directory can always be started from: every snapshot is usable and
\* true to the log, and nothing still to be applied is compacted.
THEOREM NodeAlwaysRecoverable == Spec => []NodeRecoverable
<1>1. ASSUME IInv PROVE NodeRecoverable
  <2>1. Len(log) \in Nat /\ compacted \in Nat
    BY <1>1 DEF IInv, DiskInv
  <2>2. \A i \in DOMAIN snapshots :
          /\ Usable(i)
          /\ snapshots[i].index \in Nat
          /\ Restore(newFSM, snapshots[i].raw).state = Replay(log, snapshots[i].index).state
    BY <1>1, <2>1, SnapshotsUsable DEF IInv
  <2>3. compacted > 0 => snapshots # <<>> /\ snapshots[1].index >= compacted
    BY <1>1 DEF IInv, DiskInv
  <2>4. Up => applied >= compacted
    <3>1. applied \in Nat
      BY <1>1, <2>1 DEF IInv, MemoryInv
    <3>2. snapshots # <<>> => 1 \in DOMAIN snapshots
      BY <1>1, EmptySeq DEF IInv, DiskInv
    <3> QED
      BY <1>1, <2>1, <2>2, <2>3, <3>1, <3>2 DEF IInv, MemoryInv
  <2> QED
    BY <2>2, <2>3, <2>4 DEF NodeRecoverable
<1> QED
  BY <1>1, Invariance, PTL

\* A mutation reported done is in the log and accepted by it, for ever.
THEOREM AcknowledgedAlwaysDurable == Spec => []AcknowledgedDurable
<1>1. IInv => AcknowledgedDurable
  BY DEF IInv, CallInv
<1> QED
  BY <1>1, Invariance, PTL

\* A server that serves after seeding has an active admin and the Admin group.
THEOREM ServingAlwaysHasAdmin == Spec => []ServingHasAdmin
<1>1. IInv => ServingHasAdmin
  BY DEF IInv, SeedInv, ServingHasAdmin, End
<1> QED
  BY <1>1, Invariance, PTL

\* What is stored for the seeding goroutine is stored by Submit.
LEMMA SeederWaits ==
    ASSUME IInv, [Next]_vars, call[Seeder].step = "checked", call'[Seeder].step = "waiting"
    PROVE  Submit(Seeder)
<1> USE DEF IInv
<1>1. call = [c \in Caller |-> call[c]] /\ Seeder \in Caller /\ Seeder \notin Client
      /\ call[Seeder] # Idle
  BY SeederAssumption DEF CallInv, Caller, Idle
<1>2. call'[Seeder] # call[Seeder]
  OBVIOUS
<1>3. phase = "seeding"
  BY <1>1 DEF CallInv
<1>4. ~(Start \/ BootstrapCluster \/ Elect \/ LeaderNoop \/ Commit \/ SnapshotBegin
        \/ SnapshotPersist \/ SnapshotCancel \/ Compact \/ ShutdownRequested \/ UNCHANGED vars)
  BY <1>2 DEF Start, BootstrapCluster, Elect, LeaderNoop, Commit, SnapshotBegin, SnapshotPersist,
              SnapshotCancel, Compact, ShutdownRequested, process, vars
<1>5. ~FsmApply /\ ~LogStoreFails
  BY <1>1, <1>2 DEF FsmApply, ApplyNext, Answer, LogStoreFails, Done
<1>6. ~Exit /\ ~Crash
  BY <1>1 DEF Exit, Crash, Stop, Idle
<1>7. \A c \in Caller : ~SubmitRefused(c) /\ ~EnqueueTimeout(c)
  BY <1>1, <1>2 DEF SubmitRefused, Refuse, EnqueueTimeout, Done
<1>8. \A c \in Client : ~ClientCall(c) /\ ~ClientReturn(c)
  BY <1>1, <1>2, <1>3 DEF ClientCall, ClientReturn, Return
<1>9. ~Seed
  <2>1. ~SeedReadGroup /\ ~SeedReadUser
    BY <1>2 DEF SeedReadGroup, SeedReadUser
  <2>2. ~SeedSetGroup /\ ~SeedSetUser
    BY <1>1 DEF SeedSetGroup, SeedSetUser
  <2>3. ~SeedSetDone /\ ~SeedRetry /\ ~SeedGiveUp /\ ~SeedFail
    BY DEF SeedSetDone, SeedRetry, SeedGiveUp, SeedFail, SeedAnswer, Return
  <2> QED
    BY <2>1, <2>2, <2>3 DEF Seed
<1>10. \A c \in Caller : Submit(c) => c = Seeder
  BY <1>1, <1>2 DEF Submit
<1> QED
  BY <1>4, <1>5, <1>6, <1>7, <1>8, <1>9, <1>10 DEF Next

\* Seeding touches no account that exists: what it stores is the Admin group, or
\* an account under an ID that the log does not know yet.
THEOREM SeedingTouchesNoAccountHolds == Spec => SeedingTouchesNoAccount
<1> DEFINE Untouched ==
             LET s == Replay(log, Len(log)).state.users
                 t == Replay(log', Len(log')).state.users
             IN  \A id \in DOMAIN s : id \in DOMAIN t /\ t[id] = s[id]
<1>1. ASSUME IInv, Next, call[Seeder].step = "checked", call'[Seeder].step = "waiting"
      PROVE  Untouched
  <2> USE DEF IInv
  <2> DEFINE cmd == call[Seeder].cmd
             n == Len(log) + 1
  <2>1. Submit(Seeder) /\ Seeder \in Caller
    BY <1>1, SeederWaits DEF Caller
  <2>2. log' = Append(log, Entry("command", cmd)) /\ Entry("command", cmd) \in LogEntry
        /\ cmd \in Asked(Seeder) /\ Entry("command", cmd).kind = "command"
        /\ Entry("command", cmd).cmd = cmd
    BY <1>1, <2>1, SubmitAppends
  <2>3. /\ Len(log') = n /\ Len(log) \in Nat
        /\ Replay(log', n) = Apply(End(log), n, cmd)
    BY <1>1, <2>2, ReplayAppend DEF DiskInv, ReplayEntry, End
  <2>4. Shape(End(log))
    <3>1. GoodUpTo(End(log), Len(log))
      BY <1>1, <2>3, ReplayGood DEF DiskInv, End
    <3> QED
      BY <3>1 DEF GoodUpTo, Good, Typed, Shape
  <2>5. seed \in {"setGroup", "setUser"}
    BY <1>1 DEF CallInv, Idle
  <2>6. CASE seed = "setGroup"
    <3>1. cmd = GroupSetCommand(AdminGroup)
      BY <2>2, <2>6 DEF Asked, SeedCommand
    <3> QED
      BY <2>3, <2>4, <3>1, SeedGroupApplied DEF End
  <2>7. CASE seed = "setUser"
    <3>1. PICK id \in UserID, username \in AdminUsername :
            cmd = UserSetCommand(AdminUser(id, username))
      BY <2>2, <2>7 DEF Asked, SeedCommand
    <3>2. cmd.user.id = id
      BY <3>1 DEF UserSetCommand, AdminUser
    <3>3. id \notin DOMAIN End(log).users
      BY <1>1, <2>7, <3>2 DEF SeedInv
    <3>4. \A j \in DOMAIN End(log).users :
            /\ j \in DOMAIN Replay(log', n).state.users
            /\ Replay(log', n).state.users[j] = End(log).users[j]
      BY <2>3, <2>4, <3>1, <3>3, SeedUserApplied
    <3> QED
      BY <2>3, <3>4 DEF End
  <2> QED
    BY <2>5, <2>6, <2>7
<1>2. ASSUME IInv, [Next]_vars
      PROVE  [call[Seeder].step = "checked" /\ call'[Seeder].step = "waiting" => Untouched]_vars
  BY <1>1, <1>2
<1> QED
  BY <1>2, Invariance, PTL DEF Spec, SeedingTouchesNoAccount

\* The log only grows, by a command of the repositories or an entry of Raft's own.
LEMMA LogSteps ==
    ASSUME IInv, [Next]_vars
    PROVE  \/ log' = log
           \/ /\ Len(log) < MaxIndex
              /\ \E e \in LogEntry : log' = Append(log, e)
<1> USE DEF IInv
<1>1. ASSUME NEW c \in Caller, Submit(c)
      PROVE  Len(log) < MaxIndex /\ \E e \in LogEntry : log' = Append(log, e)
  BY <1>1, SubmitAppends
<1>2. ASSUME LeaderNoop PROVE Len(log) < MaxIndex /\ \E e \in LogEntry : log' = Append(log, e)
  BY <1>2 DEF LeaderNoop, LogEntry
<1>3. ASSUME BootstrapCluster, log' # log
      PROVE  Len(log) < MaxIndex /\ \E e \in LogEntry : log' = Append(log, e)
  <2> DEFINE e == Entry("configuration", NoCommand)
  <2>1. e \in LogEntry
    BY DEF LogEntry
  <2>2. log = <<>> /\ log' = <<e>>
    BY <1>3 DEF BootstrapCluster
  <2> HIDE DEF e
  <2>3. <<>> \o <<e>> = <<e>> /\ Append(<<>>, e) = <<>> \o <<e>> /\ Len(<<>>) = 0
    BY <2>1, EmptySeq, AppendIsConcat, ConcatEmptySeq
  <2> QED
    BY <2>1, <2>2, <2>3, MaxIndexAssumption
<1>4. ASSUME Start \/ Elect \/ Commit \/ FsmApply \/ LogStoreFails PROVE log' = log
  BY <1>4 DEF Start, Elect, Commit, FsmApply, ApplyNext, LogStoreFails, disk
<1>5. ASSUME \/ SnapshotBegin \/ SnapshotPersist \/ SnapshotCancel \/ Compact
             \/ ShutdownRequested \/ Exit \/ Crash \/ UNCHANGED vars
      PROVE  log' = log
  BY <1>5 DEF SnapshotBegin, SnapshotPersist, SnapshotCancel, Compact, ShutdownRequested, Exit,
              Crash, Stop, disk, vars
<1>6. ASSUME NEW c \in Caller, SubmitRefused(c) \/ EnqueueTimeout(c) PROVE log' = log
  BY <1>6 DEF SubmitRefused, Refuse, EnqueueTimeout, disk
<1>7. ASSUME NEW c \in Client, ClientCall(c) \/ ClientReturn(c) PROVE log' = log
  BY <1>7 DEF ClientCall, ClientReturn, Return, disk
<1>8. ASSUME Seed PROVE log' = log
  BY <1>8 DEF Seed, SeedReadGroup, SeedReadUser, SeedSetGroup, SeedSetUser, SeedSetDone, SeedRetry,
              SeedGiveUp, SeedFail, SeedAnswer, Return, raftUnchanged, disk
<1> QED
  BY <1>1, <1>2, <1>3, <1>4, <1>5, <1>6, <1>7, <1>8 DEF Next

\* The abstract store's copy of the state machine is the state machine: the
\* operators on maps ...
LEMMA SameMaps ==
    /\ S!OK = OK
    /\ S!newFSM = newFSM
    /\ \A s : S!Accept(s) = Accept(s)
    /\ \A s, e : S!Reject(s, e) = Reject(s, e)
    /\ \A m, k, v : S!Put(m, k, v) = Put(m, k, v)
    /\ \A m, k : S!Drop(m, k) = Drop(m, k)
    /\ \A e, k : S!flagMapKey(e, k) = flagMapKey(e, k)
BY DEF S!OK, OK, S!newFSM, newFSM, S!EmptyMap, EmptyMap, S!Accept, Accept, S!Reject, Reject,
       S!Put, Put, S!Drop, Drop, S!flagMapKey, flagMapKey

\* ... what the writes of flags are refused for, and how they are stamped ...
LEMMA SameFlags ==
    /\ \A flag, i : S!stampFlag(flag, i) = stampFlag(flag, i)
    /\ \A s, flag : S!FlagSetError(s, flag) = FlagSetError(s, flag)
    /\ \A s, flag : S!FlagCreateError(s, flag) = FlagCreateError(s, flag)
<1> USE SameMaps
<1>1. \A t : S!isKnownFlagType(t) <=> isKnownFlagType(t)
  BY DEF S!isKnownFlagType, isKnownFlagType
<1>2. \A flag, i : S!stampFlag(flag, i) = stampFlag(flag, i)
  BY DEF S!stampFlag, stampFlag
<1>3. \A s, flag : S!FlagSetError(s, flag) = FlagSetError(s, flag)
  BY <1>1 DEF S!FlagSetError, FlagSetError
<1>4. \A s, flag : S!FlagCreateError(s, flag) = FlagCreateError(s, flag)
  BY <1>1 DEF S!FlagCreateError, FlagCreateError
<1> QED
  BY <1>2, <1>3, <1>4

\* ... what a batch writes ...
LEMMA SameBatch == \A s, i, flags : S!SetBatch(s, i, flags) = SetBatch(s, i, flags)
<1> USE SameMaps, SameFlags
<1>1. \A s, flags : S!FirstBad(s, flags) = FirstBad(s, flags)
  BY Zenon DEF S!FirstBad, FirstBad
<1>2. \A flags : S!BatchKeys(flags) = BatchKeys(flags)
  BY DEF S!BatchKeys, BatchKeys
<1>3. \A flags, k : S!BatchEntry(flags, k) = BatchEntry(flags, k)
  BY Zenon DEF S!BatchEntry, BatchEntry
<1>4. \A s, i, flags : S!PutBatch(s, i, flags) = PutBatch(s, i, flags)
  BY <1>2, <1>3 DEF S!PutBatch, PutBatch
<1> QED
  BY <1>1, <1>4, Zenon DEF S!SetBatch, SetBatch

\* ... what the other writes are refused for ...
LEMMA SameRefusals ==
    /\ \A s, e, k : S!segmentReferenced(s, e, k) <=> segmentReferenced(s, e, k)
    /\ \A s, segment : S!SegmentSetError(s, segment) = SegmentSetError(s, segment)
    /\ \A s, user : S!UserSetError(s, user) = UserSetError(s, user)
    /\ \A s, id : S!UserDeleteError(s, id) = UserDeleteError(s, id)
    /\ \A s, id : S!GroupError(s, id) = GroupError(s, id)
    /\ \A s, cred : S!CredentialSetError(s, cred) = CredentialSetError(s, cred)
    /\ \A s, id : S!EnvironmentDeleteError(s, id) = EnvironmentDeleteError(s, id)
<1> USE SameMaps
<1>1. \A s, e, k : S!segmentReferenced(s, e, k) <=> segmentReferenced(s, e, k)
  BY DEF S!segmentReferenced, segmentReferenced
<1>2. \A s, segment : S!SegmentSetError(s, segment) = SegmentSetError(s, segment)
  BY DEF S!SegmentSetError, SegmentSetError, S!validateSegment, validateSegment
<1>3. \A s, id : S!isSoleActiveAdmin(s, id) <=> isSoleActiveAdmin(s, id)
  BY DEF S!isSoleActiveAdmin, isSoleActiveAdmin, S!isActiveAdmin, isActiveAdmin
<1>4. \A s, user : S!UserSetError(s, user) = UserSetError(s, user)
  BY <1>3 DEF S!UserSetError, UserSetError, S!isActiveAdmin, isActiveAdmin
<1>5. \A s, id : S!UserDeleteError(s, id) = UserDeleteError(s, id)
  BY <1>3 DEF S!UserDeleteError, UserDeleteError
<1>6. \A s, id : S!GroupError(s, id) = GroupError(s, id)
  BY DEF S!GroupError, GroupError
<1>7. \A s, cred : S!CredentialSetError(s, cred) = CredentialSetError(s, cred)
  BY DEF S!CredentialSetError, CredentialSetError
<1>8. \A s, id : S!EnvironmentDeleteError(s, id) = EnvironmentDeleteError(s, id)
  BY DEF S!EnvironmentDeleteError, EnvironmentDeleteError, S!hasFlagsInEnvironment,
         hasFlagsInEnvironment, S!hasCredentialsInEnvironment, hasCredentialsInEnvironment,
         S!hasSegmentsInEnvironment, hasSegmentsInEnvironment
<1> QED
  BY <1>1, <1>2, <1>4, <1>5, <1>6, <1>7, <1>8

\* ... and so what applying a command does.
LEMMA SameApply ==
    ASSUME NEW s, NEW i, NEW cmd
    PROVE  S!Apply(s, i, cmd) = Apply(s, i, cmd)
<1> USE SameMaps
<1>1. S!applyFlag(s, i, cmd) = applyFlag(s, i, cmd)
  BY SameFlags, SameBatch, Zenon DEF S!applyFlag, applyFlag
<1>2. S!applySegment(s, i, cmd) = applySegment(s, i, cmd)
  BY SameRefusals, Zenon DEF S!applySegment, applySegment
<1>3. S!applyUser(s, i, cmd) = applyUser(s, i, cmd)
  BY SameRefusals, Zenon DEF S!applyUser, applyUser
<1>4. S!applyGroup(s, i, cmd) = applyGroup(s, i, cmd)
  BY SameRefusals, Zenon DEF S!applyGroup, applyGroup
<1>5. S!applyAuditEntry(s, i, cmd) = applyAuditEntry(s, i, cmd)
  BY Zenon DEF S!applyAuditEntry, applyAuditEntry
<1>6. S!applyEnvironment(s, i, cmd) = applyEnvironment(s, i, cmd)
  BY SameRefusals, Zenon DEF S!applyEnvironment, applyEnvironment
<1>7. S!applyApplicationCredential(s, i, cmd) = applyApplicationCredential(s, i, cmd)
  BY SameRefusals, Zenon DEF S!applyApplicationCredential, applyApplicationCredential
<1> QED
  BY <1>1, <1>2, <1>3, <1>4, <1>5, <1>6, <1>7, Zenon DEF S!Apply, Apply

\* Each command of the repositories is a step of the abstract store.
LEMMA AbstractSubmit == \A cmd \in Command : S!Submit(cmd) => S!Next
<1>1. SUFFICES ASSUME NEW cmd, CommandForm(cmd), S!Submit(cmd) PROVE S!Next
  BY CommandForms
<1>2. \A d, ids : S!FlagsOf(d, ids) = FlagsOf(d, ids)
  BY DEF S!FlagsOf, FlagsOf
<1> QED
  BY <1>1, <1>2, SameMaps, Zenon
  DEF CommandForm, S!Next, S!FlagSet, S!FlagSetMany, S!FlagDelete, S!SegmentSet, S!SegmentDelete,
      S!UserSet, S!UserDelete, S!GroupSet, S!GroupDelete, S!EnvironmentSet, S!EnvironmentDelete,
      S!CredentialSet, S!CredentialDelete, S!AuditAppend

\* The node implements the abstract store: its log is the store's history.
THEOREM ImplementsAbstractStore == Spec => ImplementsStore
<1>1. Init => S!Init
  <2>1. SUFFICES ASSUME Init PROVE S!Init
    OBVIOUS
  <2>2. log = <<>> /\ Len(log) = 0
    BY <2>1, EmptySeq DEF Init
  <2>3. Replay(log, Len(log)) = Accept(newFSM)
    BY <2>2, ReplayZero
  <2> QED
    BY <2>2, <2>3, SameMaps DEF S!Init, Accept
<1>2. ASSUME IInv, [Next]_vars PROVE [S!Next]_S!vars
  <2>1. CASE log' = log
    BY <2>1 DEF S!vars
  <2>2. CASE Len(log) < MaxIndex /\ \E e \in LogEntry : log' = Append(log, e)
    <3>1. PICK e \in LogEntry : log' = Append(log, e)
      BY <2>2
    <3>2. /\ Len(log') = Len(log) + 1
          /\ Replay(log', Len(log')) = ReplayEntry(Replay(log, Len(log)), Len(log'), e)
      BY <1>2, <3>1, ReplayAppend DEF IInv, DiskInv
    <3>3. CASE e.kind = "command" /\ e.cmd \in Command
      <4>1. Replay(log', Len(log')) = S!Apply(Replay(log, Len(log)).state, Len(log'), e.cmd)
        BY <3>2, <3>3, SameApply DEF ReplayEntry
      <4>2. S!Submit(e.cmd)
        BY <2>2, <3>2, <4>1 DEF S!Submit
      <4> QED
        BY <3>3, <4>2, AbstractSubmit
    <3>4. CASE e.kind # "command"
      <4>1. S!RaftEntry
        BY <2>2, <3>2, <3>4 DEF S!RaftEntry, ReplayEntry
      <4> QED
        BY <4>1 DEF S!Next
    <3> QED
      BY <3>3, <3>4, LogEntryKinds
  <2> QED
    BY <1>2, <2>1, <2>2, LogSteps
<1> QED
  BY <1>1, <1>2, Invariance, PTL DEF Spec, ImplementsStore, S!Spec
=============================================================================
