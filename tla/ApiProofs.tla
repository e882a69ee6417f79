----------------------------- MODULE ApiProofs -----------------------------
(***************************************************************************)
(* Proofs about Api, for every value of its constants: whatever is asked,  *)
(* by however many concurrent requests, with whatever failures and crashes,*)
(* the audit trail and the answers agree, and nobody joins the Admin group *)
(* but by an Admin.                                                        *)
(***************************************************************************)
EXTENDS Api, Induction, FiniteSetTheorems

----------------------------------------------------------------------------
(* The inductive invariant                                                 *)

\* A state of the maps has the fields of the fsm struct.
Shape(s) == s = [field \in FsmFields |-> s[field]]

\* An environment record, with an order.
Ordered(environment) ==
    {"order", "version"} \subseteq DOMAIN environment /\ environment.order \in Nat

\* The orders in use are natural numbers below a bound: there is a highest.
Orders(s) ==
    /\ \A k \in DOMAIN s.environments : s.environments[k].order \in Nat
    /\ \E b \in Nat : \A k \in DOMAIN s.environments : s.environments[k].order <= b

\* r has the fields a request has while it is served.
IsServing(r) ==
    r = [field \in {"step", "q", "subject", "groupIDs", "p", "before", "existing", "cmd",
                    "ids", "code", "since"} |-> r[field]]

\* A command cmd that the handler of q may submit for p: not an audit entry; a
\* user joins the Admin group only by an Admin; an environment has an order.
Decided(q, p, cmd) ==
    /\ cmd.entity # "audit"
    /\ cmd.entity = "user" /\ cmd.op = "set" =>
         /\ "groupIDs" \in DOMAIN cmd.user
         /\ p.isAdmin \/ AdminGroupID \notin cmd.user.groupIDs
    /\ cmd.entity = "environment" /\ cmd.op = "set" => Ordered(cmd.environment)
    /\ ActionOf(q) = <<"environment", "POST">> =>
         cmd.entity = "environment" /\ cmd.op = "set"

\* What holds of a request r from its arrival to its answer, in the state of
\* the maps s, at index i, with n requests so far, f failures and a accepted:
\* it is not in the trail; its command is accepted only when it is about to be
\* audited, and if nothing failed the audited code says so.
Served(r, s, i, n, f, a) ==
    /\ IsServing(r)
    /\ r.step \in {"authenticate", "groups", "before", "existing", "decide", "lookup",
                   "precheck", "submit", "audit"}
    /\ ActionOf(r.q) \in Route
    /\ r.q.number \in 1..n
    /\ r.since \in Nat /\ r.since <= i
    /\ \A id \in DOMAIN s.auditEntries : s.auditEntries[id].request # r.q.number
    /\ r.step # "audit" => r.q.number \notin DOMAIN a
    /\ r.step = "audit" /\ r.code = OK => r.q.number \in DOMAIN a
    /\ r.step = "audit" /\ f = 0 /\ r.q.number \in DOMAIN a => r.code = OK
    /\ r.step = "decide" /\ r.q.entity = "environment" /\ r.q.method # "POST" =>
         r.existing.order \in Nat
    /\ r.step \in {"lookup", "precheck", "submit"} => Decided(r.q, r.p, r.cmd)
    /\ r.step \in {"lookup", "precheck", "submit"} /\ ActionOf(r.q) = <<"environment", "POST">> =>
         \A k \in DOMAIN s.environments :
             s.environments[k].version <= r.since =>
                 s.environments[k].order < r.cmd.environment.order

\* The maps and the counters.
MapsInv ==
    /\ Shape(fsm) /\ Orders(fsm)
    /\ index \in Nat /\ requests \in Nat /\ faults \in Nat

\* Each request has at most one entry, filed under its index, and an entry
\* that says success comes after the accepted command.
TrailInv ==
    /\ \A id \in DOMAIN fsm.auditEntries :
         LET entry == fsm.auditEntries[id] IN
         /\ id \in 1..index /\ entry.id = id /\ entry.request \in 1..requests
         /\ entry.success =>
              entry.request \in DOMAIN accepted /\ accepted[entry.request] < id
    /\ \A i, j \in DOMAIN fsm.auditEntries :
         fsm.auditEntries[i].request = fsm.auditEntries[j].request => i = j

\* What was accepted and answered belongs to requests made.
HistoryInv ==
    /\ DOMAIN accepted \subseteq 1..requests /\ DOMAIN answers \subseteq 1..requests
    /\ \A number \in DOMAIN accepted : accepted[number] \in 1..index
    /\ AuditedBeforeAnswer

\* Each handler serves a request of its own, or none.
RequestInv ==
    /\ req = [h \in Handler |-> req[h]]
    /\ \A h \in Handler :
         req[h] = Idle \/ Served(req[h], fsm, index, requests, faults, accepted)
    /\ \A g, h \in Handler :
         req[g] # Idle /\ req[h] # Idle /\ req[g].q.number = req[h].q.number => g = h

\* Without failures an accepted request that is over is in the trail.
ToldInv ==
    faults = 0 => \A number \in DOMAIN accepted \ InFlight :
        \E id \in DOMAIN fsm.auditEntries :
            fsm.auditEntries[id].request = number /\ fsm.auditEntries[id].success

IInv == MapsInv /\ TrailInv /\ HistoryInv /\ RequestInv /\ ToldInv

----------------------------------------------------------------------------
(* What one command does to the maps                                       *)

\* The fsm struct has exactly seven maps.
LEMMA Fields ==
    FsmFields = {"flags", "segments", "users", "groups", "auditEntries", "environments",
                 "applicationCredentials"}
BY DEF FsmFields, newFSM

\* t is a state of the maps that has what s has of the trail, the users and
\* the environments: of all three but the one named.
SameBut(s, t, field) ==
    /\ Shape(t)
    /\ field # "auditEntries" => t.auditEntries = s.auditEntries
    /\ field # "users" => t.users = s.users
    /\ field # "environments" => t.environments = s.environments

\* applyFlag changes flags only.
LEMMA FlagFrame ==
    ASSUME NEW s, Shape(s), NEW i, NEW cmd
    PROVE  SameBut(s, applyFlag(s, i, cmd).state, "flags")
<1>1. SameBut(s, s, "flags")
  BY DEF SameBut
<1>2. ASSUME NEW m PROVE SameBut(s, [s EXCEPT !.flags = m], "flags")
  BY Fields DEF Shape, SameBut
<1>3. \/ applyFlag(s, i, cmd).state = s
      \/ \E m : applyFlag(s, i, cmd).state = [s EXCEPT !.flags = m]
  BY Zenon DEF applyFlag, SetBatch, PutBatch, Accept, Reject
<1> QED
  BY <1>1, <1>2, <1>3, Zenon

\* applySegment changes segments only.
LEMMA SegmentFrame ==
    ASSUME NEW s, Shape(s), NEW i, NEW cmd
    PROVE  SameBut(s, applySegment(s, i, cmd).state, "segments")
<1>1. SameBut(s, s, "segments")
  BY DEF SameBut
<1>2. ASSUME NEW m PROVE SameBut(s, [s EXCEPT !.segments = m], "segments")
  BY Fields DEF Shape, SameBut
<1>3. \/ applySegment(s, i, cmd).state = s
      \/ \E m : applySegment(s, i, cmd).state = [s EXCEPT !.segments = m]
  BY Zenon DEF applySegment, Accept, Reject
<1> QED
  BY <1>1, <1>2, <1>3, Zenon

\* applyUser changes users only.
LEMMA UserFrame ==
    ASSUME NEW s, Shape(s), NEW i, NEW cmd
    PROVE  SameBut(s, applyUser(s, i, cmd).state, "users")
<1>1. SameBut(s, s, "users")
  BY DEF SameBut
<1>2. ASSUME NEW m PROVE SameBut(s, [s EXCEPT !.users = m], "users")
  BY Fields DEF Shape, SameBut
<1>3. \/ applyUser(s, i, cmd).state = s
      \/ \E m : applyUser(s, i, cmd).state = [s EXCEPT !.users = m]
  BY Zenon DEF applyUser, Accept, Reject
<1> QED
  BY <1>1, <1>2, <1>3, Zenon

\* applyGroup changes groups only.
LEMMA GroupFrame ==
    ASSUME NEW s, Shape(s), NEW i, NEW cmd
    PROVE  SameBut(s, applyGroup(s, i, cmd).state, "groups")
<1>1. SameBut(s, s, "groups")
  BY DEF SameBut
<1>2. ASSUME NEW m PROVE SameBut(s, [s EXCEPT !.groups = m], "groups")
  BY Fields DEF Shape, SameBut
<1>3. \/ applyGroup(s, i, cmd).state = s
      \/ \E m : applyGroup(s, i, cmd).state = [s EXCEPT !.groups = m]
  BY Zenon DEF applyGroup, Accept, Reject
<1> QED
  BY <1>1, <1>2, <1>3, Zenon

\* applyAuditEntry changes auditEntries only.
LEMMA AuditEntryFrame ==
    ASSUME NEW s, Shape(s), NEW i, NEW cmd
    PROVE  SameBut(s, applyAuditEntry(s, i, cmd).state, "auditEntries")
<1>1. SameBut(s, s, "auditEntries")
  BY DEF SameBut
<1>2. ASSUME NEW m PROVE SameBut(s, [s EXCEPT !.auditEntries = m], "auditEntries")
  BY Fields DEF Shape, SameBut
<1>3. \/ applyAuditEntry(s, i, cmd).state = s
      \/ \E m : applyAuditEntry(s, i, cmd).state = [s EXCEPT !.auditEntries = m]
  BY Zenon DEF applyAuditEntry, Accept, Reject
<1> QED
  BY <1>1, <1>2, <1>3, Zenon

\* applyEnvironment changes environments only.
LEMMA EnvironmentFrame ==
    ASSUME NEW s, Shape(s), NEW i, NEW cmd
    PROVE  SameBut(s, applyEnvironment(s, i, cmd).state, "environments")
<1>1. SameBut(s, s, "environments")
  BY DEF SameBut
<1>2. ASSUME NEW m PROVE SameBut(s, [s EXCEPT !.environments = m], "environments")
  BY Fields DEF Shape, SameBut
<1>3. \/ applyEnvironment(s, i, cmd).state = s
      \/ \E m : applyEnvironment(s, i, cmd).state = [s EXCEPT !.environments = m]
  BY Zenon DEF applyEnvironment, Accept, Reject
<1> QED
  BY <1>1, <1>2, <1>3, Zenon

\* applyApplicationCredential changes applicationCredentials only.
LEMMA ApplicationCredentialFrame ==
    ASSUME NEW s, Shape(s), NEW i, NEW cmd
    PROVE  SameBut(s, applyApplicationCredential(s, i, cmd).state, "applicationCredentials")
<1>1. SameBut(s, s, "applicationCredentials")
  BY DEF SameBut
<1>2. ASSUME NEW m PROVE SameBut(s, [s EXCEPT !.applicationCredentials = m], "applicationCredentials")
  BY Fields DEF Shape, SameBut
<1>3. \/ applyApplicationCredential(s, i, cmd).state = s
      \/ \E m : applyApplicationCredential(s, i, cmd).state = [s EXCEPT !.applicationCredentials = m]
  BY Zenon DEF applyApplicationCredential, Accept, Reject
<1> QED
  BY <1>1, <1>2, <1>3, Zenon

\* So the trail, the users and the environments change only by commands about
\* them.
LEMMA ApplyFrame ==
    ASSUME NEW s, Shape(s), NEW i, NEW cmd
    PROVE  LET t == Apply(s, i, cmd).state IN
           /\ Shape(t)
           /\ cmd.entity # "audit" => t.auditEntries = s.auditEntries
           /\ cmd.entity # "user" => t.users = s.users
           /\ cmd.entity # "environment" => t.environments = s.environments
<1>1. CASE cmd.entity = "flag"
  <2>1. Apply(s, i, cmd) = applyFlag(s, i, cmd)
    BY <1>1 DEF Apply
  <2> QED
    BY <1>1, <2>1, FlagFrame DEF SameBut
<1>2. CASE cmd.entity = "segment"
  <2>1. Apply(s, i, cmd) = applySegment(s, i, cmd)
    BY <1>2 DEF Apply
  <2> QED
    BY <1>2, <2>1, SegmentFrame DEF SameBut
<1>3. CASE cmd.entity = "user"
  <2>1. Apply(s, i, cmd) = applyUser(s, i, cmd)
    BY <1>3 DEF Apply
  <2> QED
    BY <1>3, <2>1, UserFrame DEF SameBut
<1>4. CASE cmd.entity = "group"
  <2>1. Apply(s, i, cmd) = applyGroup(s, i, cmd)
    BY <1>4 DEF Apply
  <2> QED
    BY <1>4, <2>1, GroupFrame DEF SameBut
<1>5. CASE cmd.entity = "audit"
  <2>1. Apply(s, i, cmd) = applyAuditEntry(s, i, cmd)
    BY <1>5 DEF Apply
  <2> QED
    BY <1>5, <2>1, AuditEntryFrame DEF SameBut
<1>6. CASE cmd.entity = "environment"
  <2>1. Apply(s, i, cmd) = applyEnvironment(s, i, cmd)
    BY <1>6 DEF Apply
  <2> QED
    BY <1>6, <2>1, EnvironmentFrame DEF SameBut
<1>7. CASE cmd.entity = "applicationCredential"
  <2>1. Apply(s, i, cmd) = applyApplicationCredential(s, i, cmd)
    BY <1>7 DEF Apply
  <2> QED
    BY <1>7, <2>1, ApplicationCredentialFrame DEF SameBut
<1>8. CASE cmd.entity \notin {"flag", "segment", "user", "group", "audit", "environment",
                             "applicationCredential"}
  <2>1. Apply(s, i, cmd).state = s
    BY <1>8 DEF Apply, Reject
  <2> QED
    BY <2>1
<1> QED
  BY <1>1, <1>2, <1>3, <1>4, <1>5, <1>6, <1>7, <1>8

\* What a command about users does to them: one is stored, or one removed, or
\* none changes.
LEMMA UsersApplied ==
    ASSUME NEW s, Shape(s), NEW i, NEW cmd, cmd.entity = "user"
    PROVE  LET t == Apply(s, i, cmd).state IN
           \/ t = s
           \/ cmd.op = "delete" /\ t = [s EXCEPT !.users = Drop(s.users, cmd.key)]
           \/ /\ cmd.op = "set"
              /\ t = [s EXCEPT !.users = Put(s.users, cmd.user.id,
                                             [cmd.user EXCEPT !.version = i])]
<1>1. Apply(s, i, cmd) = applyUser(s, i, cmd)
  BY DEF Apply
<1>2. CASE cmd.op = "set"
  <2>1. CASE UserSetError(s, cmd.user) = OK
    BY <1>1, <1>2, <2>1 DEF applyUser, Accept
  <2>2. CASE UserSetError(s, cmd.user) # OK
    BY <1>1, <1>2, <2>2 DEF applyUser, Reject
  <2> QED
    BY <2>1, <2>2
<1>3. CASE cmd.op = "delete"
  <2>1. CASE UserDeleteError(s, cmd.key) = OK
    BY <1>1, <1>3, <2>1 DEF applyUser, Accept
  <2>2. CASE UserDeleteError(s, cmd.key) # OK
    BY <1>1, <1>3, <2>2 DEF applyUser, Reject
  <2> QED
    BY <2>1, <2>2
<1>4. CASE cmd.op \notin {"set", "delete"}
  <2>1. applyUser(s, i, cmd).state = s
    BY <1>4 DEF applyUser, Reject
  <2> QED
    BY <1>1, <2>1
<1> QED
  BY <1>2, <1>3, <1>4

\* What a command about environments does to them.
LEMMA EnvironmentsApplied ==
    ASSUME NEW s, Shape(s), NEW i, NEW cmd, cmd.entity = "environment"
    PROVE  LET t == Apply(s, i, cmd).state IN
           \/ t = s
           \/ cmd.op = "delete" /\ t = [s EXCEPT !.environments = Drop(s.environments, cmd.key)]
           \/ /\ cmd.op = "set"
              /\ t = [s EXCEPT !.environments = Put(s.environments, cmd.environment.id,
                                                    [cmd.environment EXCEPT !.version = i])]
<1>1. Apply(s, i, cmd) = applyEnvironment(s, i, cmd)
  BY DEF Apply
<1>2. CASE cmd.op = "set"
  BY <1>1, <1>2 DEF applyEnvironment, Accept
<1>3. CASE cmd.op = "delete"
  <2>1. CASE EnvironmentDeleteError(s, cmd.key) = OK
    BY <1>1, <1>3, <2>1 DEF applyEnvironment, Accept
  <2>2. CASE EnvironmentDeleteError(s, cmd.key) # OK
    BY <1>1, <1>3, <2>2 DEF applyEnvironment, Reject
  <2> QED
    BY <2>1, <2>2
<1>4. CASE cmd.op \notin {"set", "delete"}
  <2>1. applyEnvironment(s, i, cmd).state = s
    BY <1>4 DEF applyEnvironment, Reject
  <2> QED
    BY <1>1, <2>1
<1> QED
  BY <1>2, <1>3, <1>4

\* What an entry appended does to the trail.
LEMMA EntryApplied ==
    ASSUME NEW s, Shape(s), NEW i, NEW entry
    PROVE  LET t == Apply(s, i, [entity |-> "audit", op |-> "append", audit |-> entry]).state IN
           t.auditEntries = Put(s.auditEntries, i, [entry EXCEPT !.id = i])
<1> DEFINE cmd == [entity |-> "audit", op |-> "append", audit |-> entry]
<1>1. Apply(s, i, cmd) = applyAuditEntry(s, i, cmd)
  BY DEF Apply
<1>2. applyAuditEntry(s, i, cmd).state
        = [s EXCEPT !.auditEntries = Put(s.auditEntries, i, [entry EXCEPT !.id = i])]
  BY DEF applyAuditEntry, Accept
<1> QED
  BY <1>1, <1>2, Fields DEF Shape

----------------------------------------------------------------------------
(* What a handler decides                                                  *)

\* d is a decision on q for p with the maps s: an error, or a command to
\* submit; a new environment comes after the ones that exist.
Sound(s, p, q, d) ==
    /\ d.code # OK
    /\ d.code = Continue => Decided(q, p, d.cmd)
    /\ d.code = Continue /\ ActionOf(q) = <<"environment", "POST">> =>
         \A k \in DOMAIN s.environments :
             s.environments[k].order < d.cmd.environment.order

\* An error decides nothing.
LEMMA RefuseSound ==
    \A s, p, q, code : code \notin {OK, Continue} => Sound(s, p, q, Refuse(code))
BY DEF Sound, Refuse

\* The handlers of users, whose checks of the Admin group are on the groups
\* they store.
LEMMA UsersSound ==
    ASSUME NEW s, NEW p, NEW q, NEW existing
    PROVE  /\ q.entity = "user" /\ q.method = "POST" => Sound(s, p, q, usersPost(s, p, q))
           /\ q.entity = "user" /\ q.method = "PUT" => Sound(s, p, q, usersPut(s, p, q, existing))
           /\ q.entity = "user" /\ q.method = "DELETE" => Sound(s, p, q, usersDelete(p, q))
<1>1. ASSUME q.entity = "user", q.method = "POST" PROVE Sound(s, p, q, usersPost(s, p, q))
  BY <1>1 DEF usersPost, Sound, Refuse, Run, Decided, AdminGroupChange, Continue, OK, ActionOf
<1>2. ASSUME q.entity = "user", q.method = "PUT" PROVE Sound(s, p, q, usersPut(s, p, q, existing))
  BY <1>2 DEF usersPut, Sound, Refuse, Run, Decided, AdminGroupChange, GroupSetsChecked, Continue, OK, ActionOf
<1>3. ASSUME q.entity = "user", q.method = "DELETE" PROVE Sound(s, p, q, usersDelete(p, q))
  BY <1>3 DEF usersDelete, Sound, Refuse, Run, Decided, Continue, OK, ActionOf
<1> QED
  BY <1>1, <1>2, <1>3

\* The handlers of groups, credentials and flags.
LEMMA OthersSound ==
    ASSUME NEW s, NEW p, NEW q, NEW existing
    PROVE  /\ q.entity = "group" => Sound(s, p, q, groupsPost(q))
           /\ q.entity = "group" => Sound(s, p, q, groupsPut(q, existing))
           /\ q.entity = "group" => Sound(s, p, q, groupsDelete(q))
           /\ q.entity = "flag" => Sound(s, p, q, flagsPost(q))
           /\ q.entity = "flag" => Sound(s, p, q, flagsPut(q, existing))
           /\ q.entity = "flag" => Sound(s, p, q, flagsDelete(q))
           /\ q.entity = "flag" => Sound(s, p, q, flagsForceDisable(existing))
           /\ q.entity = "applicationCredential" => Sound(s, p, q, credentialsPost(q))
           /\ q.entity = "applicationCredential" => Sound(s, p, q, credentialsPut(q, existing))
           /\ q.entity = "applicationCredential" => Sound(s, p, q, credentialsRotate(q, existing))
           /\ q.entity = "applicationCredential" => Sound(s, p, q, credentialsDelete(q))
<1> USE DEF Sound, Refuse, Run, Decided, Continue, OK, ActionOf
<1>1. ASSUME q.entity = "group"
      PROVE  /\ Sound(s, p, q, groupsPost(q))
             /\ Sound(s, p, q, groupsPut(q, existing))
             /\ Sound(s, p, q, groupsDelete(q))
  BY <1>1 DEF groupsPost, groupsPut, groupsDelete, GroupSet
<1>2. ASSUME q.entity = "flag"
      PROVE  /\ Sound(s, p, q, flagsPost(q))
             /\ Sound(s, p, q, flagsPut(q, existing))
             /\ Sound(s, p, q, flagsDelete(q))
             /\ Sound(s, p, q, flagsForceDisable(existing))
  BY <1>2 DEF flagsPost, flagsPut, flagsDelete, flagsForceDisable, FlagSet
<1>3. ASSUME q.entity = "applicationCredential"
      PROVE  /\ Sound(s, p, q, credentialsPost(q))
             /\ Sound(s, p, q, credentialsPut(q, existing))
             /\ Sound(s, p, q, credentialsRotate(q, existing))
             /\ Sound(s, p, q, credentialsDelete(q))
  BY <1>3 DEF credentialsPost, credentialsPut, credentialsRotate, credentialsDelete, CredentialSet
<1> QED
  BY <1>1, <1>2, <1>3

\* The handlers of environments: the next order is above those in use.
LEMMA EnvironmentsSound ==
    ASSUME NEW s, Orders(s), NEW p, NEW q, NEW existing, q.entity = "environment"
    PROVE  /\ Sound(s, p, q, environmentsPost(s, q))
           /\ q.method = "PUT" /\ existing.order \in Nat =>
                Sound(s, p, q, environmentsPut(q, existing))
           /\ q.method = "DELETE" => Sound(s, p, q, environmentsDelete(q))
<1> DEFINE orders == {s.environments[id].order : id \in DOMAIN s.environments}
           next == nextEnvironmentOrder(s)
<1>1. next \in Nat /\ \A k \in DOMAIN s.environments : s.environments[k].order < next
  <2>1. CASE orders = {}
    BY <2>1 DEF nextEnvironmentOrder
  <2>2. CASE orders # {}
    <3>1. \E highest \in orders : \A order \in orders : order <= highest
      <4>1. PICK b \in Nat : \A k \in DOMAIN s.environments : s.environments[k].order <= b
        BY DEF Orders
      <4>2. orders \subseteq Nat /\ \A order \in orders : order <= b
        BY <4>1 DEF Orders
      <4> HIDE DEF orders
      <4> QED
        BY <2>2, <4>2, GreatestExists
    <3> DEFINE highest == CHOOSE h \in orders : \A order \in orders : order <= h
    <3>2. highest \in orders /\ \A order \in orders : order <= highest
      BY <3>1
    <3>3. next = highest + 1
      BY <2>2 DEF nextEnvironmentOrder
    <3> HIDE DEF highest, next
    <3> QED
      BY <3>2, <3>3 DEF Orders
  <2> QED
    BY <2>1, <2>2
<1> HIDE DEF next
<1>2. Sound(s, p, q, environmentsPost(s, q))
  BY <1>1 DEF environmentsPost, EnvironmentSet, Sound, Run, Decided, Ordered, Continue, OK, ActionOf, next
<1>3. ASSUME q.method = "PUT", existing.order \in Nat
      PROVE  Sound(s, p, q, environmentsPut(q, existing))
  BY <1>3 DEF environmentsPut, EnvironmentSet, Sound, Run, Decided, Ordered, Continue, OK, ActionOf
<1>4. ASSUME q.method = "DELETE" PROVE Sound(s, p, q, environmentsDelete(q))
  BY <1>4 DEF environmentsDelete, Sound, Run, Decided, Continue, OK, ActionOf
<1> QED
  BY <1>2, <1>3, <1>4

\* The decision on a request on one of the routes.
LEMMA DecideSound ==
    ASSUME NEW s, Orders(s), NEW p, NEW q, NEW existing, ActionOf(q) \in Route,
           q.entity = "environment" /\ q.method # "POST" => existing.order \in Nat
    PROVE  Sound(s, p, q, Decide(s, p, q, existing))
<1>1. CASE q.entity = "user"
  <2>1. q.method \in {"POST", "PUT", "DELETE"}
    BY <1>1 DEF ActionOf, Route
  <2>2. CASE q.method = "POST"
    BY <1>1, <2>2, UsersSound DEF Decide, ActionOf
  <2>3. CASE q.method = "PUT"
    BY <1>1, <2>3, UsersSound DEF Decide, ActionOf
  <2>4. CASE q.method = "DELETE"
    BY <1>1, <2>4, UsersSound DEF Decide, ActionOf
  <2> QED
    BY <2>1, <2>2, <2>3, <2>4
<1>2. CASE q.entity = "group"
  <2>1. q.method \in {"POST", "PUT", "DELETE"}
    BY <1>2 DEF ActionOf, Route
  <2> QED
    BY <1>2, <2>1, OthersSound DEF Decide, ActionOf
<1>3. CASE q.entity = "environment"
  <2>1. q.method \in {"POST", "PUT", "DELETE"}
    BY <1>3 DEF ActionOf, Route
  <2> QED
    BY <1>3, <2>1, EnvironmentsSound DEF Decide, ActionOf
<1>4. CASE q.entity = "flag"
  <2>1. q.method \in {"POST", "PUT", "DELETE", "DISABLE"}
    BY <1>4 DEF ActionOf, Route
  <2> QED
    BY <1>4, <2>1, OthersSound DEF Decide, ActionOf
<1>5. CASE q.entity = "applicationCredential"
  <2>1. q.method \in {"POST", "PUT", "DELETE", "ROTATE"}
    BY <1>5 DEF ActionOf, Route
  <2> QED
    BY <1>5, <2>1, OthersSound DEF Decide, ActionOf
<1> QED
  BY <1>1, <1>2, <1>3, <1>4, <1>5 DEF ActionOf, Route

\* A client is told OK of accepted commands only.
LEMMA CodeOfErrors == \A err : CodeOf(err) = OK <=> err = OK
BY DEF CodeOf, OK

----------------------------------------------------------------------------
(* The set-up                                                              *)

\* An environment after a command is one from before, or the one it stores,
\* with the command's index as its version.
LEMMA EnvironmentsKept ==
    ASSUME NEW s, Shape(s), NEW i, NEW cmd,
           cmd.entity = "environment" /\ cmd.op = "set" => Ordered(cmd.environment)
    PROVE  LET t == Apply(s, i, cmd).state IN
           \A k \in DOMAIN t.environments :
               \/ k \in DOMAIN s.environments /\ t.environments[k] = s.environments[k]
               \/ /\ cmd.entity = "environment" /\ cmd.op = "set"
                  /\ t.environments[k].version = i
                  /\ t.environments[k].order = cmd.environment.order
<1> DEFINE t == Apply(s, i, cmd).state
<1>1. CASE cmd.entity # "environment"
  <2>1. t.environments = s.environments
    BY <1>1, ApplyFrame
  <2> QED
    BY <2>1
<1>2. CASE cmd.entity = "environment"
  <2>1. CASE t = s
    BY <2>1
  <2>2. CASE t = [s EXCEPT !.environments = Drop(s.environments, cmd.key)]
    <3>1. t.environments = Drop(s.environments, cmd.key)
      BY <2>2, Fields DEF Shape
    <3> QED
      BY <3>1 DEF Drop
  <2>3. CASE /\ cmd.op = "set"
             /\ t = [s EXCEPT !.environments = Put(s.environments, cmd.environment.id,
                                                   [cmd.environment EXCEPT !.version = i])]
    <3> DEFINE e == [cmd.environment EXCEPT !.version = i]
    <3>1. t.environments = Put(s.environments, cmd.environment.id, e)
      BY <2>3, Fields DEF Shape
    <3>2. e.version = i /\ e.order = cmd.environment.order
      BY <1>2, <2>3 DEF Ordered
    <3> HIDE DEF e
    <3> QED
      BY <1>2, <2>3, <3>1, <3>2 DEF Put
  <2> QED
    BY <1>2, <2>1, <2>2, <2>3, EnvironmentsApplied
<1> QED
  BY <1>1, <1>2

\* The orders stay natural numbers below a bound.
LEMMA OrdersKept ==
    ASSUME NEW s, Shape(s), Orders(s), NEW i, NEW cmd,
           cmd.entity = "environment" /\ cmd.op = "set" => Ordered(cmd.environment)
    PROVE  Orders(Apply(s, i, cmd).state)
<1> DEFINE t == Apply(s, i, cmd).state
<1>1. PICK b \in Nat : \A k \in DOMAIN s.environments : s.environments[k].order <= b
  BY DEF Orders
<1>2. \A k \in DOMAIN t.environments :
        \/ k \in DOMAIN s.environments /\ t.environments[k] = s.environments[k]
        \/ /\ cmd.entity = "environment" /\ cmd.op = "set"
           /\ t.environments[k].order = cmd.environment.order
  BY EnvironmentsKept
<1> HIDE DEF t
<1>3. \A k \in DOMAIN t.environments : t.environments[k].order \in Nat
  BY <1>2 DEF Orders, Ordered
<1>4. \E c \in Nat : \A k \in DOMAIN t.environments : t.environments[k].order <= c
  <2>1. CASE cmd.entity = "environment" /\ cmd.op = "set"
    <3> DEFINE c == b + cmd.environment.order
    <3>1. c \in Nat /\ cmd.environment.order \in Nat
      BY <2>1 DEF Ordered
    <3>2. \A k \in DOMAIN t.environments : t.environments[k].order <= c
      BY <1>1, <1>2, <1>3, <3>1 DEF Orders
    <3> QED
      BY <3>1, <3>2
  <2>2. CASE ~(cmd.entity = "environment" /\ cmd.op = "set")
    BY <1>1, <1>2, <2>2
  <2> QED
    BY <2>1, <2>2
<1> QED
  BY <1>3, <1>4 DEF Orders, t

\* at[i] is what the first i commands of the set-up lead to, for i up to n.
Setups(n, at) ==
    at = [i \in 0..n |-> IF i = 0 THEN newFSM ELSE Apply(at[i - 1], i, Setup[i]).state]

\* There is such a function for every n.
LEMMA SetupsExists == \A n \in Nat : \E at : Setups(n, at)
<1> DEFINE S == {n \in Nat : \E at : Setups(n, at)}
<1>1. 0 \in S
  <2> DEFINE at == [i \in 0..0 |-> newFSM]
  <2>1. Setups(0, at)
    BY DEF Setups
  <2> QED
    BY <2>1
<1>2. ASSUME NEW n \in Nat, n \in S PROVE n + 1 \in S
  <2>1. PICK at : Setups(n, at)
    BY <1>2
  <2> DEFINE next == [i \in 0..(n + 1) |-> IF i = n + 1 THEN Apply(at[n], i, Setup[i]).state
                                           ELSE at[i]]
             e(i) == IF i = 0 THEN newFSM ELSE Apply(next[i - 1], i, Setup[i]).state
  <2>2. ASSUME NEW i \in 0..(n + 1) PROVE next[i] = e(i)
    <3>1. CASE i = n + 1
      BY <3>1
    <3>2. CASE i \in 1..n
      <4>1. next[i] = at[i] /\ next[i - 1] = at[i - 1]
        BY <3>2
      <4> QED
        BY <2>1, <3>2, <4>1 DEF Setups
    <3>3. CASE i = 0
      BY <2>1, <3>3 DEF Setups
    <3> QED
      BY <3>1, <3>2, <3>3
  <2>3. next = [i \in 0..(n + 1) |-> e(i)]
    <3>1. next = [i \in 0..(n + 1) |-> next[i]]
      OBVIOUS
    <3> HIDE DEF next
    <3> QED
      BY <2>2, <3>1
  <2>4. Setups(n + 1, next)
    BY <2>3 DEF Setups
  <2> QED
    BY <2>4
<1> HIDE DEF S
<1>3. Nat \subseteq S
  BY <1>1, <1>2, SetInduction
<1> QED
  BY <1>3 DEF S

\* The set-up leads to maps with orders and with an empty trail.
LEMMA SetUpSound ==
    /\ Len(Setup) \in Nat
    /\ Shape(SetUp) /\ Orders(SetUp) /\ DOMAIN SetUp.auditEntries = {}
<1> DEFINE n == Len(Setup)
           at == CHOOSE f : Setups(n, f)
           Good(s) == Shape(s) /\ Orders(s) /\ DOMAIN s.auditEntries = {}
           S == {i \in Nat : i <= n => Good(at[i])}
<1>1. n \in Nat /\ DOMAIN Setup = 1..n
  BY SetupAssumption
<1>2. Setups(n, at)
  BY <1>1, SetupsExists
<1>3. SetUp = at[n]
  BY DEF SetUp, Setups
<1> HIDE DEF n, at
<1>4. 0 \in S
  <2>1. at[0] = newFSM
    BY <1>1, <1>2 DEF Setups
  <2>2. Shape(newFSM)
    BY DEF Shape, FsmFields, newFSM
  <2>3. DOMAIN newFSM.environments = {} /\ DOMAIN newFSM.auditEntries = {}
    BY DEF newFSM, EmptyMap
  <2> QED
    BY <2>1, <2>2, <2>3 DEF Orders
<1>5. ASSUME NEW i \in Nat, i \in S PROVE i + 1 \in S
  <2>1. SUFFICES ASSUME i + 1 <= n PROVE Good(at[i + 1])
    OBVIOUS
  <2>2. Good(at[i])
    BY <1>1, <1>5, <2>1
  <2>3. at[i + 1] = Apply(at[i], i + 1, Setup[i + 1]).state
    BY <1>1, <1>2, <2>1 DEF Setups
  <2>4. /\ Setup[i + 1].entity # "audit"
        /\ Setup[i + 1].entity = "environment" /\ Setup[i + 1].op = "set"
              => Ordered(Setup[i + 1].environment)
    BY <1>1, <2>1, SetupAssumption DEF Ordered
  <2> QED
    BY <2>2, <2>3, <2>4, ApplyFrame, OrdersKept
<1> HIDE DEF S
<1>6. Nat \subseteq S
  BY <1>4, <1>5, SetInduction
<1>7. Good(at[n])
  BY <1>1, <1>6 DEF S
<1> QED
  BY <1>1, <1>3, <1>7 DEF n

----------------------------------------------------------------------------
(* The invariant holds initially and is kept by every step                 *)

LEMMA InitIInv == Init => IInv
<1>1. SUFFICES ASSUME Init PROVE IInv
  OBVIOUS
<1> USE SetUpSound DEF Init
<1>2. DOMAIN accepted = {} /\ DOMAIN answers = {}
  BY <1>1 DEF EmptyMap
<1>3. \A h \in Handler : req[h] = Idle
  BY <1>1
<1>4. MapsInv
  BY <1>1 DEF MapsInv
<1>5. TrailInv
  BY <1>1 DEF TrailInv
<1>6. HistoryInv
  BY <1>2 DEF HistoryInv, AuditedBeforeAnswer
<1>7. RequestInv
  BY <1>1, <1>3 DEF RequestInv
<1>8. ToldInv
  BY <1>2 DEF ToldInv
<1> QED
  BY <1>4, <1>5, <1>6, <1>7, <1>8 DEF IInv

\* From s to t nothing is written that concerns a request with this number:
\* other entries are appended, environments kept or stored at the next index.
Apart(number, s, i, t) ==
    /\ \A id \in DOMAIN t.auditEntries :
         \/ id \in DOMAIN s.auditEntries /\ t.auditEntries[id] = s.auditEntries[id]
         \/ t.auditEntries[id].request # number
    /\ \A k \in DOMAIN t.environments :
         \/ k \in DOMAIN s.environments /\ t.environments[k] = s.environments[k]
         \/ t.environments[k].version = i + 1

\* So the request goes on being served.
LEMMA ServedCarried ==
    ASSUME NEW r, NEW s, NEW i \in Nat, NEW n \in Nat, NEW f \in Nat, NEW a, Served(r, s, i, n, f, a),
           NEW t, NEW j \in Nat, NEW m \in Nat, NEW g \in Nat, NEW b, i <= j, n <= m, f <= g,
           Apart(r.q.number, s, i, t),
           r.q.number \in DOMAIN b <=> r.q.number \in DOMAIN a
    PROVE  Served(r, t, j, m, g, b)
<1> USE DEF Served, Apart
<1>1. /\ r.q.number \in 1..m /\ r.since \in Nat /\ r.since <= j
      /\ g = 0 => f = 0
  OBVIOUS
<1>2. \A id \in DOMAIN t.auditEntries : t.auditEntries[id].request # r.q.number
  OBVIOUS
<1>3. \A k \in DOMAIN t.environments : t.environments[k].version <= r.since =>
          k \in DOMAIN s.environments /\ t.environments[k] = s.environments[k]
  OBVIOUS
<1> QED
  BY <1>1, <1>2, <1>3

\* A request being served is not Idle.
LEMMA NotIdle ==
    ASSUME NEW r, r.step # "idle" PROVE r # Idle
BY DEF Idle

\* A handler goes on with its request, as r, and nothing else changes.
LEMMA ReadStep ==
    ASSUME IInv, NEW h \in Handler, NEW r, Reading, UNCHANGED answers, Move(h, r),
           req[h] # Idle, r.q = req[h].q, Served(r, fsm, index, requests, faults, accepted)
    PROVE  IInv'
<1> USE DEF IInv, Reading
<1>1. MapsInv' /\ TrailInv'
  BY DEF MapsInv, TrailInv
<1>2. HistoryInv'
  BY DEF HistoryInv, AuditedBeforeAnswer, Entries
<1>3. /\ req' = [g \in Handler |-> IF g = h THEN r ELSE req[g]]
      /\ r # Idle
  BY NotIdle DEF Move, RequestInv, Served
<1>4. RequestInv'
  BY <1>3 DEF RequestInv
<1>5. InFlight' = InFlight
  BY <1>3 DEF InFlight
<1>6. ToldInv'
  BY <1>5 DEF ToldInv
<1> QED
  BY <1>1, <1>2, <1>4, <1>6

\* A handler turns its request away, before it reached the handler proper.
LEMMA DenyStep ==
    ASSUME IInv, NEW h \in Handler, NEW code, Reading, Respond(h, FALSE, code), req[h] # Idle, req[h].step # "audit"
    PROVE  IInv'
<1> USE DEF IInv, Reading
<1>1. MapsInv' /\ TrailInv'
  BY DEF MapsInv, TrailInv
<1>2. /\ req' = [g \in Handler |-> IF g = h THEN Idle ELSE req[g]]
      /\ answers' = Put(answers, req[h].q.number, [letIn |-> FALSE, code |-> code])
  BY DEF Respond, Move, RequestInv
<1>3. /\ req[h].q.number \in 1..requests /\ req[h].q.number \notin DOMAIN accepted
  BY DEF RequestInv, Served
<1>4. HistoryInv'
  <2>1. /\ DOMAIN answers' = DOMAIN answers \cup {req[h].q.number}
        /\ \A number \in DOMAIN answers' :
             \/ number \in DOMAIN answers /\ answers'[number] = answers[number]
             \/ answers'[number].letIn = FALSE
    BY <1>2 DEF Put
  <2>2. AuditedBeforeAnswer'
    BY <2>1 DEF HistoryInv, AuditedBeforeAnswer, Entries
  <2> QED
    BY <1>3, <2>1, <2>2 DEF HistoryInv
<1>5. RequestInv'
  BY <1>2 DEF RequestInv
<1>6. \A number \in InFlight : number \in InFlight' \/ number = req[h].q.number
  BY <1>2 DEF InFlight
<1>7. ToldInv'
  BY <1>3, <1>6 DEF ToldInv
<1> QED
  BY <1>1, <1>4, <1>5, <1>7

\* A request arrives, with a number of its own.
LEMMA ArriveStep ==
    ASSUME IInv, NEW h \in Handler, Arrive(h)
    PROVE  IInv'
<1> USE DEF IInv, Arrive, history
<1>1. PICK request \in Request, subject \in Subject :
        Move(h, Serving([request EXCEPT !.number = requests'], subject))
  OBVIOUS
<1> DEFINE q == [request EXCEPT !.number = requests']
           r == Serving(q, subject)
<1>2. requests' = requests + 1 /\ requests \in Nat /\ index \in Nat /\ faults \in Nat
  BY DEF MapsInv
<1>3. /\ q.number = requests' /\ ActionOf(q) \in Route
  BY RequestAssumption DEF ActionOf
<1> HIDE DEF q
<1>4. /\ r.step = "authenticate" /\ r.q = q /\ r.since = index /\ IsServing(r)
  BY DEF Serving, IsServing
<1> HIDE DEF r
<1>5. Served(r, fsm, index, requests', faults, accepted)
  <2>1. \A id \in DOMAIN fsm.auditEntries : fsm.auditEntries[id].request # requests'
    BY <1>2 DEF TrailInv
  <2>2. requests' \notin DOMAIN accepted
    BY <1>2 DEF HistoryInv
  <2> QED
    BY <1>2, <1>3, <1>4, <2>1, <2>2 DEF Served
<1>6. req' = [g \in Handler |-> IF g = h THEN r ELSE req[g]] /\ r # Idle
  BY <1>1, <1>4, NotIdle DEF Move, RequestInv, r, q
<1>7. MapsInv' /\ TrailInv'
  BY <1>2 DEF MapsInv, TrailInv
<1>8. HistoryInv'
  BY <1>2 DEF HistoryInv, AuditedBeforeAnswer, Entries
<1>9. RequestInv'
  <2>1. ASSUME NEW g \in Handler, g # h, req[g] # Idle
        PROVE  /\ Served(req[g], fsm, index, requests', faults, accepted)
               /\ req[g].q.number # r.q.number
    <3>1. Served(req[g], fsm, index, requests, faults, accepted)
      BY <2>1 DEF RequestInv
    <3>2. Served(req[g], fsm, index, requests', faults, accepted)
      <4>1. Apart(req[g].q.number, fsm, index, fsm)
        BY DEF Apart
      <4> QED
        BY <1>2, <3>1, <4>1, ServedCarried
    <3>3. req[g].q.number \in 1..requests
      BY <3>1 DEF Served
    <3> QED
      BY <1>2, <1>3, <1>4, <3>2, <3>3
  <2> QED
    BY <1>5, <1>6, <2>1 DEF RequestInv
<1>10. ToldInv'
  <2>1. req[h] = Idle
    BY DEF RequestInv, Served, Step
  <2>2. InFlight \subseteq InFlight'
    BY <1>6, <2>1 DEF InFlight
  <2> QED
    BY <2>2 DEF ToldInv
<1> QED
  BY <1>7, <1>8, <1>9, <1>10

\* The outcome of a request being served is noted.
LEMMA Noted ==
    ASSUME NEW r, IsServing(r), NEW code
    PROVE  LET s == [r EXCEPT !.step = "audit", !.code = code] IN
           /\ IsServing(s) /\ s.step = "audit" /\ s.code = code
           /\ s.q = r.q /\ s.since = r.since
BY DEF IsServing

\* A request whose command was submitted goes on to be audited with code: OK
\* if the command was accepted, and when nothing failed only then.
LEMMA SubmitStep ==
    ASSUME IInv, NEW h \in Handler, NEW code, Step(h, "submit"), ToAudit(h, code),
           UNCHANGED <<requests, answers>>, faults' \in {faults, faults + 1},
           Applied(h) \/ UNCHANGED <<fsm, index, accepted>>,
           code = OK => Applied(h) /\ Apply(fsm, index + 1, req[h].cmd).err = OK,
           Applied(h) /\ Apply(fsm, index + 1, req[h].cmd).err = OK =>
               code = OK \/ faults' # faults
    PROVE  IInv'
<1> USE DEF IInv
<1> DEFINE r == req[h]
           N == r.q.number
           err == Apply(fsm, index + 1, r.cmd).err
           s == [r EXCEPT !.step = "audit", !.code = code]
<1>1. /\ r.step = "submit" /\ r # Idle
      /\ Served(r, fsm, index, requests, faults, accepted)
  BY NotIdle DEF Step, RequestInv, Idle
<1>2. /\ IsServing(r) /\ N \in 1..requests /\ N \notin DOMAIN accepted
      /\ Decided(r.q, r.p, r.cmd)
      /\ \A id \in DOMAIN fsm.auditEntries : fsm.auditEntries[id].request # N
  BY <1>1 DEF Served
<1>3. /\ index \in Nat /\ requests \in Nat /\ faults \in Nat
      /\ requests' = requests /\ answers' = answers
      /\ faults' \in Nat /\ faults <= faults' /\ (faults' = 0 => faults' = faults)
      /\ index' \in Nat /\ index <= index'
  BY DEF MapsInv, Applied
<1>4. /\ req' = [g \in Handler |-> IF g = h THEN s ELSE req[g]]
      /\ IsServing(s) /\ s.q = r.q /\ s.step = "audit" /\ s.code = code /\ s.since = r.since
      /\ s # Idle
  <2>1. IsServing(s) /\ s.q = r.q /\ s.step = "audit" /\ s.code = code /\ s.since = r.since
    <3>1. IsServing(r)
      BY <1>2
    <3> QED
      BY <3>1, Noted, Zenon
  <2>2. Move(h, s)
    BY DEF ToAudit
  <2> HIDE DEF s
  <2> QED
    BY <2>1, <2>2, NotIdle DEF Move, RequestInv
<1> HIDE DEF s
<1>5. /\ Shape(fsm') /\ Orders(fsm') /\ fsm'.auditEntries = fsm.auditEntries
      /\ \A k \in DOMAIN fsm'.environments :
           \/ k \in DOMAIN fsm.environments /\ fsm'.environments[k] = fsm.environments[k]
           \/ fsm'.environments[k].version = index + 1
  <2>1. CASE Applied(h)
    <3>1. fsm' = Apply(fsm, index + 1, r.cmd).state
      BY <2>1 DEF Applied
    <3> QED
      BY <1>2, <3>1, ApplyFrame, OrdersKept, EnvironmentsKept DEF MapsInv, Decided
  <2>2. CASE UNCHANGED fsm
    BY <2>2 DEF MapsInv
  <2> QED
    BY <2>1, <2>2
<1>6. /\ \A number \in DOMAIN accepted' :
           \/ number \in DOMAIN accepted /\ accepted'[number] = accepted[number]
           \/ number = N /\ accepted'[number] = index' /\ index' = index + 1
      /\ \A number \in DOMAIN accepted :
           number \in DOMAIN accepted' /\ accepted'[number] = accepted[number]
      /\ N \in DOMAIN accepted' => Applied(h) /\ err = OK
      /\ Applied(h) /\ err = OK => N \in DOMAIN accepted'
  <2>1. CASE Applied(h)
    BY <1>2, <2>1 DEF Applied, Put
  <2>2. CASE UNCHANGED accepted /\ ~Applied(h)
    BY <1>2, <2>2
  <2> QED
    BY <2>1, <2>2
<1>7. MapsInv'
  BY <1>3, <1>5 DEF MapsInv
<1>8. TrailInv'
  BY <1>2, <1>3, <1>5, <1>6 DEF TrailInv
<1>9. HistoryInv'
  <2>1. \A number \in DOMAIN accepted' : number \in 1..requests /\ accepted'[number] \in 1..index'
    BY <1>2, <1>3, <1>6 DEF HistoryInv
  <2>2. AuditedBeforeAnswer'
    BY <1>3, <1>5 DEF HistoryInv, AuditedBeforeAnswer, Entries
  <2> QED
    BY <1>3, <2>1, <2>2 DEF HistoryInv
<1>10. Served(s, fsm', index', requests', faults', accepted')
  <2>1. code = OK => N \in DOMAIN accepted'
    BY <1>6
  <2>2. faults' = 0 /\ N \in DOMAIN accepted' => code = OK
    BY <1>3, <1>6
  <2> QED
    BY <1>1, <1>2, <1>3, <1>4, <1>5, <2>1, <2>2 DEF Served
<1>11. RequestInv'
  <2>1. ASSUME NEW g \in Handler, g # h, req[g] # Idle
        PROVE  /\ Served(req[g], fsm', index', requests', faults', accepted')
               /\ req[g].q.number # N
    <3>1. Served(req[g], fsm, index, requests, faults, accepted) /\ req[g].q.number # N
      BY <1>1, <2>1 DEF RequestInv
    <3>2. req[g].q.number \in DOMAIN accepted' <=> req[g].q.number \in DOMAIN accepted
      BY <1>6, <3>1
    <3>3. Apart(req[g].q.number, fsm, index, fsm')
      BY <1>5 DEF Apart
    <3> QED
      BY <1>3, <3>1, <3>2, <3>3, ServedCarried
  <2> QED
    BY <1>4, <1>10, <2>1 DEF RequestInv
<1>12. ToldInv'
  <2>1. InFlight' = InFlight
    BY <1>1, <1>4 DEF InFlight
  <2>2. N \in InFlight
    BY <1>1 DEF InFlight
  <2>3. faults' = 0 => faults = 0
    BY <1>3
  <2> QED
    BY <1>5, <1>6, <2>1, <2>2, <2>3 DEF ToldInv
<1> QED
  BY <1>7, <1>8, <1>9, <1>11, <1>12

\* The client is answered with code: the one of the entry appended, or of the
\* failure to append it.
LEMMA AuditStep ==
    ASSUME IInv, NEW h \in Handler, NEW code, Step(h, "audit"), Respond(h, TRUE, code),
           UNCHANGED <<requests, accepted>>,
           AppendEntry(EntryFor(req[h])) \/ UNCHANGED <<fsm, index>>,
           \/ AppendEntry(EntryFor(req[h])) /\ code = req[h].code /\ faults' = faults
           \/ code = "InternalAuditFailed" /\ faults' = faults + 1
    PROVE  IInv'
<1> USE DEF IInv
<1> DEFINE r == req[h]
           N == r.q.number
           e == [EntryFor(r) EXCEPT !.id = index + 1]
<1>1. r.step = "audit" /\ r # Idle /\ Served(r, fsm, index, requests, faults, accepted)
  BY NotIdle DEF Step, RequestInv, Idle
<1>2. /\ N \in 1..requests
      /\ \A id \in DOMAIN fsm.auditEntries : fsm.auditEntries[id].request # N
      /\ r.code = OK => N \in DOMAIN accepted
      /\ faults = 0 /\ N \in DOMAIN accepted => r.code = OK
  BY <1>1 DEF Served
<1>3. /\ index \in Nat /\ requests \in Nat /\ faults \in Nat
      /\ requests' = requests /\ accepted' = accepted
      /\ faults' \in Nat /\ faults <= faults' /\ (faults' = 0 => faults = 0)
      /\ index' \in Nat /\ index <= index' /\ index' <= index + 1
      /\ req' = [g \in Handler |-> IF g = h THEN Idle ELSE req[g]]
      /\ answers' = Put(answers, N, [letIn |-> TRUE, code |-> code])
  BY DEF MapsInv, RequestInv, Respond, Move, AppendEntry
<1>4. /\ e.id = index + 1 /\ e.request = N /\ (e.success <=> r.code = OK) /\ e.code = r.code
  BY DEF EntryFor
<1> HIDE DEF e
<1>5. /\ Shape(fsm') /\ fsm'.environments = fsm.environments
      /\ \/ fsm'.auditEntries = fsm.auditEntries /\ ~AppendEntry(EntryFor(r))
         \/ fsm'.auditEntries = Put(fsm.auditEntries, index + 1, e) /\ index' = index + 1
  <2>1. CASE AppendEntry(EntryFor(r))
    <3> DEFINE cmd == [entity |-> "audit", op |-> "append", audit |-> EntryFor(r)]
    <3>1. fsm' = Apply(fsm, index + 1, cmd).state /\ index' = index + 1
      BY <2>1 DEF AppendEntry
    <3>2. Shape(fsm)
      BY DEF MapsInv
    <3>3. Shape(fsm') /\ fsm'.environments = fsm.environments
      BY <3>1, <3>2, ApplyFrame
    <3>4. fsm'.auditEntries = Put(fsm.auditEntries, index + 1, e)
      BY <3>1, <3>2, EntryApplied DEF e
    <3> QED
      BY <3>1, <3>3, <3>4
  <2>2. CASE UNCHANGED fsm /\ ~AppendEntry(EntryFor(r))
    BY <2>2 DEF MapsInv
  <2> QED
    BY <2>1, <2>2
<1>6. /\ index + 1 \notin DOMAIN fsm.auditEntries
      /\ \A id \in DOMAIN fsm'.auditEntries :
           \/ id \in DOMAIN fsm.auditEntries /\ fsm'.auditEntries[id] = fsm.auditEntries[id]
           \/ id = index' /\ index' = index + 1 /\ fsm'.auditEntries[id] = e
      /\ \A id \in DOMAIN fsm.auditEntries :
           id \in DOMAIN fsm'.auditEntries /\ fsm'.auditEntries[id] = fsm.auditEntries[id]
      /\ AppendEntry(EntryFor(r)) =>
           index' \in DOMAIN fsm'.auditEntries /\ fsm'.auditEntries[index'] = e
  <2>1. index + 1 \notin DOMAIN fsm.auditEntries
    BY <1>3 DEF TrailInv
  <2> QED
    BY <1>5, <2>1 DEF Put
<1>7. MapsInv'
  BY <1>3, <1>5 DEF MapsInv, Orders
<1>8. TrailInv'
  <2>1. ASSUME NEW id \in DOMAIN fsm'.auditEntries
        PROVE  LET entry == fsm'.auditEntries[id] IN
               /\ id \in 1..index' /\ entry.id = id /\ entry.request \in 1..requests
               /\ entry.success =>
                    entry.request \in DOMAIN accepted /\ accepted[entry.request] < id
    <3>1. CASE id \in DOMAIN fsm.auditEntries /\ fsm'.auditEntries[id] = fsm.auditEntries[id]
      BY <1>3, <3>1 DEF TrailInv
    <3>2. CASE id = index' /\ index' = index + 1 /\ fsm'.auditEntries[id] = e
      BY <1>2, <1>3, <1>4, <3>2 DEF HistoryInv
    <3> QED
      BY <1>6, <3>1, <3>2
  <2>2. \A i, j \in DOMAIN fsm'.auditEntries :
          fsm'.auditEntries[i].request = fsm'.auditEntries[j].request => i = j
    BY <1>2, <1>4, <1>6 DEF TrailInv
  <2> QED
    BY <1>3, <2>1, <2>2 DEF TrailInv
<1>9. HistoryInv'
  <2>1. /\ DOMAIN answers' = DOMAIN answers \cup {N}
        /\ \A number \in DOMAIN answers' :
             \/ number \in DOMAIN answers /\ answers'[number] = answers[number]
             \/ number = N /\ answers'[number].code = code
    BY <1>3 DEF Put
  <2>2. Entries \subseteq Entries'
    BY <1>6 DEF Entries
  <2>3. \/ code = "InternalAuditFailed"
        \/ e \in Entries' /\ code = e.code
    BY <1>4, <1>6 DEF Entries
  <2>4. AuditedBeforeAnswer'
    BY <1>4, <2>1, <2>2, <2>3 DEF HistoryInv, AuditedBeforeAnswer
  <2>5. \A number \in DOMAIN accepted' : accepted'[number] \in 1..index'
    BY <1>3 DEF HistoryInv
  <2> QED
    BY <1>2, <1>3, <2>1, <2>4, <2>5 DEF HistoryInv
<1>10. RequestInv'
  <2>1. ASSUME NEW g \in Handler, g # h, req[g] # Idle
        PROVE  Served(req[g], fsm', index', requests', faults', accepted')
    <3>1. Served(req[g], fsm, index, requests, faults, accepted) /\ req[g].q.number # N
      BY <1>1, <2>1 DEF RequestInv
    <3>2. Apart(req[g].q.number, fsm, index, fsm')
      BY <1>4, <1>5, <1>6, <3>1 DEF Apart
    <3> QED
      BY <1>3, <3>1, <3>2, ServedCarried
  <2> QED
    BY <1>3, <2>1 DEF RequestInv
<1>11. ToldInv'
  <2>1. \A number \in InFlight : number \in InFlight' \/ number = N
    BY <1>3 DEF InFlight
  <2>2. ASSUME faults' = 0, NEW number \in DOMAIN accepted \ InFlight'
        PROVE  \E id \in DOMAIN fsm'.auditEntries :
                   fsm'.auditEntries[id].request = number /\ fsm'.auditEntries[id].success
    <3>1. CASE number = N
      BY <1>2, <1>3, <1>4, <1>6, <2>2, <3>1
    <3>2. CASE number # N
      BY <1>3, <1>6, <2>1, <2>2, <3>2 DEF ToldInv
    <3> QED
      BY <3>1, <3>2
  <2> QED
    BY <1>3, <2>2 DEF ToldInv
<1> QED
  BY <1>7, <1>8, <1>9, <1>10, <1>11

\* A crash ends every request and keeps the log.
LEMMA CrashStep ==
    ASSUME IInv, Crash
    PROVE  IInv'
<1> USE DEF IInv, Crash, history
<1>1. faults' = faults + 1 /\ faults \in Nat
  BY DEF MapsInv
<1>2. MapsInv' /\ TrailInv'
  BY <1>1 DEF MapsInv, TrailInv
<1>3. HistoryInv'
  BY DEF HistoryInv, AuditedBeforeAnswer, Entries
<1>4. RequestInv'
  BY DEF RequestInv
<1>5. ToldInv'
  BY <1>1 DEF ToldInv
<1> QED
  BY <1>2, <1>3, <1>4, <1>5

\* A handler goes on with its request to a step that is not beyond what it
\* knows: to be audited with an error, to decide on what it has read, or to
\* submit what it has decided.
LEMMA OnwardStep ==
    ASSUME IInv, NEW h \in Handler, NEW r, Reading, UNCHANGED answers, Move(h, r),
           req[h] # Idle, req[h].step # "audit",
           IsServing(r), r.q = req[h].q, r.since = req[h].since,
           \/ r.step \in {"groups", "before", "existing"}
           \/ r.step = "audit" /\ r.code # OK
           \/ /\ r.step = "decide"
              /\ r.q.entity = "environment" /\ r.q.method # "POST" => r.existing.order \in Nat
           \/ /\ r.step \in {"lookup", "precheck", "submit"}
              /\ Decided(r.q, r.p, r.cmd)
              /\ ActionOf(r.q) = <<"environment", "POST">> =>
                   \A k \in DOMAIN fsm.environments :
                       fsm.environments[k].version <= r.since =>
                           fsm.environments[k].order < r.cmd.environment.order
    PROVE  IInv'
<1>1. Served(req[h], fsm, index, requests, faults, accepted)
  BY DEF IInv, RequestInv
<1>2. Served(r, fsm, index, requests, faults, accepted)
  BY <1>1 DEF Served
<1> QED
  BY <1>2, ReadStep

\* The principal is resolved a step further: the request is let in, turned
\* away, or has groups left to read.
LEMMA GateStep ==
    ASSUME IInv, NEW h \in Handler, NEW p, NEW groupIDs, Reading, Gate(h, p, groupIDs),
           req[h] # Idle, req[h].step \in {"authenticate", "groups"}
    PROVE  IInv'
<1> DEFINE r == req[h]
           method == r.q.method
           asked == [r EXCEPT !.step = "groups", !.p = p, !.groupIDs = groupIDs]
           let == [r EXCEPT !.p = p, !.groupIDs = {}, !.step = Entry(r.q)]
<1>1. IsServing(r)
  BY DEF IInv, RequestInv, Served
<1>2. CASE groupIDs # {} /\ ~p.isAdmin
  <2>1. Move(h, asked) /\ UNCHANGED answers
    BY <1>2 DEF Gate
  <2>2. IsServing(asked) /\ asked.step = "groups" /\ asked.q = r.q /\ asked.since = r.since
    BY <1>1 DEF IsServing
  <2> HIDE DEF asked
  <2> QED
    BY <2>1, <2>2, OnwardStep
<1>3. CASE ~(groupIDs # {} /\ ~p.isAdmin) /\ ~Permitted(p, r.q)
  <2>1. Respond(h, FALSE, "AuthForbidden")
    BY <1>3 DEF Gate
  <2> QED
    BY <2>1, DenyStep
<1>4. CASE ~(groupIDs # {} /\ ~p.isAdmin) /\ Permitted(p, r.q)
  <2>1. Move(h, let) /\ UNCHANGED answers
    BY <1>4 DEF Gate
  <2>2. /\ IsServing(let) /\ let.q = r.q /\ let.since = r.since
        /\ let.step = IF method = "POST" THEN "decide" ELSE "before"
    BY <1>1 DEF IsServing, Entry
  <2> HIDE DEF let
  <2> QED
    BY <2>1, <2>2, OnwardStep
<1> QED
  BY <1>2, <1>3, <1>4

LEMMA ReadSubjectStep ==
    ASSUME IInv, NEW h \in Handler, ReadSubject(h)
    PROVE  IInv'
<1> DEFINE read == Authenticate(fsm, req[h].subject)
<1>1. req[h].step = "authenticate" /\ req[h] # Idle /\ Reading
  BY NotIdle DEF ReadSubject, Step, Idle
<1>2. CASE read.code = Continue
  <2>1. Gate(h, read.principal, read.groupIDs)
    BY <1>2 DEF ReadSubject
  <2> HIDE DEF read
  <2> QED
    BY <1>1, <2>1, GateStep
<1>3. CASE read.code # Continue
  <2>1. Respond(h, FALSE, read.code)
    BY <1>3 DEF ReadSubject
  <2> HIDE DEF read
  <2> QED
    BY <1>1, <2>1, DenyStep
<1> QED
  BY <1>2, <1>3

LEMMA ReadGroupStep ==
    ASSUME IInv, NEW h \in Handler, ReadGroup(h)
    PROVE  IInv'
<1>1. req[h].step = "groups" /\ req[h] # Idle /\ Reading
  BY NotIdle DEF ReadGroup, Step, Idle
<1>2. PICK groupID \in req[h].groupIDs :
        Gate(h, WithGroup(fsm, req[h].p, groupID), req[h].groupIDs \ {groupID})
  BY DEF ReadGroup
<1> QED
  BY <1>1, <1>2, GateStep

LEMMA ReadBeforeStep ==
    ASSUME IInv, NEW h \in Handler, ReadBefore(h)
    PROVE  IInv'
<1> DEFINE r == req[h]
           before == Before(fsm, r.q)
           s == [r EXCEPT !.step = "existing", !.before = before]
<1>1. r.step = "before" /\ r # Idle /\ Reading /\ UNCHANGED answers /\ Move(h, s)
  BY NotIdle DEF ReadBefore, Step, Idle
<1>2. IsServing(r)
  BY <1>1 DEF IInv, RequestInv, Served
<1> HIDE DEF before
<1>3. IsServing(s) /\ s.step = "existing" /\ s.q = r.q /\ s.since = r.since
  BY <1>2 DEF IsServing
<1> HIDE DEF s
<1> QED
  BY <1>1, <1>3, OnwardStep

\* An environment read has an order.
LEMMA ExistingSound ==
    ASSUME NEW s, Orders(s), NEW p, NEW q
    PROVE  /\ Existing(s, p, q).code # OK
           /\ /\ Existing(s, p, q).code = Continue
              /\ q.entity = "environment" /\ q.method # "POST"
              => Existing(s, p, q).existing.order \in Nat
<1>1. Existing(s, p, q).code # OK
  BY DEF Existing, Continue, OK
<1>2. ASSUME Existing(s, p, q).code = Continue, q.entity = "environment", q.method # "POST"
      PROVE  Existing(s, p, q).existing.order \in Nat
  <2>1. Existing(s, p, q).existing = Lookup(s, q) /\ Lookup(s, q) # NoRecord
    BY <1>2 DEF Existing, Continue
  <2>2. RecordsOf(s, q) = s.environments
    BY <1>2 DEF RecordsOf
  <2>3. \E k \in DOMAIN s.environments : Lookup(s, q) = s.environments[k]
    BY <2>1, <2>2 DEF Lookup
  <2> QED
    BY <2>1, <2>3 DEF Orders
<1> QED
  BY <1>1, <1>2

\* A request ends up in audit with an error.
LEMMA RefusedStep ==
    ASSUME IInv, NEW h \in Handler, NEW code, code # OK, Reading, UNCHANGED answers,
           ToAudit(h, code), req[h] # Idle, req[h].step # "audit"
    PROVE  IInv'
<1> DEFINE s == [req[h] EXCEPT !.step = "audit", !.code = code]
<1>1. IsServing(req[h])
  BY DEF IInv, RequestInv, Served
<1>2. /\ IsServing(s) /\ s.step = "audit" /\ s.code = code
      /\ s.q = req[h].q /\ s.since = req[h].since
  BY <1>1, Noted, Zenon
<1>3. Move(h, s)
  BY DEF ToAudit
<1> HIDE DEF s
<1> QED
  BY <1>2, <1>3, OnwardStep

LEMMA ReadExistingStep ==
    ASSUME IInv, NEW h \in Handler, ReadExisting(h)
    PROVE  IInv'
<1> DEFINE r == req[h]
           read == Existing(fsm, r.p, r.q)
           s == [r EXCEPT !.step = "decide", !.existing = read.existing]
<1>1. r.step = "existing" /\ r # Idle /\ Reading /\ UNCHANGED answers
  BY NotIdle DEF ReadExisting, Step, Idle
<1>2. IsServing(r) /\ Orders(fsm)
  BY <1>1 DEF IInv, MapsInv, RequestInv, Served
<1>3. /\ read.code # OK
      /\ read.code = Continue /\ r.q.entity = "environment" /\ r.q.method # "POST"
           => read.existing.order \in Nat
  BY <1>2, ExistingSound
<1>4. CASE read.code = Continue
  <2>1. Move(h, s)
    BY <1>4 DEF ReadExisting
  <2> HIDE DEF read
  <2>2. /\ IsServing(s) /\ s.step = "decide" /\ s.q = r.q /\ s.since = r.since
        /\ s.existing = read.existing
    BY <1>2 DEF IsServing
  <2> HIDE DEF s
  <2> QED
    BY <1>1, <1>3, <1>4, <2>1, <2>2, OnwardStep
<1>5. CASE read.code # Continue
  <2>1. ToAudit(h, read.code)
    BY <1>5 DEF ReadExisting
  <2> HIDE DEF read
  <2> QED
    BY <1>1, <1>3, <2>1, RefusedStep
<1> QED
  BY <1>4, <1>5

\* The handler does not run.
LEMMA BodyUnreadableStep ==
    ASSUME IInv, NEW h \in Handler, BodyUnreadable(h)
    PROVE  IInv'
<1>1. /\ req[h] # Idle /\ req[h].step # "audit" /\ Reading /\ UNCHANGED answers
      /\ \E code \in {"PayloadTooLarge", "BadRequestBody"} : ToAudit(h, code)
  BY DEF BodyUnreadable, Step, Entry
<1>2. PICK code : ToAudit(h, code) /\ code # OK
  BY <1>1 DEF OK
<1> QED
  BY <1>1, <1>2, RefusedStep

\* A request goes on with a command that its handler may submit, to look up
\* what the command names or to submit it.
LEMMA WriteStep ==
    ASSUME IInv, NEW h \in Handler, NEW cmd, NEW ids, Reading, UNCHANGED answers,
           ToWrite(h, cmd, ids), req[h] # Idle, req[h].step # "audit",
           Decided(req[h].q, req[h].p, cmd),
           ActionOf(req[h].q) = <<"environment", "POST">> =>
             \A k \in DOMAIN fsm.environments :
                 fsm.environments[k].version <= req[h].since =>
                     fsm.environments[k].order < cmd.environment.order
    PROVE  IInv'
<1> DEFINE r == req[h]
           s == [r EXCEPT !.cmd = cmd, !.ids = ids,
                          !.step = IF ids = {} THEN "precheck" ELSE "lookup"]
<1>1. IsServing(r)
  BY DEF IInv, RequestInv, Served
<1>2. Move(h, s)
  BY DEF ToWrite
<1>3. /\ IsServing(s) /\ s.step \in {"lookup", "precheck"} /\ s.q = r.q /\ s.p = r.p
      /\ s.since = r.since /\ s.cmd = cmd
  BY <1>1 DEF IsServing
<1> HIDE DEF s
<1> QED
  BY <1>2, <1>3, OnwardStep

LEMMA DecideWriteStep ==
    ASSUME IInv, NEW h \in Handler, DecideWrite(h)
    PROVE  IInv'
<1> DEFINE r == req[h]
           decision == Decide(fsm, r.p, r.q, r.existing)
<1>1. r.step = "decide" /\ r # Idle /\ Reading /\ UNCHANGED answers
  BY NotIdle DEF DecideWrite, Step, Idle
<1>2. Sound(fsm, r.p, r.q, decision)
  <2>1. Served(r, fsm, index, requests, faults, accepted) /\ Orders(fsm)
    BY <1>1 DEF IInv, MapsInv, RequestInv
  <2>2. /\ ActionOf(r.q) \in Route
        /\ r.q.entity = "environment" /\ r.q.method # "POST" => r.existing.order \in Nat
    BY <1>1, <2>1 DEF Served
  <2> QED
    BY <2>1, <2>2, DecideSound
<1>3. CASE decision.code = Continue
  <2>1. ToWrite(h, decision.cmd, LookUps(r.q, r.existing))
    BY <1>3 DEF DecideWrite
  <2>2. /\ Decided(r.q, r.p, decision.cmd)
        /\ ActionOf(r.q) = <<"environment", "POST">> =>
             \A k \in DOMAIN fsm.environments :
                 fsm.environments[k].order < decision.cmd.environment.order
    BY <1>2, <1>3 DEF Sound
  <2> HIDE DEF decision
  <2> QED
    BY <1>1, <2>1, <2>2, WriteStep
<1>4. CASE decision.code # Continue
  <2>1. ToAudit(h, decision.code)
    BY <1>4 DEF DecideWrite
  <2>2. decision.code # OK
    BY <1>2 DEF Sound
  <2> HIDE DEF decision
  <2> QED
    BY <1>1, <2>1, <2>2, RefusedStep
<1> QED
  BY <1>3, <1>4

LEMMA LookUpStep ==
    ASSUME IInv, NEW h \in Handler, LookUp(h)
    PROVE  IInv'
<1> DEFINE r == req[h]
<1>1. r.step = "lookup" /\ r # Idle /\ Reading /\ UNCHANGED answers
  BY NotIdle DEF LookUp, Step, Idle
<1>2. PICK id \in r.ids :
        IF LookUpError(fsm, r.p, r.q, id) = OK THEN ToWrite(h, r.cmd, r.ids \ {id})
        ELSE ToAudit(h, LookUpError(fsm, r.p, r.q, id))
  BY DEF LookUp
<1> DEFINE error == LookUpError(fsm, r.p, r.q, id)
<1>3. CASE error = OK
  <2>1. /\ Decided(r.q, r.p, r.cmd)
        /\ ActionOf(r.q) = <<"environment", "POST">> =>
             \A k \in DOMAIN fsm.environments :
                 fsm.environments[k].version <= r.since =>
                     fsm.environments[k].order < r.cmd.environment.order
    BY <1>1 DEF IInv, RequestInv, Served
  <2> QED
    BY <1>1, <1>2, <1>3, <2>1, WriteStep
<1>4. CASE error # OK
  BY <1>1, <1>2, <1>4, RefusedStep
<1> QED
  BY <1>3, <1>4

LEMMA RepositoryCheckStep ==
    ASSUME IInv, NEW h \in Handler, RepositoryCheck(h)
    PROVE  IInv'
<1> DEFINE r == req[h]
           err == Precheck(fsm, r.cmd)
           s == [r EXCEPT !.step = "submit"]
<1>1. r.step = "precheck" /\ r # Idle /\ Reading /\ UNCHANGED answers
  BY NotIdle DEF RepositoryCheck, Step, Idle
<1>2. Served(r, fsm, index, requests, faults, accepted)
  BY <1>1 DEF IInv, RequestInv
<1>3. CASE err = OK
  <2>1. Move(h, s)
    BY <1>3 DEF RepositoryCheck
  <2>2. IsServing(r)
    BY <1>2 DEF Served
  <2>3. /\ IsServing(s) /\ s.step = "submit" /\ s.q = r.q /\ s.since = r.since
        /\ s.p = r.p /\ s.cmd = r.cmd
    BY <2>2 DEF IsServing
  <2> HIDE DEF s
  <2>4. /\ Decided(s.q, s.p, s.cmd)
        /\ ActionOf(s.q) = <<"environment", "POST">> =>
             \A k \in DOMAIN fsm.environments :
                 fsm.environments[k].version <= s.since =>
                     fsm.environments[k].order < s.cmd.environment.order
    BY <1>1, <1>2, <2>3 DEF Served
  <2> QED
    BY <1>1, <2>1, <2>3, <2>4, OnwardStep
<1>4. CASE err # OK
  <2>1. ToAudit(h, CodeOf(err))
    BY <1>4 DEF RepositoryCheck
  <2>2. CodeOf(err) # OK
    BY <1>4, CodeOfErrors
  <2> HIDE DEF err
  <2> QED
    BY <1>1, <2>1, <2>2, RefusedStep
<1> QED
  BY <1>3, <1>4

LEMMA SubmitCommandStep ==
    ASSUME IInv, NEW h \in Handler, SubmitCommand(h)
    PROVE  IInv'
<1> DEFINE code == CodeOf(Apply(fsm, index + 1, req[h].cmd).err)
<1>1. /\ Step(h, "submit") /\ ToAudit(h, code) /\ Applied(h)
      /\ UNCHANGED <<requests, answers>> /\ UNCHANGED faults
  BY DEF SubmitCommand
<1>2. code = OK <=> Apply(fsm, index + 1, req[h].cmd).err = OK
  BY CodeOfErrors
<1> HIDE DEF code
<1> QED
  BY <1>1, <1>2, SubmitStep

LEMMA SubmitFailsStep ==
    ASSUME IInv, NEW h \in Handler, SubmitFails(h)
    PROVE  IInv'
<1>1. /\ Step(h, "submit") /\ ToAudit(h, "InternalGeneric")
      /\ Applied(h) \/ UNCHANGED <<fsm, index, accepted>>
      /\ UNCHANGED <<requests, answers>> /\ faults' = faults + 1 /\ faults' # faults
  BY DEF SubmitFails, IInv, MapsInv
<1>2. "InternalGeneric" # OK
  BY DEF OK
<1> QED
  BY <1>1, <1>2, SubmitStep

LEMMA RecordAuditStep ==
    ASSUME IInv, NEW h \in Handler, RecordAudit(h) \/ RecordAuditFails(h)
    PROVE  IInv'
<1>1. CASE RecordAudit(h)
  BY <1>1, AuditStep DEF RecordAudit
<1>2. CASE RecordAuditFails(h)
  BY <1>2, AuditStep DEF RecordAuditFails
<1> QED
  BY <1>1, <1>2

\* Nothing changes in a step of the variables of other modules.
LEMMA StutterStep == IInv /\ UNCHANGED vars => IInv'
<1>1. SUFFICES ASSUME IInv, UNCHANGED vars PROVE IInv'
  OBVIOUS
<1> USE DEF vars, IInv
<1>2. MapsInv' /\ TrailInv'
  BY <1>1 DEF MapsInv, TrailInv
<1>3. HistoryInv'
  BY <1>1 DEF HistoryInv, AuditedBeforeAnswer, Entries
<1>4. RequestInv' /\ ToldInv'
  BY <1>1 DEF RequestInv, ToldInv, InFlight
<1> QED
  BY <1>2, <1>3, <1>4

LEMMA NextIInv == IInv /\ [Next]_vars => IInv'
<1>1. SUFFICES ASSUME IInv, [Next]_vars PROVE IInv'
  OBVIOUS
<1>2. ASSUME NEW h \in Handler,
             \/ Arrive(h) \/ ReadSubject(h) \/ ReadGroup(h)
             \/ BodyUnreadable(h) \/ ReadBefore(h) \/ ReadExisting(h)
             \/ DecideWrite(h) \/ LookUp(h) \/ RepositoryCheck(h)
             \/ SubmitCommand(h) \/ SubmitFails(h)
             \/ RecordAudit(h) \/ RecordAuditFails(h)
      PROVE  IInv'
  <2>1. CASE Arrive(h)
    BY <1>1, <2>1, ArriveStep
  <2>2. CASE ReadSubject(h)
    BY <1>1, <2>2, ReadSubjectStep
  <2>3. CASE ReadGroup(h)
    BY <1>1, <2>3, ReadGroupStep
  <2>4. CASE ReadBefore(h)
    BY <1>1, <2>4, ReadBeforeStep
  <2>5. CASE ReadExisting(h)
    BY <1>1, <2>5, ReadExistingStep
  <2>6. CASE DecideWrite(h)
    BY <1>1, <2>6, DecideWriteStep
  <2>7. CASE RepositoryCheck(h)
    BY <1>1, <2>7, RepositoryCheckStep
  <2>8. CASE SubmitCommand(h)
    BY <1>1, <2>8, SubmitCommandStep
  <2>9. CASE SubmitFails(h)
    BY <1>1, <2>9, SubmitFailsStep
  <2>10. CASE RecordAudit(h) \/ RecordAuditFails(h)
    BY <1>1, <2>10, RecordAuditStep
  <2>11. CASE BodyUnreadable(h)
    BY <1>1, <2>11, BodyUnreadableStep
  <2>12. CASE LookUp(h)
    BY <1>1, <2>12, LookUpStep
  <2> QED
    BY <1>2, <2>1, <2>2, <2>3, <2>4, <2>5, <2>6, <2>7, <2>8, <2>9, <2>10, <2>11, <2>12
<1>3. CASE Crash
  BY <1>1, <1>3, CrashStep
<1>4. CASE UNCHANGED vars
  BY <1>1, <1>4, StutterStep
<1> QED
  BY <1>1, <1>2, <1>3, <1>4 DEF Next

\* The inductive invariant holds in every state the requests can reach.
THEOREM Invariance == Spec => []IInv
<1>1. Init => IInv
  BY InitIInv
<1>2. IInv /\ [Next]_vars => IInv'
  BY NextIInv
<1> QED
  BY <1>1, <1>2, PTL DEF Spec

----------------------------------------------------------------------------
(* What follows from it                                                    *)

\* withAudit records what it answers before it answers: whatever a client that
\* requirePermission let in was told, short of a failure to audit, is in the trail.
THEOREM AlwaysAuditedBeforeAnswer == Spec => []AuditedBeforeAnswer
<1>1. IInv => AuditedBeforeAnswer
  BY DEF IInv, HistoryInv
<1> QED
  BY <1>1, Invariance, PTL

\* The trail never claims a mutation that was not accepted before.
THEOREM TrailNeverTellsMore == Spec => []TrailTellsNoMore
<1>1. IInv => TrailTellsNoMore
  <2>1. SUFFICES ASSUME IInv PROVE TrailTellsNoMore
    OBVIOUS
  <2>2. ASSUME NEW id \in DOMAIN fsm.auditEntries, fsm.auditEntries[id].success
        PROVE  /\ fsm.auditEntries[id].request \in DOMAIN accepted
               /\ accepted[fsm.auditEntries[id].request] < fsm.auditEntries[id].id
    BY <2>1, <2>2 DEF IInv, TrailInv
  <2> QED
    BY <2>2 DEF TrailTellsNoMore, Entries
<1> QED
  BY <1>1, Invariance, PTL

\* Unless something failed, an accepted mutation whose request is over has its
\* one entry in the trail, however many were served at once.
THEOREM TrailAlwaysTellsAll == Spec => []TrailTellsAll
<1>1. IInv => TrailTellsAll
  <2>1. SUFFICES ASSUME IInv, faults = 0, NEW number \in DOMAIN accepted \ InFlight
                 PROVE  Cardinality({entry \in Entries :
                                       entry.request = number /\ entry.success}) = 1
    BY DEF TrailTellsAll
  <2>2. PICK id \in DOMAIN fsm.auditEntries :
          fsm.auditEntries[id].request = number /\ fsm.auditEntries[id].success
    BY <2>1 DEF IInv, ToldInv
  <2>3. \A i \in DOMAIN fsm.auditEntries : fsm.auditEntries[i].request = number => i = id
    BY <2>1, <2>2 DEF IInv, TrailInv
  <2>4. {entry \in Entries : entry.request = number /\ entry.success}
          = {fsm.auditEntries[id]}
    BY <2>2, <2>3 DEF Entries
  <2> QED
    BY <2>4, FS_Singleton
<1> QED
  BY <1>1, Invariance, PTL

\* The maps change only by a command submitted and by an entry appended.
LEMMA MapsChange ==
    ASSUME [Next]_vars
    PROVE  \/ fsm' = fsm
           \/ \E h \in Handler : AppendEntry(EntryFor(req[h]))
           \/ \E h \in Handler :
                /\ Step(h, "submit") /\ Applied(h)
                /\ \E code : ToAudit(h, code)
<1>1. ASSUME NEW h \in Handler,
             \/ Arrive(h) \/ ReadSubject(h) \/ ReadGroup(h)
             \/ BodyUnreadable(h) \/ ReadBefore(h) \/ ReadExisting(h)
             \/ DecideWrite(h) \/ LookUp(h) \/ RepositoryCheck(h)
      PROVE  fsm' = fsm
  BY <1>1 DEF Arrive, ReadSubject, ReadGroup, BodyUnreadable, ReadBefore, ReadExisting,
              DecideWrite, LookUp, RepositoryCheck, Reading
<1>2. ASSUME NEW h \in Handler, SubmitCommand(h) \/ SubmitFails(h)
      PROVE  \/ fsm' = fsm
             \/ Step(h, "submit") /\ Applied(h) /\ \E code : ToAudit(h, code)
  BY <1>2 DEF SubmitCommand, SubmitFails
<1>3. ASSUME NEW h \in Handler, RecordAudit(h) \/ RecordAuditFails(h)
      PROVE  fsm' = fsm \/ AppendEntry(EntryFor(req[h]))
  BY <1>3 DEF RecordAudit, RecordAuditFails
<1>4. ASSUME Crash \/ UNCHANGED vars PROVE fsm' = fsm
  BY <1>4 DEF Crash, vars
<1> QED
  BY <1>1, <1>2, <1>3, <1>4, Zenon DEF Next

\* What is known of the request whose command is applied in a step.
LEMMA AppliedFacts ==
    ASSUME IInv, NEW h \in Handler, Step(h, "submit"), Applied(h),
           NEW code, ToAudit(h, code)
    PROVE  /\ Shape(fsm) /\ fsm' = Apply(fsm, index + 1, req[h].cmd).state
           /\ Decided(req[h].q, req[h].p, req[h].cmd)
           /\ Served(req[h], fsm, index, requests, faults, accepted)
           /\ req'[h].step = "audit" /\ req[h] # req'[h]
           /\ \A g \in Handler : g # h => req'[g] = req[g]
<1>1. req[h] # Idle /\ req[h].step = "submit"
  BY NotIdle DEF Step, Idle
<1>2. Served(req[h], fsm, index, requests, faults, accepted)
  BY <1>1 DEF IInv, RequestInv
<1>3. /\ \A g \in Handler : g # h => req'[g] = req[g]
      /\ req'[h] = [req[h] EXCEPT !.step = "audit", !.code = code]
  BY DEF ToAudit, Move, IInv, RequestInv
<1>4. IsServing(req[h])
  BY <1>2 DEF Served
<1>5. req'[h].step = "audit"
  <2> DEFINE s == [req[h] EXCEPT !.step = "audit", !.code = code]
  <2>1. s.step = "audit"
    BY <1>4, Noted, Zenon
  <2> QED
    BY <1>3, <2>1
<1> QED
  BY <1>1, <1>2, <1>3, <1>5 DEF Served, Applied, IInv, MapsInv

\* Nobody joins the Admin group but by a request an Admin made, whatever else
\* was going on when its handler looked at the groups.
THEOREM AdminAlwaysGrantedByAdmin == Spec => AdminGrantedByAdmin
<1> DEFINE Granted ==
             \A id \in DOMAIN fsm'.users :
                AdminMember(fsm', id) /\ ~AdminMember(fsm, id) =>
                    \E h \in Handler : req[h] # req'[h] /\ Step(h, "submit") /\ req[h].p.isAdmin
<1>1. IInv /\ [Next]_vars => Granted
  <2>1. SUFFICES ASSUME IInv, [Next]_vars, NEW id \in DOMAIN fsm'.users,
                        AdminMember(fsm', id), ~AdminMember(fsm, id)
                 PROVE  \E h \in Handler :
                            req[h] # req'[h] /\ Step(h, "submit") /\ req[h].p.isAdmin
    OBVIOUS
  <2>2. fsm'.users # fsm.users /\ Shape(fsm)
    BY <2>1 DEF AdminMember, IInv, MapsInv
  <2>3. ASSUME NEW h \in Handler PROVE ~AppendEntry(EntryFor(req[h]))
    <3> DEFINE cmd == [entity |-> "audit", op |-> "append", audit |-> EntryFor(req[h])]
    <3>1. Apply(fsm, index + 1, cmd).state.users = fsm.users
      BY <2>2, ApplyFrame
    <3> QED
      BY <2>2, <3>1 DEF AppendEntry
  <2>4. PICK h \in Handler :
          Step(h, "submit") /\ Applied(h) /\ \E code : ToAudit(h, code)
    BY <2>1, <2>2, <2>3, MapsChange
  <2> DEFINE cmd == req[h].cmd
             user == [cmd.user EXCEPT !.version = index + 1]
  <2>5. /\ fsm' = Apply(fsm, index + 1, cmd).state
        /\ Decided(req[h].q, req[h].p, cmd)
        /\ req[h] # req'[h]
    BY <2>1, <2>4, AppliedFacts
  <2>6. cmd.entity = "user"
    BY <2>2, <2>5, ApplyFrame
  <2>7. CASE fsm' = [fsm EXCEPT !.users = Drop(fsm.users, cmd.key)]
    <3>1. fsm'.users = Drop(fsm.users, cmd.key)
      BY <2>2, <2>7, Fields DEF Shape
    <3> QED
      BY <2>1, <3>1 DEF AdminMember, Drop
  <2>8. CASE cmd.op = "set" /\ fsm' = [fsm EXCEPT !.users = Put(fsm.users, cmd.user.id, user)]
    <3>1. user.groupIDs = cmd.user.groupIDs
      BY <2>5, <2>6, <2>8 DEF Decided
    <3> HIDE DEF user
    <3>2. fsm'.users = Put(fsm.users, cmd.user.id, user)
      BY <2>2, <2>8, Fields DEF Shape
    <3>3. AdminGroupID \in user.groupIDs
      BY <2>1, <3>2 DEF AdminMember, Put
    <3> QED
      BY <2>4, <2>5, <2>6, <2>8, <3>1, <3>3 DEF Decided
  <2> QED
    BY <2>2, <2>5, <2>6, <2>7, <2>8, UsersApplied
<1> QED
  BY <1>1, Invariance, PTL DEF Spec, AdminGrantedByAdmin

\* A new environment sequences after every one its request found.
THEOREM OrdersAlwaysFollow == Spec => OrdersFollow
<1> DEFINE Follow ==
             \A h \in Handler, id \in DOMAIN fsm'.environments \ DOMAIN fsm.environments :
                Submitting(h, "environment", "POST") =>
                    \A other \in DOMAIN fsm.environments :
                        fsm.environments[other].version <= req[h].since =>
                            fsm.environments[other].order < fsm'.environments[id].order
<1>1. IInv /\ [Next]_vars => Follow
  <2>1. SUFFICES ASSUME IInv, [Next]_vars, NEW h \in Handler,
                        NEW id \in DOMAIN fsm'.environments \ DOMAIN fsm.environments,
                        Submitting(h, "environment", "POST")
                 PROVE  \A other \in DOMAIN fsm.environments :
                            fsm.environments[other].version <= req[h].since =>
                                fsm.environments[other].order < fsm'.environments[id].order
    OBVIOUS
  <2>2. fsm'.environments # fsm.environments /\ Shape(fsm)
    BY <2>1 DEF IInv, MapsInv
  <2>3. ASSUME NEW g \in Handler PROVE ~AppendEntry(EntryFor(req[g]))
    <3> DEFINE cmd == [entity |-> "audit", op |-> "append", audit |-> EntryFor(req[g])]
    <3>1. Apply(fsm, index + 1, cmd).state.environments = fsm.environments
      BY <2>2, ApplyFrame
    <3> QED
      BY <2>2, <3>1 DEF AppendEntry
  <2>4. PICK g \in Handler :
          Step(g, "submit") /\ Applied(g) /\ \E code : ToAudit(g, code)
    BY <2>1, <2>2, <2>3, MapsChange
  <2>5. \A k \in Handler : k # g => req'[k] = req[k]
    BY <2>1, <2>4, AppliedFacts
  <2>6. h = g
    BY <2>1, <2>5 DEF Submitting
  <2> DEFINE cmd == req[h].cmd
  <2>7. /\ fsm' = Apply(fsm, index + 1, cmd).state
        /\ Decided(req[h].q, req[h].p, cmd)
        /\ Served(req[h], fsm, index, requests, faults, accepted)
    BY <2>1, <2>4, <2>6, AppliedFacts
  <2>8. fsm'.environments[id].order = cmd.environment.order
    BY <2>1, <2>2, <2>7, EnvironmentsKept DEF Decided
  <2>9. \A other \in DOMAIN fsm.environments :
            fsm.environments[other].version <= req[h].since =>
                fsm.environments[other].order < cmd.environment.order
    BY <2>1, <2>7 DEF Served, Submitting, Step
  <2> QED
    BY <2>8, <2>9
<1> QED
  BY <1>1, Invariance, PTL DEF Spec, OrdersFollow
=============================================================================
