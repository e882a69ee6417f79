---------------------------- MODULE ApplyProofs ----------------------------
(***************************************************************************)
(* Lemmas on the state machine: what applying one command of the           *)
(* repositories to a state s of the maps keeps, adds and changes, for      *)
(* every value of the constants.  They are about a state and a log index,  *)
(* not about variables: StoreProofs cites them of the abstract store, and  *)
(* RaftNodeProofs of a log that is replayed.                               *)
(***************************************************************************)
EXTENDS StoreTypes, SequenceTheorems, TLAPS

----------------------------------------------------------------------------
(* The state record *)

\* A record with the fields of the fsm struct.
Shape(s) == s = [field \in FsmFields |-> s[field]]

\* The fsm struct has exactly seven maps.
LEMMA Fields ==
    FsmFields = {"flags", "segments", "users", "groups", "auditEntries", "environments",
                 "applicationCredentials"}
BY DEF FsmFields, newFSM

\* Replacing the flag map leaves the other six alone.
LEMMA FlagsFrame ==
    ASSUME NEW s, Shape(s), NEW m
    PROVE  LET t == [s EXCEPT !.flags = m] IN
           /\ Shape(t)
           /\ t.flags = m
           /\ t.segments = s.segments
           /\ t.users = s.users
           /\ t.groups = s.groups
           /\ t.auditEntries = s.auditEntries
           /\ t.environments = s.environments
           /\ t.applicationCredentials = s.applicationCredentials
BY Fields DEF Shape

\* Replacing the segment map leaves the other six alone.
LEMMA SegmentsFrame ==
    ASSUME NEW s, Shape(s), NEW m
    PROVE  LET t == [s EXCEPT !.segments = m] IN
           /\ Shape(t)
           /\ t.segments = m
           /\ t.flags = s.flags
           /\ t.users = s.users
           /\ t.groups = s.groups
           /\ t.auditEntries = s.auditEntries
           /\ t.environments = s.environments
           /\ t.applicationCredentials = s.applicationCredentials
BY Fields DEF Shape

\* Replacing the user map leaves the other six alone.
LEMMA UsersFrame ==
    ASSUME NEW s, Shape(s), NEW m
    PROVE  LET t == [s EXCEPT !.users = m] IN
           /\ Shape(t)
           /\ t.users = m
           /\ t.flags = s.flags
           /\ t.segments = s.segments
           /\ t.groups = s.groups
           /\ t.auditEntries = s.auditEntries
           /\ t.environments = s.environments
           /\ t.applicationCredentials = s.applicationCredentials
BY Fields DEF Shape

\* Replacing the group map leaves the other six alone.
LEMMA GroupsFrame ==
    ASSUME NEW s, Shape(s), NEW m
    PROVE  LET t == [s EXCEPT !.groups = m] IN
           /\ Shape(t)
           /\ t.groups = m
           /\ t.flags = s.flags
           /\ t.segments = s.segments
           /\ t.users = s.users
           /\ t.auditEntries = s.auditEntries
           /\ t.environments = s.environments
           /\ t.applicationCredentials = s.applicationCredentials
BY Fields DEF Shape

\* Replacing the audit map leaves the other six alone.
LEMMA AuditFrame ==
    ASSUME NEW s, Shape(s), NEW m
    PROVE  LET t == [s EXCEPT !.auditEntries = m] IN
           /\ Shape(t)
           /\ t.auditEntries = m
           /\ t.flags = s.flags
           /\ t.segments = s.segments
           /\ t.users = s.users
           /\ t.groups = s.groups
           /\ t.environments = s.environments
           /\ t.applicationCredentials = s.applicationCredentials
BY Fields DEF Shape

\* Replacing the environment map leaves the other six alone.
LEMMA EnvironmentsFrame ==
    ASSUME NEW s, Shape(s), NEW m
    PROVE  LET t == [s EXCEPT !.environments = m] IN
           /\ Shape(t)
           /\ t.environments = m
           /\ t.flags = s.flags
           /\ t.segments = s.segments
           /\ t.users = s.users
           /\ t.groups = s.groups
           /\ t.auditEntries = s.auditEntries
           /\ t.applicationCredentials = s.applicationCredentials
BY Fields DEF Shape

\* Replacing the credential map leaves the other six alone.
LEMMA CredentialsFrame ==
    ASSUME NEW s, Shape(s), NEW m
    PROVE  LET t == [s EXCEPT !.applicationCredentials = m] IN
           /\ Shape(t)
           /\ t.applicationCredentials = m
           /\ t.flags = s.flags
           /\ t.segments = s.segments
           /\ t.users = s.users
           /\ t.groups = s.groups
           /\ t.auditEntries = s.auditEntries
           /\ t.environments = s.environments
BY Fields DEF Shape

----------------------------------------------------------------------------
(* The inductive invariant, as a predicate on a state of the maps, and what *)
(* every command keeps of the state before it.                             *)

\* The Admin group, where it exists, is the protected system group.
AdminIsSystem(s) == AdminGroupID \in DOMAIN s.groups => s.groups[AdminGroupID].system

\* What is true of the maps in every reachable state.
Good(s) == Typed(s) /\ OwnKeys(s) /\ NoOrphans(s) /\ DistinctUsernames(s) /\ AdminIsSystem(s)

\* What no command may take away.
Kept(s, t) ==
    /\ HasActiveAdmin(s) => HasActiveAdmin(t)
    /\ AdminGroupKept(s, t)
    /\ DOMAIN s.environments # {} => DOMAIN t.environments # {}
    /\ TypesKept(s, t)
    /\ ReferencesKept(s, t)
    /\ AuditKept(s, t)

\* t follows s by a change of a map other than the audit trail.
Carried(s, t) == Good(t) /\ Kept(s, t) /\ t.auditEntries = s.auditEntries

\* A command that changes nothing keeps everything.
LEMMA KeptRefl == ASSUME NEW s PROVE Kept(s, s)
BY DEF Kept, AdminGroupKept, TypesKept, ReferencesKept, AuditKept

\* The empty maps satisfy the inductive invariant.
LEMMA NewGood == Good(newFSM)
BY Fields DEF newFSM, EmptyMap, Good, Typed, IsMap, OwnKeys, NoOrphans, DistinctUsernames,
              AdminIsSystem

----------------------------------------------------------------------------
(* Replacing one map: which facts about the new map carry the invariant    *)
(* over.  There is one lemma per field of the fsm struct.                  *)

\* A new flag map carries the invariant over if its flags are well keyed, their
\* environments exist and no flag that stays is retyped.
LEMMA FlagsChange ==
    ASSUME NEW s, Good(s), NEW m,
           IsMap(m, EnvironmentID \X FlagKey, Flag),
           \A k \in DOMAIN m : /\ k = flagMapKey(m[k].environmentID, m[k].key)
                               /\ m[k].environmentID \in DOMAIN s.environments,
           \A k \in DOMAIN s.flags \cap DOMAIN m : m[k].type = s.flags[k].type
    PROVE  Carried(s, [s EXCEPT !.flags = m])
<1> DEFINE t == [s EXCEPT !.flags = m]
<1> HIDE DEF t
<1>1. Shape(s)
  BY DEF Good, Typed, Shape
<1>2. /\ Shape(t)
      /\ t.flags = m
      /\ t.segments = s.segments
      /\ t.users = s.users
      /\ t.groups = s.groups
      /\ t.auditEntries = s.auditEntries
      /\ t.environments = s.environments
      /\ t.applicationCredentials = s.applicationCredentials
  BY <1>1, FlagsFrame DEF t
<1>3. Typed(t)
  BY <1>2 DEF Good, Typed, Shape
<1>4. OwnKeys(t) /\ NoOrphans(t) /\ DistinctUsernames(t) /\ AdminIsSystem(t)
  BY <1>2 DEF Good, OwnKeys, NoOrphans, DistinctUsernames, AdminIsSystem
<1>5. Kept(s, t)
  BY <1>2 DEF Kept, HasActiveAdmin, AdminGroupKept, TypesKept, ReferencesKept, AuditKept, Good,
              OwnKeys
<1> QED
  BY <1>2, <1>3, <1>4, <1>5 DEF Carried, Good, t

\* A new segment map carries the invariant over if its segments are well keyed,
\* their environments exist and no segment a flag references disappears.
LEMMA SegmentsChange ==
    ASSUME NEW s, Good(s), NEW m,
           IsMap(m, EnvironmentID \X SegmentKey, Segment),
           \A k \in DOMAIN m : /\ k = flagMapKey(m[k].environmentID, m[k].key)
                               /\ m[k].environmentID \in DOMAIN s.environments,
           \A k \in DOMAIN s.flags : \A ref \in s.flags[k].segmentRefs :
               flagMapKey(s.flags[k].environmentID, ref) \in DOMAIN s.segments
                 => flagMapKey(s.flags[k].environmentID, ref) \in DOMAIN m
    PROVE  Carried(s, [s EXCEPT !.segments = m])
<1> DEFINE t == [s EXCEPT !.segments = m]
<1> HIDE DEF t
<1>1. Shape(s)
  BY DEF Good, Typed, Shape
<1>2. /\ Shape(t)
      /\ t.segments = m
      /\ t.flags = s.flags
      /\ t.users = s.users
      /\ t.groups = s.groups
      /\ t.auditEntries = s.auditEntries
      /\ t.environments = s.environments
      /\ t.applicationCredentials = s.applicationCredentials
  BY <1>1, SegmentsFrame DEF t
<1>3. Typed(t)
  BY <1>2 DEF Good, Typed, Shape
<1>4. OwnKeys(t) /\ NoOrphans(t) /\ DistinctUsernames(t) /\ AdminIsSystem(t)
  BY <1>2 DEF Good, OwnKeys, NoOrphans, DistinctUsernames, AdminIsSystem
<1>5. Kept(s, t)
  BY <1>2 DEF Kept, HasActiveAdmin, AdminGroupKept, TypesKept, ReferencesKept, AuditKept, Good,
              OwnKeys
<1> QED
  BY <1>2, <1>3, <1>4, <1>5 DEF Carried, Good, t

\* A new user map carries the invariant over if its usernames are distinct and
\* it has an active admin whenever the old one had.
LEMMA UsersChange ==
    ASSUME NEW s, Good(s), NEW m,
           IsMap(m, UserID, User),
           \A k \in DOMAIN m : m[k].id = k,
           \A i, j \in DOMAIN m : m[i].username = m[j].username => i = j,
           HasActiveAdmin(s) => \E id \in DOMAIN m : isActiveAdmin(m[id])
    PROVE  Carried(s, [s EXCEPT !.users = m])
<1> DEFINE t == [s EXCEPT !.users = m]
<1> HIDE DEF t
<1>1. Shape(s)
  BY DEF Good, Typed, Shape
<1>2. /\ Shape(t)
      /\ t.users = m
      /\ t.flags = s.flags
      /\ t.segments = s.segments
      /\ t.groups = s.groups
      /\ t.auditEntries = s.auditEntries
      /\ t.environments = s.environments
      /\ t.applicationCredentials = s.applicationCredentials
  BY <1>1, UsersFrame DEF t
<1>3. Typed(t)
  BY <1>2 DEF Good, Typed, Shape
<1>4. OwnKeys(t) /\ NoOrphans(t) /\ DistinctUsernames(t) /\ AdminIsSystem(t)
  BY <1>2 DEF Good, OwnKeys, NoOrphans, DistinctUsernames, AdminIsSystem
<1>5. Kept(s, t)
  BY <1>2 DEF Kept, HasActiveAdmin, AdminGroupKept, TypesKept, ReferencesKept, AuditKept, Good,
              OwnKeys
<1> QED
  BY <1>2, <1>3, <1>4, <1>5 DEF Carried, Good, t

\* A new group map carries the invariant over if the Admin group in it is a
\* system group and is the old one where there was one.
LEMMA GroupsChange ==
    ASSUME NEW s, Good(s), NEW m,
           IsMap(m, GroupID, Group),
           \A k \in DOMAIN m : m[k].id = k,
           AdminGroupID \in DOMAIN m => m[AdminGroupID].system,
           AdminGroupID \in DOMAIN s.groups
             => AdminGroupID \in DOMAIN m /\ m[AdminGroupID] = s.groups[AdminGroupID]
    PROVE  Carried(s, [s EXCEPT !.groups = m])
<1> DEFINE t == [s EXCEPT !.groups = m]
<1> HIDE DEF t
<1>1. Shape(s)
  BY DEF Good, Typed, Shape
<1>2. /\ Shape(t)
      /\ t.groups = m
      /\ t.flags = s.flags
      /\ t.segments = s.segments
      /\ t.users = s.users
      /\ t.auditEntries = s.auditEntries
      /\ t.environments = s.environments
      /\ t.applicationCredentials = s.applicationCredentials
  BY <1>1, GroupsFrame DEF t
<1>3. Typed(t)
  BY <1>2 DEF Good, Typed, Shape
<1>4. OwnKeys(t) /\ NoOrphans(t) /\ DistinctUsernames(t) /\ AdminIsSystem(t)
  BY <1>2 DEF Good, OwnKeys, NoOrphans, DistinctUsernames, AdminIsSystem
<1>5. Kept(s, t)
  BY <1>2 DEF Kept, HasActiveAdmin, AdminGroupKept, TypesKept, ReferencesKept, AuditKept, Good,
              OwnKeys
<1> QED
  BY <1>2, <1>3, <1>4, <1>5 DEF Carried, Good, t

\* A new audit map carries the invariant over if it keeps the old entries.
LEMMA AuditChange ==
    ASSUME NEW s, Good(s), NEW m,
           IsMap(m, Nat, AuditEntry),
           \A k \in DOMAIN m : m[k].id = k,
           \A k \in DOMAIN s.auditEntries : k \in DOMAIN m /\ m[k] = s.auditEntries[k]
    PROVE  /\ Good([s EXCEPT !.auditEntries = m])
           /\ Kept(s, [s EXCEPT !.auditEntries = m])
           /\ [s EXCEPT !.auditEntries = m].auditEntries = m
<1> DEFINE t == [s EXCEPT !.auditEntries = m]
<1> HIDE DEF t
<1>1. Shape(s)
  BY DEF Good, Typed, Shape
<1>2. /\ Shape(t)
      /\ t.auditEntries = m
      /\ t.flags = s.flags
      /\ t.segments = s.segments
      /\ t.users = s.users
      /\ t.groups = s.groups
      /\ t.environments = s.environments
      /\ t.applicationCredentials = s.applicationCredentials
  BY <1>1, AuditFrame DEF t
<1>3. Typed(t)
  BY <1>2 DEF Good, Typed, Shape
<1>4. OwnKeys(t) /\ NoOrphans(t) /\ DistinctUsernames(t) /\ AdminIsSystem(t)
  BY <1>2 DEF Good, OwnKeys, NoOrphans, DistinctUsernames, AdminIsSystem
<1>5. Kept(s, t)
  BY <1>2 DEF Kept, HasActiveAdmin, AdminGroupKept, TypesKept, ReferencesKept, AuditKept, Good,
              OwnKeys
<1> QED
  BY <1>2, <1>3, <1>4, <1>5 DEF Good, t

\* A new environment map carries the invariant over if no environment in use
\* disappears and the map does not become empty.
LEMMA EnvironmentsChange ==
    ASSUME NEW s, Good(s), NEW m,
           IsMap(m, EnvironmentID, Environment),
           \A k \in DOMAIN m : m[k].id = k,
           DOMAIN s.environments # {} => DOMAIN m # {},
           \A k \in DOMAIN s.flags : s.flags[k].environmentID \in DOMAIN m,
           \A k \in DOMAIN s.segments : s.segments[k].environmentID \in DOMAIN m,
           \A k \in DOMAIN s.applicationCredentials :
               s.applicationCredentials[k].environmentID \in DOMAIN m
    PROVE  Carried(s, [s EXCEPT !.environments = m])
<1> DEFINE t == [s EXCEPT !.environments = m]
<1> HIDE DEF t
<1>1. Shape(s)
  BY DEF Good, Typed, Shape
<1>2. /\ Shape(t)
      /\ t.environments = m
      /\ t.flags = s.flags
      /\ t.segments = s.segments
      /\ t.users = s.users
      /\ t.groups = s.groups
      /\ t.auditEntries = s.auditEntries
      /\ t.applicationCredentials = s.applicationCredentials
  BY <1>1, EnvironmentsFrame DEF t
<1>3. Typed(t)
  BY <1>2 DEF Good, Typed, Shape
<1>4. OwnKeys(t) /\ NoOrphans(t) /\ DistinctUsernames(t) /\ AdminIsSystem(t)
  BY <1>2 DEF Good, OwnKeys, NoOrphans, DistinctUsernames, AdminIsSystem
<1>5. Kept(s, t)
  BY <1>2 DEF Kept, HasActiveAdmin, AdminGroupKept, TypesKept, ReferencesKept, AuditKept, Good,
              OwnKeys
<1> QED
  BY <1>2, <1>3, <1>4, <1>5 DEF Carried, Good, t

\* A new credential map carries the invariant over if its credentials are well
\* keyed and their environments exist.
LEMMA CredentialsChange ==
    ASSUME NEW s, Good(s), NEW m,
           IsMap(m, CredentialID, ApplicationCredential),
           \A k \in DOMAIN m : /\ m[k].id = k
                               /\ m[k].environmentID \in DOMAIN s.environments
    PROVE  Carried(s, [s EXCEPT !.applicationCredentials = m])
<1> DEFINE t == [s EXCEPT !.applicationCredentials = m]
<1> HIDE DEF t
<1>1. Shape(s)
  BY DEF Good, Typed, Shape
<1>2. /\ Shape(t)
      /\ t.applicationCredentials = m
      /\ t.flags = s.flags
      /\ t.segments = s.segments
      /\ t.users = s.users
      /\ t.groups = s.groups
      /\ t.auditEntries = s.auditEntries
      /\ t.environments = s.environments
  BY <1>1, CredentialsFrame DEF t
<1>3. Typed(t)
  BY <1>2 DEF Good, Typed, Shape
<1>4. OwnKeys(t) /\ NoOrphans(t) /\ DistinctUsernames(t) /\ AdminIsSystem(t)
  BY <1>2 DEF Good, OwnKeys, NoOrphans, DistinctUsernames, AdminIsSystem
<1>5. Kept(s, t)
  BY <1>2 DEF Kept, HasActiveAdmin, AdminGroupKept, TypesKept, ReferencesKept, AuditKept, Good,
              OwnKeys
<1> QED
  BY <1>2, <1>3, <1>4, <1>5 DEF Carried, Good, t

----------------------------------------------------------------------------
(* Each command, applied to a good state, gives a good state, keeps what   *)
(* must be kept, and changes nothing if it is refused.                     *)

\* The outcome r of a command applied to s at index i is as it should be.
Sound(s, i, r) ==
    /\ Good(r.state)
    /\ Kept(s, r.state)
    /\ DOMAIN r.state.auditEntries \subseteq DOMAIN s.auditEntries \cup {i}
    /\ r.err # OK => r.state = s

\* Refusing a command, or accepting it without effect, is sound.
LEMMA RefusalSound ==
    ASSUME NEW s, Good(s), NEW i, NEW e
    PROVE  Sound(s, i, Reject(s, e)) /\ Sound(s, i, Accept(s))
BY KeptRefl DEF Sound, Reject, Accept

\* Accepting a command is sound if the new state carries the invariant over.
LEMMA CarriedSound ==
    ASSUME NEW s, NEW i, NEW t, Carried(s, t)
    PROVE  Sound(s, i, Accept(t))
BY DEF Sound, Carried, Accept

\* stampFlag makes a stored flag of a flag of a known type, under the same key.
LEMMA StampFlag ==
    ASSUME NEW flag \in FlagArgument, NEW i \in Nat, isKnownFlagType(flag.type)
    PROVE  /\ stampFlag(flag, i) \in Flag
           /\ stampFlag(flag, i).environmentID = flag.environmentID
           /\ stampFlag(flag, i).key = flag.key
           /\ stampFlag(flag, i).type = flag.type
BY DEF FlagArgument, Flag, stampFlag, isKnownFlagType

\* Flags.Set is sound: applyFlag, op "set".
LEMMA FlagSetSound ==
    ASSUME NEW s, Good(s), NEW i \in Nat, NEW flag \in FlagArgument
    PROVE  Sound(s, i, Apply(s, i, [entity |-> "flag", op |-> "set", flag |-> flag]))
<1> DEFINE cmd == [entity |-> "flag", op |-> "set", flag |-> flag]
           k == flagMapKey(flag.environmentID, flag.key)
           v == stampFlag(flag, i)
           m == Put(s.flags, k, v)
<1>1. CASE FlagSetError(s, flag) # OK
  <2>1. Apply(s, i, cmd) = Reject(s, FlagSetError(s, flag))
    BY <1>1 DEF Apply, applyFlag
  <2> QED
    BY <2>1, RefusalSound
<1>2. CASE FlagSetError(s, flag) = OK
  <2>1. Apply(s, i, cmd) = Accept([s EXCEPT !.flags = m])
    BY <1>2 DEF Apply, applyFlag
  <2>2. /\ flag.environmentID \in DOMAIN s.environments
        /\ isKnownFlagType(flag.type)
        /\ k \in DOMAIN s.flags => s.flags[k].type = flag.type
    BY <1>2 DEF FlagSetError, OK
  <2>3. /\ v \in Flag
        /\ k = flagMapKey(v.environmentID, v.key)
        /\ v.environmentID = flag.environmentID
        /\ v.type = flag.type
    BY <2>2, StampFlag
  <2>4. k \in EnvironmentID \X FlagKey
    BY DEF flagMapKey, FlagArgument
  <2> HIDE DEF k, v
  <2>5. IsMap(m, EnvironmentID \X FlagKey, Flag)
    BY <2>3, <2>4 DEF Good, Typed, IsMap, Put
  <2>6. \A x \in DOMAIN m : /\ x = flagMapKey(m[x].environmentID, m[x].key)
                            /\ m[x].environmentID \in DOMAIN s.environments
    BY <2>2, <2>3 DEF Good, OwnKeys, NoOrphans, Put
  <2>7. \A x \in DOMAIN s.flags \cap DOMAIN m : m[x].type = s.flags[x].type
    BY <2>2, <2>3 DEF Put
  <2> HIDE DEF m
  <2>8. Carried(s, [s EXCEPT !.flags = m])
    BY <2>5, <2>6, <2>7, FlagsChange
  <2> QED
    BY <2>1, <2>8, CarriedSound
<1> QED
  BY <1>1, <1>2

\* Every key a batch writes belongs to the entry stored under it.
LEMMA BatchEntryKey ==
    ASSUME NEW flags, NEW k \in BatchKeys(flags)
    PROVE  \E j \in DOMAIN flags : /\ BatchEntry(flags, k) = flags[j]
                                   /\ k = flagMapKey(flags[j].environmentID, flags[j].key)
BY DEF BatchKeys, BatchEntry

\* Flags.SetMany is sound: applyFlag, op "setBatch", all entries or none.
LEMMA FlagSetManySound ==
    ASSUME NEW s, Good(s), NEW i \in Nat, NEW flags \in Seq(FlagArgument)
    PROVE  Sound(s, i, Apply(s, i, [entity |-> "flag", op |-> "setBatch", flags |-> flags]))
<1> DEFINE cmd == [entity |-> "flag", op |-> "setBatch", flags |-> flags]
           m == [k \in DOMAIN s.flags \cup BatchKeys(flags) |->
                    IF k \in BatchKeys(flags) THEN stampFlag(BatchEntry(flags, k), i)
                    ELSE s.flags[k]]
<1>1. CASE \E j \in DOMAIN flags : FlagCreateError(s, flags[j]) # OK
  <2>1. Apply(s, i, cmd) = Reject(s, FlagCreateError(s, flags[FirstBad(s, flags)]))
    BY <1>1 DEF Apply, applyFlag, SetBatch
  <2> QED
    BY <2>1, RefusalSound
<1>2. CASE ~ \E j \in DOMAIN flags : FlagCreateError(s, flags[j]) # OK
  <2>1. Apply(s, i, cmd) = Accept([s EXCEPT !.flags = m])
    BY <1>2 DEF Apply, applyFlag, SetBatch, PutBatch
  <2>2. \A k \in BatchKeys(flags) :
            LET v == stampFlag(BatchEntry(flags, k), i) IN
            /\ k \notin DOMAIN s.flags
            /\ k \in EnvironmentID \X FlagKey
            /\ v \in Flag
            /\ k = flagMapKey(v.environmentID, v.key)
            /\ v.environmentID \in DOMAIN s.environments
    <3>1. SUFFICES ASSUME NEW k \in BatchKeys(flags)
                   PROVE  LET v == stampFlag(BatchEntry(flags, k), i) IN
                          /\ k \notin DOMAIN s.flags
                          /\ k \in EnvironmentID \X FlagKey
                          /\ v \in Flag
                          /\ k = flagMapKey(v.environmentID, v.key)
                          /\ v.environmentID \in DOMAIN s.environments
      OBVIOUS
    <3>2. PICK j \in DOMAIN flags : /\ BatchEntry(flags, k) = flags[j]
                                    /\ k = flagMapKey(flags[j].environmentID, flags[j].key)
      BY BatchEntryKey
    <3>3. flags[j] \in FlagArgument
      OBVIOUS
    <3>4. /\ flags[j].environmentID \in DOMAIN s.environments
          /\ isKnownFlagType(flags[j].type)
          /\ k \notin DOMAIN s.flags
      BY <1>2, <3>2 DEF FlagCreateError, OK
    <3>5. k \in EnvironmentID \X FlagKey
      BY <3>2, <3>3 DEF flagMapKey, FlagArgument
    <3>6. /\ stampFlag(flags[j], i) \in Flag
          /\ stampFlag(flags[j], i).environmentID = flags[j].environmentID
          /\ stampFlag(flags[j], i).key = flags[j].key
      BY <3>3, <3>4, StampFlag
    <3> QED
      BY <3>2, <3>4, <3>5, <3>6
  <2>3. IsMap(m, EnvironmentID \X FlagKey, Flag)
    BY <2>2 DEF Good, Typed, IsMap
  <2>4. \A x \in DOMAIN m : /\ x = flagMapKey(m[x].environmentID, m[x].key)
                            /\ m[x].environmentID \in DOMAIN s.environments
    BY <2>2 DEF Good, OwnKeys, NoOrphans
  <2>5. \A x \in DOMAIN s.flags \cap DOMAIN m : m[x].type = s.flags[x].type
    BY <2>2
  <2> HIDE DEF m
  <2>6. Carried(s, [s EXCEPT !.flags = m])
    BY <2>3, <2>4, <2>5, FlagsChange
  <2> QED
    BY <2>1, <2>6, CarriedSound
<1> QED
  BY <1>1, <1>2

\* Flags.Delete is sound: applyFlag, op "delete".
LEMMA FlagDeleteSound ==
    ASSUME NEW s, Good(s), NEW i, NEW key
    PROVE  Sound(s, i, Apply(s, i, [entity |-> "flag", op |-> "delete", key |-> key]))
<1> DEFINE m == Drop(s.flags, key)
<1>1. Apply(s, i, [entity |-> "flag", op |-> "delete", key |-> key])
        = Accept([s EXCEPT !.flags = m])
  BY DEF Apply, applyFlag
<1>2. IsMap(m, EnvironmentID \X FlagKey, Flag)
  BY DEF Good, Typed, IsMap, Drop
<1>3. \A x \in DOMAIN m : x \in DOMAIN s.flags /\ m[x] = s.flags[x]
  BY DEF Drop
<1> HIDE DEF m
<1>4. \A x \in DOMAIN m : /\ x = flagMapKey(m[x].environmentID, m[x].key)
                          /\ m[x].environmentID \in DOMAIN s.environments
  BY <1>3 DEF Good, OwnKeys, NoOrphans
<1>5. \A x \in DOMAIN s.flags \cap DOMAIN m : m[x].type = s.flags[x].type
  BY <1>3
<1>6. Carried(s, [s EXCEPT !.flags = m])
  BY <1>2, <1>4, <1>5, FlagsChange
<1> QED
  BY <1>1, <1>6, CarriedSound

\* Segments.Set is sound: applySegment, op "set".
LEMMA SegmentSetSound ==
    ASSUME NEW s, Good(s), NEW i \in Nat, NEW segment \in Segment
    PROVE  Sound(s, i, Apply(s, i, [entity |-> "segment", op |-> "set", segment |-> segment]))
<1> DEFINE cmd == [entity |-> "segment", op |-> "set", segment |-> segment]
           k == flagMapKey(segment.environmentID, segment.key)
           v == [segment EXCEPT !.revision = i]
           m == Put(s.segments, k, v)
<1>1. CASE SegmentSetError(s, segment) # OK
  <2>1. Apply(s, i, cmd) = Reject(s, SegmentSetError(s, segment))
    BY <1>1 DEF Apply, applySegment
  <2> QED
    BY <2>1, RefusalSound
<1>2. CASE SegmentSetError(s, segment) = OK
  <2>1. Apply(s, i, cmd) = Accept([s EXCEPT !.segments = m])
    BY <1>2 DEF Apply, applySegment
  <2>2. segment.environmentID \in DOMAIN s.environments
    BY <1>2 DEF SegmentSetError, OK
  <2>3. /\ v \in Segment
        /\ k = flagMapKey(v.environmentID, v.key)
        /\ v.environmentID = segment.environmentID
        /\ k \in EnvironmentID \X SegmentKey
    BY DEF Segment, flagMapKey
  <2> HIDE DEF k, v
  <2>4. IsMap(m, EnvironmentID \X SegmentKey, Segment)
    BY <2>3 DEF Good, Typed, IsMap, Put
  <2>5. \A x \in DOMAIN m : /\ x = flagMapKey(m[x].environmentID, m[x].key)
                            /\ m[x].environmentID \in DOMAIN s.environments
    BY <2>2, <2>3 DEF Good, OwnKeys, NoOrphans, Put
  <2>6. DOMAIN s.segments \subseteq DOMAIN m
    BY DEF Put
  <2> HIDE DEF m
  <2>7. Carried(s, [s EXCEPT !.segments = m])
    BY <2>4, <2>5, <2>6, SegmentsChange
  <2> QED
    BY <2>1, <2>7, CarriedSound
<1> QED
  BY <1>1, <1>2

\* Segments.Delete is sound: a segment in use stays.
LEMMA SegmentDeleteSound ==
    ASSUME NEW s, Good(s), NEW i, NEW key
    PROVE  Sound(s, i, Apply(s, i, [entity |-> "segment", op |-> "delete", key |-> key]))
<1> DEFINE cmd == [entity |-> "segment", op |-> "delete", key |-> key]
           m == Drop(s.segments, key)
           InUse == segmentReferenced(s, s.segments[key].environmentID, s.segments[key].key)
<1>1. CASE key \notin DOMAIN s.segments
  <2>1. Apply(s, i, cmd) = Accept(s)
    BY <1>1 DEF Apply, applySegment
  <2> QED
    BY <2>1, RefusalSound
<1>2. CASE key \in DOMAIN s.segments /\ InUse
  <2>1. Apply(s, i, cmd) = Reject(s, "ErrSegmentInUse")
    BY <1>2 DEF Apply, applySegment
  <2> QED
    BY <2>1, RefusalSound
<1>3. CASE key \in DOMAIN s.segments /\ ~InUse
  <2>1. Apply(s, i, cmd) = Accept([s EXCEPT !.segments = m])
    BY <1>3 DEF Apply, applySegment
  <2>2. key = flagMapKey(s.segments[key].environmentID, s.segments[key].key)
    BY <1>3 DEF Good, OwnKeys
  <2>3. \A k \in DOMAIN s.flags : \A ref \in s.flags[k].segmentRefs :
            flagMapKey(s.flags[k].environmentID, ref) # key
    BY <1>3, <2>2 DEF segmentReferenced, flagMapKey
  <2>4. IsMap(m, EnvironmentID \X SegmentKey, Segment)
    BY DEF Good, Typed, IsMap, Drop
  <2>5. /\ DOMAIN m = DOMAIN s.segments \ {key}
        /\ \A x \in DOMAIN m : m[x] = s.segments[x]
    BY DEF Drop
  <2> HIDE DEF m
  <2>6. \A x \in DOMAIN m : /\ x = flagMapKey(m[x].environmentID, m[x].key)
                            /\ m[x].environmentID \in DOMAIN s.environments
    BY <2>5 DEF Good, OwnKeys, NoOrphans
  <2>7. \A k \in DOMAIN s.flags : \A ref \in s.flags[k].segmentRefs :
            flagMapKey(s.flags[k].environmentID, ref) \in DOMAIN s.segments
              => flagMapKey(s.flags[k].environmentID, ref) \in DOMAIN m
    BY <2>3, <2>5
  <2>8. Carried(s, [s EXCEPT !.segments = m])
    BY <2>4, <2>6, <2>7, SegmentsChange
  <2> QED
    BY <2>1, <2>8, CarriedSound
<1> QED
  BY <1>1, <1>2, <1>3

\* Users.Set is sound: usernames stay distinct and the last admin stays one.
LEMMA UserSetSound ==
    ASSUME NEW s, Good(s), NEW i \in Nat, NEW user \in User
    PROVE  Sound(s, i, Apply(s, i, [entity |-> "user", op |-> "set", user |-> user]))
<1> DEFINE cmd == [entity |-> "user", op |-> "set", user |-> user]
           v == [user EXCEPT !.version = i]
           m == Put(s.users, user.id, v)
<1>1. CASE UserSetError(s, user) # OK
  <2>1. Apply(s, i, cmd) = Reject(s, UserSetError(s, user))
    BY <1>1 DEF Apply, applyUser
  <2> QED
    BY <2>1, RefusalSound
<1>2. CASE UserSetError(s, user) = OK
  <2>1. Apply(s, i, cmd) = Accept([s EXCEPT !.users = m])
    BY <1>2 DEF Apply, applyUser
  <2>2. /\ \A id \in DOMAIN s.users : s.users[id].username = user.username => id = user.id
        /\ isSoleActiveAdmin(s, user.id) => isActiveAdmin(user)
    BY <1>2 DEF UserSetError, OK
  <2>3. /\ v \in User
        /\ v.id = user.id
        /\ v.username = user.username
        /\ isActiveAdmin(user) => isActiveAdmin(v)
        /\ user.id \in UserID
    BY DEF User, isActiveAdmin
  <2> HIDE DEF v
  <2>4. IsMap(m, UserID, User)
    BY <2>3 DEF Good, Typed, IsMap, Put
  <2>5. /\ \A x \in DOMAIN m : m[x].id = x
        /\ \A x, y \in DOMAIN m : m[x].username = m[y].username => x = y
    BY <2>2, <2>3 DEF Good, OwnKeys, DistinctUsernames, Put
  <2>6. HasActiveAdmin(s) => \E id \in DOMAIN m : isActiveAdmin(m[id])
    <3>1. SUFFICES ASSUME NEW id \in DOMAIN s.users, isActiveAdmin(s.users[id])
                   PROVE  \E x \in DOMAIN m : isActiveAdmin(m[x])
      BY DEF HasActiveAdmin
    <3>2. DOMAIN m = DOMAIN s.users \cup {user.id} /\ m[user.id] = v
      BY DEF Put
    <3>3. \A x \in DOMAIN s.users \ {user.id} : m[x] = s.users[x]
      BY DEF Put
    <3>4. CASE isSoleActiveAdmin(s, user.id)
      BY <2>2, <2>3, <3>2, <3>4
    <3>5. CASE ~isSoleActiveAdmin(s, user.id)
      <4>1. \E x \in DOMAIN s.users \ {user.id} : isActiveAdmin(s.users[x])
        BY <3>1, <3>5 DEF isSoleActiveAdmin
      <4> QED
        BY <4>1, <3>2, <3>3
    <3> QED
      BY <3>4, <3>5
  <2> HIDE DEF m
  <2>7. Carried(s, [s EXCEPT !.users = m])
    BY <2>4, <2>5, <2>6, UsersChange
  <2> QED
    BY <2>1, <2>7, CarriedSound
<1> QED
  BY <1>1, <1>2

\* Users.Delete is sound: the last admin stays.
LEMMA UserDeleteSound ==
    ASSUME NEW s, Good(s), NEW i, NEW id
    PROVE  Sound(s, i, Apply(s, i, [entity |-> "user", op |-> "delete", key |-> id]))
<1> DEFINE cmd == [entity |-> "user", op |-> "delete", key |-> id]
           m == Drop(s.users, id)
<1>1. CASE isSoleActiveAdmin(s, id)
  <2>1. Apply(s, i, cmd) = Reject(s, "ErrLastAdmin")
    BY <1>1 DEF Apply, applyUser, UserDeleteError, OK
  <2> QED
    BY <2>1, RefusalSound
<1>2. CASE ~isSoleActiveAdmin(s, id)
  <2>1. Apply(s, i, cmd) = Accept([s EXCEPT !.users = m])
    BY <1>2 DEF Apply, applyUser, UserDeleteError
  <2>2. IsMap(m, UserID, User)
    BY DEF Good, Typed, IsMap, Drop
  <2>3. /\ DOMAIN m = DOMAIN s.users \ {id}
        /\ \A x \in DOMAIN m : m[x] = s.users[x]
    BY DEF Drop
  <2> HIDE DEF m
  <2>4. /\ \A x \in DOMAIN m : m[x].id = x
        /\ \A x, y \in DOMAIN m : m[x].username = m[y].username => x = y
    BY <2>3 DEF Good, OwnKeys, DistinctUsernames
  <2>5. HasActiveAdmin(s) => \E x \in DOMAIN m : isActiveAdmin(m[x])
    <3>1. SUFFICES ASSUME NEW a \in DOMAIN s.users, isActiveAdmin(s.users[a])
                   PROVE  \E x \in DOMAIN m : isActiveAdmin(m[x])
      BY DEF HasActiveAdmin
    <3>2. \E x \in DOMAIN s.users \ {id} : isActiveAdmin(s.users[x])
      BY <1>2, <3>1 DEF isSoleActiveAdmin
    <3> QED
      BY <2>3, <3>2
  <2>6. Carried(s, [s EXCEPT !.users = m])
    BY <2>2, <2>4, <2>5, UsersChange
  <2> QED
    BY <2>1, <2>6, CarriedSound
<1> QED
  BY <1>1, <1>2

\* Groups.Set is sound: the Admin group is written once.
LEMMA GroupSetSound ==
    ASSUME NEW s, Good(s), NEW i \in Nat, NEW group \in Group,
           group.id = AdminGroupID => group.system
    PROVE  Sound(s, i, Apply(s, i, [entity |-> "group", op |-> "set", group |-> group]))
<1> DEFINE cmd == [entity |-> "group", op |-> "set", group |-> group]
           v == [group EXCEPT !.version = i]
           m == Put(s.groups, group.id, v)
<1>1. CASE GroupError(s, group.id) # OK
  <2>1. Apply(s, i, cmd) = Reject(s, GroupError(s, group.id))
    BY <1>1 DEF Apply, applyGroup
  <2> QED
    BY <2>1, RefusalSound
<1>2. CASE GroupError(s, group.id) = OK
  <2>1. Apply(s, i, cmd) = Accept([s EXCEPT !.groups = m])
    BY <1>2 DEF Apply, applyGroup
  <2>2. group.id \in DOMAIN s.groups => ~s.groups[group.id].system
    BY <1>2 DEF GroupError, OK
  <2>3. /\ v \in Group
        /\ v.id = group.id
        /\ v.system = group.system
        /\ group.id \in GroupID
    BY DEF Group
  <2> HIDE DEF v
  <2>4. IsMap(m, GroupID, Group)
    BY <2>3 DEF Good, Typed, IsMap, Put
  <2>5. /\ DOMAIN m = DOMAIN s.groups \cup {group.id}
        /\ m[group.id] = v
        /\ \A x \in DOMAIN s.groups \ {group.id} : m[x] = s.groups[x]
    BY DEF Put
  <2> HIDE DEF m
  <2>6. \A x \in DOMAIN m : m[x].id = x
    BY <2>3, <2>5 DEF Good, OwnKeys
  <2>7. AdminGroupID \in DOMAIN m => m[AdminGroupID].system
    BY <2>3, <2>5 DEF Good, AdminIsSystem
  <2>8. AdminGroupID \in DOMAIN s.groups
          => AdminGroupID \in DOMAIN m /\ m[AdminGroupID] = s.groups[AdminGroupID]
    BY <2>2, <2>5 DEF Good, AdminIsSystem
  <2>9. Carried(s, [s EXCEPT !.groups = m])
    BY <2>4, <2>6, <2>7, <2>8, GroupsChange
  <2> QED
    BY <2>1, <2>9, CarriedSound
<1> QED
  BY <1>1, <1>2

\* Groups.Delete is sound: the Admin group stays.
LEMMA GroupDeleteSound ==
    ASSUME NEW s, Good(s), NEW i, NEW id
    PROVE  Sound(s, i, Apply(s, i, [entity |-> "group", op |-> "delete", key |-> id]))
<1> DEFINE cmd == [entity |-> "group", op |-> "delete", key |-> id]
           m == Drop(s.groups, id)
<1>1. CASE GroupError(s, id) # OK
  <2>1. Apply(s, i, cmd) = Reject(s, GroupError(s, id))
    BY <1>1 DEF Apply, applyGroup
  <2> QED
    BY <2>1, RefusalSound
<1>2. CASE GroupError(s, id) = OK
  <2>1. Apply(s, i, cmd) = Accept([s EXCEPT !.groups = m])
    BY <1>2 DEF Apply, applyGroup
  <2>2. id \in DOMAIN s.groups => ~s.groups[id].system
    BY <1>2 DEF GroupError, OK
  <2>3. IsMap(m, GroupID, Group)
    BY DEF Good, Typed, IsMap, Drop
  <2>4. /\ DOMAIN m = DOMAIN s.groups \ {id}
        /\ \A x \in DOMAIN m : m[x] = s.groups[x]
    BY DEF Drop
  <2> HIDE DEF m
  <2>5. /\ \A x \in DOMAIN m : m[x].id = x
        /\ AdminGroupID \in DOMAIN m => m[AdminGroupID].system
    BY <2>4 DEF Good, OwnKeys, AdminIsSystem
  <2>6. AdminGroupID \in DOMAIN s.groups
          => AdminGroupID \in DOMAIN m /\ m[AdminGroupID] = s.groups[AdminGroupID]
    BY <2>2, <2>4 DEF Good, AdminIsSystem
  <2>7. Carried(s, [s EXCEPT !.groups = m])
    BY <2>3, <2>5, <2>6, GroupsChange
  <2> QED
    BY <2>1, <2>7, CarriedSound
<1> QED
  BY <1>1, <1>2

\* Environments.Set is sound.
LEMMA EnvironmentSetSound ==
    ASSUME NEW s, Good(s), NEW i \in Nat, NEW environment \in Environment
    PROVE  Sound(s, i, Apply(s, i, [entity |-> "environment", op |-> "set",
                                 environment |-> environment]))
<1> DEFINE cmd == [entity |-> "environment", op |-> "set", environment |-> environment]
           v == [environment EXCEPT !.version = i]
           m == Put(s.environments, environment.id, v)
<1>1. Apply(s, i, cmd) = Accept([s EXCEPT !.environments = m])
  BY DEF Apply, applyEnvironment
<1>2. /\ v \in Environment
      /\ v.id = environment.id
      /\ environment.id \in EnvironmentID
  BY DEF Environment
<1> HIDE DEF v
<1>3. IsMap(m, EnvironmentID, Environment)
  BY <1>2 DEF Good, Typed, IsMap, Put
<1>4. /\ DOMAIN m = DOMAIN s.environments \cup {environment.id}
      /\ m[environment.id] = v
      /\ \A x \in DOMAIN s.environments \ {environment.id} : m[x] = s.environments[x]
  BY DEF Put
<1> HIDE DEF m
<1>5. (\A x \in DOMAIN m : m[x].id = x) /\ DOMAIN m # {}
  BY <1>2, <1>4 DEF Good, OwnKeys
<1>6. /\ \A k \in DOMAIN s.flags : s.flags[k].environmentID \in DOMAIN m
      /\ \A k \in DOMAIN s.segments : s.segments[k].environmentID \in DOMAIN m
      /\ \A k \in DOMAIN s.applicationCredentials :
             s.applicationCredentials[k].environmentID \in DOMAIN m
  BY <1>4 DEF Good, NoOrphans
<1>7. Carried(s, [s EXCEPT !.environments = m])
  BY <1>3, <1>5, <1>6, EnvironmentsChange
<1> QED
  BY <1>1, <1>7, CarriedSound

\* Environments.Delete is sound: the last environment and those in use stay.
LEMMA EnvironmentDeleteSound ==
    ASSUME NEW s, Good(s), NEW i, NEW id
    PROVE  Sound(s, i, Apply(s, i, [entity |-> "environment", op |-> "delete", key |-> id]))
<1> DEFINE cmd == [entity |-> "environment", op |-> "delete", key |-> id]
           m == Drop(s.environments, id)
<1>1. CASE EnvironmentDeleteError(s, id) # OK
  <2>1. Apply(s, i, cmd) = Reject(s, EnvironmentDeleteError(s, id))
    BY <1>1 DEF Apply, applyEnvironment
  <2> QED
    BY <2>1, RefusalSound
<1>2. CASE EnvironmentDeleteError(s, id) = OK
  <2>1. Apply(s, i, cmd) = Accept([s EXCEPT !.environments = m])
    BY <1>2 DEF Apply, applyEnvironment
  <2>2. /\ DOMAIN s.environments # {id}
        /\ ~hasFlagsInEnvironment(s, id)
        /\ ~hasCredentialsInEnvironment(s, id)
        /\ ~hasSegmentsInEnvironment(s, id)
    BY <1>2 DEF EnvironmentDeleteError, OK
  <2>3. IsMap(m, EnvironmentID, Environment)
    BY DEF Good, Typed, IsMap, Drop
  <2>4. /\ DOMAIN m = DOMAIN s.environments \ {id}
        /\ \A x \in DOMAIN m : m[x] = s.environments[x]
    BY DEF Drop
  <2> HIDE DEF m
  <2>5. \A x \in DOMAIN m : m[x].id = x
    BY <2>4 DEF Good, OwnKeys
  <2>6. DOMAIN s.environments # {} => DOMAIN m # {}
    BY <2>2, <2>4
  <2>7. /\ \A k \in DOMAIN s.flags : s.flags[k].environmentID \in DOMAIN m
        /\ \A k \in DOMAIN s.segments : s.segments[k].environmentID \in DOMAIN m
        /\ \A k \in DOMAIN s.applicationCredentials :
               s.applicationCredentials[k].environmentID \in DOMAIN m
    BY <2>2, <2>4 DEF Good, NoOrphans, hasFlagsInEnvironment, hasSegmentsInEnvironment,
                      hasCredentialsInEnvironment
  <2>8. Carried(s, [s EXCEPT !.environments = m])
    BY <2>3, <2>5, <2>6, <2>7, EnvironmentsChange
  <2> QED
    BY <2>1, <2>8, CarriedSound
<1> QED
  BY <1>1, <1>2

\* ApplicationCredentials.Set is sound: the environment exists.
LEMMA CredentialSetSound ==
    ASSUME NEW s, Good(s), NEW i \in Nat, NEW cred \in ApplicationCredential
    PROVE  Sound(s, i, Apply(s, i, [entity |-> "applicationCredential", op |-> "set",
                                 credential |-> cred]))
<1> DEFINE cmd == [entity |-> "applicationCredential", op |-> "set", credential |-> cred]
           v == [cred EXCEPT !.version = i]
           m == Put(s.applicationCredentials, cred.id, v)
<1>1. CASE CredentialSetError(s, cred) # OK
  <2>1. Apply(s, i, cmd) = Reject(s, CredentialSetError(s, cred))
    BY <1>1 DEF Apply, applyApplicationCredential
  <2> QED
    BY <2>1, RefusalSound
<1>2. CASE CredentialSetError(s, cred) = OK
  <2>1. Apply(s, i, cmd) = Accept([s EXCEPT !.applicationCredentials = m])
    BY <1>2 DEF Apply, applyApplicationCredential
  <2>2. cred.environmentID \in DOMAIN s.environments
    BY <1>2 DEF CredentialSetError, OK
  <2>3. /\ v \in ApplicationCredential
        /\ v.id = cred.id
        /\ v.environmentID = cred.environmentID
        /\ cred.id \in CredentialID
    BY DEF ApplicationCredential
  <2> HIDE DEF v
  <2>4. IsMap(m, CredentialID, ApplicationCredential)
    BY <2>3 DEF Good, Typed, IsMap, Put
  <2>5. \A x \in DOMAIN m : m[x].id = x /\ m[x].environmentID \in DOMAIN s.environments
    BY <2>2, <2>3 DEF Good, OwnKeys, NoOrphans, Put
  <2> HIDE DEF m
  <2>6. Carried(s, [s EXCEPT !.applicationCredentials = m])
    BY <2>4, <2>5, CredentialsChange
  <2> QED
    BY <2>1, <2>6, CarriedSound
<1> QED
  BY <1>1, <1>2

\* ApplicationCredentials.Delete is sound.
LEMMA CredentialDeleteSound ==
    ASSUME NEW s, Good(s), NEW i, NEW id
    PROVE  Sound(s, i, Apply(s, i, [entity |-> "applicationCredential", op |-> "delete",
                                 key |-> id]))
<1> DEFINE cmd == [entity |-> "applicationCredential", op |-> "delete", key |-> id]
           m == Drop(s.applicationCredentials, id)
<1>1. Apply(s, i, cmd) = Accept([s EXCEPT !.applicationCredentials = m])
  BY DEF Apply, applyApplicationCredential
<1>2. IsMap(m, CredentialID, ApplicationCredential)
  BY DEF Good, Typed, IsMap, Drop
<1>3. \A x \in DOMAIN m : x \in DOMAIN s.applicationCredentials
                          /\ m[x] = s.applicationCredentials[x]
  BY DEF Drop
<1> HIDE DEF m
<1>4. \A x \in DOMAIN m : m[x].id = x /\ m[x].environmentID \in DOMAIN s.environments
  BY <1>3 DEF Good, OwnKeys, NoOrphans
<1>5. Carried(s, [s EXCEPT !.applicationCredentials = m])
  BY <1>2, <1>4, CredentialsChange
<1> QED
  BY <1>1, <1>5, CarriedSound

\* AuditEntries.Append is sound at an index no entry has.
LEMMA AuditAppendSound ==
    ASSUME NEW s, Good(s), NEW i \in Nat, NEW entry \in AuditEntry,
           i \notin DOMAIN s.auditEntries
    PROVE  Sound(s, i, Apply(s, i, [entity |-> "audit", op |-> "append", audit |-> entry]))
<1> DEFINE cmd == [entity |-> "audit", op |-> "append", audit |-> entry]
           v == [entry EXCEPT !.id = i]
           m == Put(s.auditEntries, i, v)
<1>1. Apply(s, i, cmd) = Accept([s EXCEPT !.auditEntries = m])
  BY DEF Apply, applyAuditEntry
<1>2. v \in AuditEntry /\ v.id = i
  BY DEF AuditEntry
<1> HIDE DEF v
<1>3. IsMap(m, Nat, AuditEntry)
  BY <1>2 DEF Good, Typed, IsMap, Put
<1>4. \A x \in DOMAIN m : m[x].id = x
  BY <1>2 DEF Good, OwnKeys, Put
<1>5. /\ DOMAIN m = DOMAIN s.auditEntries \cup {i}
      /\ \A k \in DOMAIN s.auditEntries : m[k] = s.auditEntries[k]
  BY DEF Put
<1> HIDE DEF m
<1>6. /\ Good([s EXCEPT !.auditEntries = m])
      /\ Kept(s, [s EXCEPT !.auditEntries = m])
      /\ [s EXCEPT !.auditEntries = m].auditEntries = m
  BY <1>3, <1>4, <1>5, AuditChange
<1> DEFINE t == [s EXCEPT !.auditEntries = m]
<1> HIDE DEF t
<1>7. Sound(s, i, Accept(t))
  BY <1>5, <1>6 DEF Sound, Accept, t
<1> QED
  BY <1>1, <1>7 DEF t

----------------------------------------------------------------------------
(* Versions.  A command stamps what it writes with its index, all of it    *)
(* under one kind and key, and stamps nothing else.                        *)

\* What is written from s to t, if anything, is written at index i under one key.
Stamps(s, i, t) ==
    \E kind, key : \A r \in Stamped(t) \ Stamped(s) : r = <<kind, i, key>>

\* A command that changes nothing, or drops records, stamps nothing.
LEMMA StampsRefl == ASSUME NEW s, NEW i PROVE Stamps(s, i, s)
BY DEF Stamps

\* A new flag map, of which each flag is an old one or written at i under key.
LEMMA FlagsStamp ==
    ASSUME NEW s, Shape(s), NEW i, NEW key, NEW m,
           \A k \in DOMAIN m : \/ k \in DOMAIN s.flags /\ m[k] = s.flags[k]
                               \/ m[k].revision = i /\ m[k].key = key
    PROVE  Stamps(s, i, [s EXCEPT !.flags = m])
<1> DEFINE t == [s EXCEPT !.flags = m]
<1>1. /\ t.flags = m
      /\ t.segments = s.segments
      /\ t.users = s.users
      /\ t.groups = s.groups
      /\ t.auditEntries = s.auditEntries
      /\ t.environments = s.environments
      /\ t.applicationCredentials = s.applicationCredentials
  BY FlagsFrame
<1> HIDE DEF t
<1>2. ASSUME NEW r \in Stamped(t) \ Stamped(s)
      PROVE  r = <<"flag", i, key>>
  BY <1>1 DEF Stamped
<1> QED
  BY <1>2 DEF Stamps, t

\* A new segment map, of which each record is an old one or written at i under key.
LEMMA SegmentsStamp ==
    ASSUME NEW s, Shape(s), NEW i, NEW key, NEW m,
           \A k \in DOMAIN m : \/ k \in DOMAIN s.segments /\ m[k] = s.segments[k]
                               \/ k = key /\ m[k].revision = i
    PROVE  Stamps(s, i, [s EXCEPT !.segments = m])
<1> DEFINE t == [s EXCEPT !.segments = m]
<1>1. /\ t.segments = m
      /\ t.flags = s.flags
      /\ t.users = s.users
      /\ t.groups = s.groups
      /\ t.auditEntries = s.auditEntries
      /\ t.environments = s.environments
      /\ t.applicationCredentials = s.applicationCredentials
  BY SegmentsFrame
<1> HIDE DEF t
<1>2. ASSUME NEW r \in Stamped(t) \ Stamped(s)
      PROVE  r = <<"segment", i, key>>
  BY <1>1 DEF Stamped
<1> QED
  BY <1>2 DEF Stamps, t

\* A new user map, of which each record is an old one or written at i under key.
LEMMA UsersStamp ==
    ASSUME NEW s, Shape(s), NEW i, NEW key, NEW m,
           \A k \in DOMAIN m : \/ k \in DOMAIN s.users /\ m[k] = s.users[k]
                               \/ k = key /\ m[k].version = i
    PROVE  Stamps(s, i, [s EXCEPT !.users = m])
<1> DEFINE t == [s EXCEPT !.users = m]
<1>1. /\ t.users = m
      /\ t.flags = s.flags
      /\ t.segments = s.segments
      /\ t.groups = s.groups
      /\ t.auditEntries = s.auditEntries
      /\ t.environments = s.environments
      /\ t.applicationCredentials = s.applicationCredentials
  BY UsersFrame
<1> HIDE DEF t
<1>2. ASSUME NEW r \in Stamped(t) \ Stamped(s)
      PROVE  r = <<"user", i, key>>
  BY <1>1 DEF Stamped
<1> QED
  BY <1>2 DEF Stamps, t

\* A new group map, of which each record is an old one or written at i under key.
LEMMA GroupsStamp ==
    ASSUME NEW s, Shape(s), NEW i, NEW key, NEW m,
           \A k \in DOMAIN m : \/ k \in DOMAIN s.groups /\ m[k] = s.groups[k]
                               \/ k = key /\ m[k].version = i
    PROVE  Stamps(s, i, [s EXCEPT !.groups = m])
<1> DEFINE t == [s EXCEPT !.groups = m]
<1>1. /\ t.groups = m
      /\ t.flags = s.flags
      /\ t.segments = s.segments
      /\ t.users = s.users
      /\ t.auditEntries = s.auditEntries
      /\ t.environments = s.environments
      /\ t.applicationCredentials = s.applicationCredentials
  BY GroupsFrame
<1> HIDE DEF t
<1>2. ASSUME NEW r \in Stamped(t) \ Stamped(s)
      PROVE  r = <<"group", i, key>>
  BY <1>1 DEF Stamped
<1> QED
  BY <1>2 DEF Stamps, t

\* A new audit map, of which each record is an old one or written at i.
LEMMA AuditStamp ==
    ASSUME NEW s, Shape(s), NEW i, NEW key, NEW m,
           \A k \in DOMAIN m : \/ k \in DOMAIN s.auditEntries /\ m[k] = s.auditEntries[k]
                               \/ k = i /\ m[k].id = key
    PROVE  Stamps(s, i, [s EXCEPT !.auditEntries = m])
<1> DEFINE t == [s EXCEPT !.auditEntries = m]
<1>1. /\ t.auditEntries = m
      /\ t.flags = s.flags
      /\ t.segments = s.segments
      /\ t.users = s.users
      /\ t.groups = s.groups
      /\ t.environments = s.environments
      /\ t.applicationCredentials = s.applicationCredentials
  BY AuditFrame
<1> HIDE DEF t
<1>2. ASSUME NEW r \in Stamped(t) \ Stamped(s)
      PROVE  r = <<"audit", i, key>>
  BY <1>1 DEF Stamped
<1> QED
  BY <1>2 DEF Stamps, t

\* A new environment map, of which each record is an old one or written at i under key.
LEMMA EnvironmentsStamp ==
    ASSUME NEW s, Shape(s), NEW i, NEW key, NEW m,
           \A k \in DOMAIN m : \/ k \in DOMAIN s.environments /\ m[k] = s.environments[k]
                               \/ k = key /\ m[k].version = i
    PROVE  Stamps(s, i, [s EXCEPT !.environments = m])
<1> DEFINE t == [s EXCEPT !.environments = m]
<1>1. /\ t.environments = m
      /\ t.flags = s.flags
      /\ t.segments = s.segments
      /\ t.users = s.users
      /\ t.groups = s.groups
      /\ t.auditEntries = s.auditEntries
      /\ t.applicationCredentials = s.applicationCredentials
  BY EnvironmentsFrame
<1> HIDE DEF t
<1>2. ASSUME NEW r \in Stamped(t) \ Stamped(s)
      PROVE  r = <<"environment", i, key>>
  BY <1>1 DEF Stamped
<1> QED
  BY <1>2 DEF Stamps, t

\* A new credential map, of which each record is an old one or written at i under key.
LEMMA CredentialsStamp ==
    ASSUME NEW s, Shape(s), NEW i, NEW key, NEW m,
           \A k \in DOMAIN m : \/ k \in DOMAIN s.applicationCredentials /\ m[k] = s.applicationCredentials[k]
                               \/ k = key /\ m[k].version = i
    PROVE  Stamps(s, i, [s EXCEPT !.applicationCredentials = m])
<1> DEFINE t == [s EXCEPT !.applicationCredentials = m]
<1>1. /\ t.applicationCredentials = m
      /\ t.flags = s.flags
      /\ t.segments = s.segments
      /\ t.users = s.users
      /\ t.groups = s.groups
      /\ t.auditEntries = s.auditEntries
      /\ t.environments = s.environments
  BY CredentialsFrame
<1> HIDE DEF t
<1>2. ASSUME NEW r \in Stamped(t) \ Stamped(s)
      PROVE  r = <<"credential", i, key>>
  BY <1>1 DEF Stamped
<1> QED
  BY <1>2 DEF Stamps, t

\* Flags.Set stamps one key.
LEMMA FlagSetStamps ==
    ASSUME NEW s, Shape(s), NEW i, NEW flag \in FlagArgument
    PROVE  Stamps(s, i, Apply(s, i, [entity |-> "flag", op |-> "set", flag |-> flag]).state)
<1> DEFINE cmd == [entity |-> "flag", op |-> "set", flag |-> flag]
           v == stampFlag(flag, i)
           m == Put(s.flags, flagMapKey(flag.environmentID, flag.key), v)
<1>1. \/ Apply(s, i, cmd).state = s
      \/ Apply(s, i, cmd).state = [s EXCEPT !.flags = m]
  BY DEF Apply, applyFlag, Accept, Reject
<1>2. v.revision = i /\ v.key = flag.key
  BY DEF FlagArgument, stampFlag
<1> HIDE DEF v
<1>3. \A k \in DOMAIN m : \/ k \in DOMAIN s.flags /\ m[k] = s.flags[k]
                          \/ m[k].revision = i /\ m[k].key = flag.key
  BY <1>2 DEF Put
<1> HIDE DEF m
<1>4. Stamps(s, i, [s EXCEPT !.flags = m])
  BY <1>3, FlagsStamp
<1> QED
  BY <1>1, <1>4, StampsRefl

\* Flags.Delete stamps nothing.
LEMMA FlagDeleteStamps ==
    ASSUME NEW s, Shape(s), NEW i, NEW key
    PROVE  Stamps(s, i, Apply(s, i, [entity |-> "flag", op |-> "delete", key |-> key]).state)
<1> DEFINE cmd == [entity |-> "flag", op |-> "delete", key |-> key]
           m == Drop(s.flags, key)
<1>1. \/ Apply(s, i, cmd).state = s
      \/ Apply(s, i, cmd).state = [s EXCEPT !.flags = m]
  BY DEF Apply, applyFlag, Accept, Reject
<1>2. \A k \in DOMAIN m : k \in DOMAIN s.flags /\ m[k] = s.flags[k]
  BY DEF Drop
<1> HIDE DEF m
<1>3. Stamps(s, i, [s EXCEPT !.flags = m])
  BY <1>2, FlagsStamp
<1> QED
  BY <1>1, <1>3, StampsRefl

\* Segments.Set stamps one key.
LEMMA SegmentSetStamps ==
    ASSUME NEW s, Shape(s), NEW i, NEW segment \in Segment
    PROVE  Stamps(s, i, Apply(s, i, [entity |-> "segment", op |-> "set", segment |-> segment]).state)
<1> DEFINE cmd == [entity |-> "segment", op |-> "set", segment |-> segment]
           v == [segment EXCEPT !.revision = i]
           m == Put(s.segments, flagMapKey(segment.environmentID, segment.key), v)
<1>1. \/ Apply(s, i, cmd).state = s
      \/ Apply(s, i, cmd).state = [s EXCEPT !.segments = m]
  BY DEF Apply, applySegment, Accept, Reject
<1>2. v.revision = i
  BY DEF Segment
<1> HIDE DEF v
<1>3. \A k \in DOMAIN m : \/ k \in DOMAIN s.segments /\ m[k] = s.segments[k]
                          \/ k = flagMapKey(segment.environmentID, segment.key) /\ m[k].revision = i
  BY <1>2 DEF Put
<1> HIDE DEF m
<1>4. Stamps(s, i, [s EXCEPT !.segments = m])
  BY <1>3, SegmentsStamp
<1> QED
  BY <1>1, <1>4, StampsRefl

\* Segments.Delete stamps nothing.
LEMMA SegmentDeleteStamps ==
    ASSUME NEW s, Shape(s), NEW i, NEW key
    PROVE  Stamps(s, i, Apply(s, i, [entity |-> "segment", op |-> "delete", key |-> key]).state)
<1> DEFINE cmd == [entity |-> "segment", op |-> "delete", key |-> key]
           m == Drop(s.segments, key)
<1>1. \/ Apply(s, i, cmd).state = s
      \/ Apply(s, i, cmd).state = [s EXCEPT !.segments = m]
  BY DEF Apply, applySegment, Accept, Reject
<1>2. \A k \in DOMAIN m : k \in DOMAIN s.segments /\ m[k] = s.segments[k]
  BY DEF Drop
<1> HIDE DEF m
<1>3. Stamps(s, i, [s EXCEPT !.segments = m])
  BY <1>2, SegmentsStamp
<1> QED
  BY <1>1, <1>3, StampsRefl

\* Users.Set stamps one key.
LEMMA UserSetStamps ==
    ASSUME NEW s, Shape(s), NEW i, NEW user \in User
    PROVE  Stamps(s, i, Apply(s, i, [entity |-> "user", op |-> "set", user |-> user]).state)
<1> DEFINE cmd == [entity |-> "user", op |-> "set", user |-> user]
           v == [user EXCEPT !.version = i]
           m == Put(s.users, user.id, v)
<1>1. \/ Apply(s, i, cmd).state = s
      \/ Apply(s, i, cmd).state = [s EXCEPT !.users = m]
  BY DEF Apply, applyUser, Accept, Reject
<1>2. v.version = i
  BY DEF User
<1> HIDE DEF v
<1>3. \A k \in DOMAIN m : \/ k \in DOMAIN s.users /\ m[k] = s.users[k]
                          \/ k = user.id /\ m[k].version = i
  BY <1>2 DEF Put
<1> HIDE DEF m
<1>4. Stamps(s, i, [s EXCEPT !.users = m])
  BY <1>3, UsersStamp
<1> QED
  BY <1>1, <1>4, StampsRefl

\* Users.Delete stamps nothing.
LEMMA UserDeleteStamps ==
    ASSUME NEW s, Shape(s), NEW i, NEW key
    PROVE  Stamps(s, i, Apply(s, i, [entity |-> "user", op |-> "delete", key |-> key]).state)
<1> DEFINE cmd == [entity |-> "user", op |-> "delete", key |-> key]
           m == Drop(s.users, key)
<1>1. \/ Apply(s, i, cmd).state = s
      \/ Apply(s, i, cmd).state = [s EXCEPT !.users = m]
  BY DEF Apply, applyUser, Accept, Reject
<1>2. \A k \in DOMAIN m : k \in DOMAIN s.users /\ m[k] = s.users[k]
  BY DEF Drop
<1> HIDE DEF m
<1>3. Stamps(s, i, [s EXCEPT !.users = m])
  BY <1>2, UsersStamp
<1> QED
  BY <1>1, <1>3, StampsRefl

\* Groups.Set stamps one key.
LEMMA GroupSetStamps ==
    ASSUME NEW s, Shape(s), NEW i, NEW group \in Group
    PROVE  Stamps(s, i, Apply(s, i, [entity |-> "group", op |-> "set", group |-> group]).state)
<1> DEFINE cmd == [entity |-> "group", op |-> "set", group |-> group]
           v == [group EXCEPT !.version = i]
           m == Put(s.groups, group.id, v)
<1>1. \/ Apply(s, i, cmd).state = s
      \/ Apply(s, i, cmd).state = [s EXCEPT !.groups = m]
  BY DEF Apply, applyGroup, Accept, Reject
<1>2. v.version = i
  BY DEF Group
<1> HIDE DEF v
<1>3. \A k \in DOMAIN m : \/ k \in DOMAIN s.groups /\ m[k] = s.groups[k]
                          \/ k = group.id /\ m[k].version = i
  BY <1>2 DEF Put
<1> HIDE DEF m
<1>4. Stamps(s, i, [s EXCEPT !.groups = m])
  BY <1>3, GroupsStamp
<1> QED
  BY <1>1, <1>4, StampsRefl

\* Groups.Delete stamps nothing.
LEMMA GroupDeleteStamps ==
    ASSUME NEW s, Shape(s), NEW i, NEW key
    PROVE  Stamps(s, i, Apply(s, i, [entity |-> "group", op |-> "delete", key |-> key]).state)
<1> DEFINE cmd == [entity |-> "group", op |-> "delete", key |-> key]
           m == Drop(s.groups, key)
<1>1. \/ Apply(s, i, cmd).state = s
      \/ Apply(s, i, cmd).state = [s EXCEPT !.groups = m]
  BY DEF Apply, applyGroup, Accept, Reject
<1>2. \A k \in DOMAIN m : k \in DOMAIN s.groups /\ m[k] = s.groups[k]
  BY DEF Drop
<1> HIDE DEF m
<1>3. Stamps(s, i, [s EXCEPT !.groups = m])
  BY <1>2, GroupsStamp
<1> QED
  BY <1>1, <1>3, StampsRefl

\* Environments.Set stamps one key.
LEMMA EnvironmentSetStamps ==
    ASSUME NEW s, Shape(s), NEW i, NEW environment \in Environment
    PROVE  Stamps(s, i, Apply(s, i, [entity |-> "environment", op |-> "set", environment |-> environment]).state)
<1> DEFINE cmd == [entity |-> "environment", op |-> "set", environment |-> environment]
           v == [environment EXCEPT !.version = i]
           m == Put(s.environments, environment.id, v)
<1>1. \/ Apply(s, i, cmd).state = s
      \/ Apply(s, i, cmd).state = [s EXCEPT !.environments = m]
  BY DEF Apply, applyEnvironment, Accept, Reject
<1>2. v.version = i
  BY DEF Environment
<1> HIDE DEF v
<1>3. \A k \in DOMAIN m : \/ k \in DOMAIN s.environments /\ m[k] = s.environments[k]
                          \/ k = environment.id /\ m[k].version = i
  BY <1>2 DEF Put
<1> HIDE DEF m
<1>4. Stamps(s, i, [s EXCEPT !.environments = m])
  BY <1>3, EnvironmentsStamp
<1> QED
  BY <1>1, <1>4, StampsRefl

\* Environments.Delete stamps nothing.
LEMMA EnvironmentDeleteStamps ==
    ASSUME NEW s, Shape(s), NEW i, NEW key
    PROVE  Stamps(s, i, Apply(s, i, [entity |-> "environment", op |-> "delete", key |-> key]).state)
<1> DEFINE cmd == [entity |-> "environment", op |-> "delete", key |-> key]
           m == Drop(s.environments, key)
<1>1. \/ Apply(s, i, cmd).state = s
      \/ Apply(s, i, cmd).state = [s EXCEPT !.environments = m]
  BY DEF Apply, applyEnvironment, Accept, Reject
<1>2. \A k \in DOMAIN m : k \in DOMAIN s.environments /\ m[k] = s.environments[k]
  BY DEF Drop
<1> HIDE DEF m
<1>3. Stamps(s, i, [s EXCEPT !.environments = m])
  BY <1>2, EnvironmentsStamp
<1> QED
  BY <1>1, <1>3, StampsRefl

\* ApplicationCredentials.Set stamps one key.
LEMMA CredentialSetStamps ==
    ASSUME NEW s, Shape(s), NEW i, NEW cred \in ApplicationCredential
    PROVE  Stamps(s, i, Apply(s, i, [entity |-> "applicationCredential", op |-> "set", credential |-> cred]).state)
<1> DEFINE cmd == [entity |-> "applicationCredential", op |-> "set", credential |-> cred]
           v == [cred EXCEPT !.version = i]
           m == Put(s.applicationCredentials, cred.id, v)
<1>1. \/ Apply(s, i, cmd).state = s
      \/ Apply(s, i, cmd).state = [s EXCEPT !.applicationCredentials = m]
  BY DEF Apply, applyApplicationCredential, Accept, Reject
<1>2. v.version = i
  BY DEF ApplicationCredential
<1> HIDE DEF v
<1>3. \A k \in DOMAIN m : \/ k \in DOMAIN s.applicationCredentials /\ m[k] = s.applicationCredentials[k]
                          \/ k = cred.id /\ m[k].version = i
  BY <1>2 DEF Put
<1> HIDE DEF m
<1>4. Stamps(s, i, [s EXCEPT !.applicationCredentials = m])
  BY <1>3, CredentialsStamp
<1> QED
  BY <1>1, <1>4, StampsRefl

\* ApplicationCredentials.Delete stamps nothing.
LEMMA CredentialDeleteStamps ==
    ASSUME NEW s, Shape(s), NEW i, NEW key
    PROVE  Stamps(s, i, Apply(s, i, [entity |-> "applicationCredential", op |-> "delete", key |-> key]).state)
<1> DEFINE cmd == [entity |-> "applicationCredential", op |-> "delete", key |-> key]
           m == Drop(s.applicationCredentials, key)
<1>1. \/ Apply(s, i, cmd).state = s
      \/ Apply(s, i, cmd).state = [s EXCEPT !.applicationCredentials = m]
  BY DEF Apply, applyApplicationCredential, Accept, Reject
<1>2. \A k \in DOMAIN m : k \in DOMAIN s.applicationCredentials /\ m[k] = s.applicationCredentials[k]
  BY DEF Drop
<1> HIDE DEF m
<1>3. Stamps(s, i, [s EXCEPT !.applicationCredentials = m])
  BY <1>2, CredentialsStamp
<1> QED
  BY <1>1, <1>3, StampsRefl

\* AuditEntries.Append stamps the entry's ID, its index.
LEMMA AuditAppendStamps ==
    ASSUME NEW s, Shape(s), NEW i, NEW entry \in AuditEntry
    PROVE  Stamps(s, i, Apply(s, i, [entity |-> "audit", op |-> "append", audit |-> entry]).state)
<1> DEFINE cmd == [entity |-> "audit", op |-> "append", audit |-> entry]
           v == [entry EXCEPT !.id = i]
           m == Put(s.auditEntries, i, v)
<1>1. Apply(s, i, cmd).state = [s EXCEPT !.auditEntries = m]
  BY DEF Apply, applyAuditEntry, Accept
<1>2. v.id = i
  BY DEF AuditEntry
<1> HIDE DEF v
<1>3. \A k \in DOMAIN m : \/ k \in DOMAIN s.auditEntries /\ m[k] = s.auditEntries[k]
                          \/ k = i /\ m[k].id = i
  BY <1>2 DEF Put
<1> HIDE DEF m
<1>4. Stamps(s, i, [s EXCEPT !.auditEntries = m])
  BY <1>3, AuditStamp
<1> QED
  BY <1>1, <1>4

\* Flags.SetMany stamps one flag key, in whichever environments it is for.
LEMMA FlagSetManyStamps ==
    ASSUME NEW s, Shape(s), NEW i, NEW flags \in Seq(FlagArgument), NEW key,
           \A j \in DOMAIN flags : flags[j].key = key
    PROVE  Stamps(s, i, Apply(s, i, [entity |-> "flag", op |-> "setBatch", flags |-> flags]).state)
<1> DEFINE cmd == [entity |-> "flag", op |-> "setBatch", flags |-> flags]
           m == [k \in DOMAIN s.flags \cup BatchKeys(flags) |->
                    IF k \in BatchKeys(flags) THEN stampFlag(BatchEntry(flags, k), i)
                    ELSE s.flags[k]]
<1>1. \/ Apply(s, i, cmd).state = s
      \/ Apply(s, i, cmd).state = [s EXCEPT !.flags = m]
  BY DEF Apply, applyFlag, SetBatch, PutBatch, Accept, Reject
<1>2. ASSUME NEW k \in BatchKeys(flags)
      PROVE  /\ stampFlag(BatchEntry(flags, k), i).revision = i
             /\ stampFlag(BatchEntry(flags, k), i).key = key
  <2>1. PICK j \in DOMAIN flags : BatchEntry(flags, k) = flags[j]
    BY BatchEntryKey
  <2>2. flags[j] \in FlagArgument /\ flags[j].key = key
    OBVIOUS
  <2> QED
    BY <2>1, <2>2 DEF stampFlag, FlagArgument
<1>3. \A k \in DOMAIN m : \/ k \in DOMAIN s.flags /\ m[k] = s.flags[k]
                          \/ m[k].revision = i /\ m[k].key = key
  BY <1>2
<1> HIDE DEF m
<1>4. Stamps(s, i, [s EXCEPT !.flags = m])
  BY <1>3, FlagsStamp
<1> QED
  BY <1>1, <1>4, StampsRefl


----------------------------------------------------------------------------
(* Any command of the repositories.                                        *)

\* The fourteen commands, one disjunct per mutating repository method.
CommandForm(c) ==
    \/ \E flag \in FlagInput : c = [entity |-> "flag", op |-> "set", flag |-> flag]
    \/ \E definition \in FlagInput, environmentIDs \in EnvironmentIDList :
         c = [entity |-> "flag", op |-> "setBatch",
              flags |-> FlagsOf(definition, environmentIDs)]
    \/ \E environmentID \in EnvironmentID, key \in FlagKey :
         c = [entity |-> "flag", op |-> "delete", key |-> flagMapKey(environmentID, key)]
    \/ \E segment \in SegmentInput :
         c = [entity |-> "segment", op |-> "set", segment |-> segment]
    \/ \E environmentID \in EnvironmentID, key \in SegmentKey :
         c = [entity |-> "segment", op |-> "delete", key |-> flagMapKey(environmentID, key)]
    \/ \E user \in UserInput : c = [entity |-> "user", op |-> "set", user |-> user]
    \/ \E id \in UserID : c = [entity |-> "user", op |-> "delete", key |-> id]
    \/ \E group \in GroupInput : c = [entity |-> "group", op |-> "set", group |-> group]
    \/ \E id \in GroupID : c = [entity |-> "group", op |-> "delete", key |-> id]
    \/ \E environment \in EnvironmentInput :
         c = [entity |-> "environment", op |-> "set", environment |-> environment]
    \/ \E id \in EnvironmentID : c = [entity |-> "environment", op |-> "delete", key |-> id]
    \/ \E cred \in CredentialInput :
         c = [entity |-> "applicationCredential", op |-> "set", credential |-> cred]
    \/ \E id \in CredentialID :
         c = [entity |-> "applicationCredential", op |-> "delete", key |-> id]
    \/ \E entry \in AuditInput : c = [entity |-> "audit", op |-> "append", audit |-> entry]

\* Command is the set of them.
LEMMA CommandForms == \A cmd : cmd \in Command <=> CommandForm(cmd)
<1>1. ASSUME NEW cmd, cmd \in Command PROVE CommandForm(cmd)
  BY <1>1 DEF Command, CommandForm
<1>2. ASSUME NEW cmd, CommandForm(cmd) PROVE cmd \in Command
  BY <1>2 DEF Command, CommandForm
<1> QED
  BY <1>1, <1>2

\* What a command of the repositories can be, by its entity and op; the flags
\* of a batch have one key.
LEMMA CommandCases ==
    ASSUME NEW cmd \in Command
    PROVE  \/ \E flag \in FlagArgument : cmd = [entity |-> "flag", op |-> "set", flag |-> flag]
           \/ \E flags \in Seq(FlagArgument) : \E key :
                /\ \A j \in DOMAIN flags : flags[j].key = key
                /\ cmd = [entity |-> "flag", op |-> "setBatch", flags |-> flags]
           \/ \E key : cmd = [entity |-> "flag", op |-> "delete", key |-> key]
           \/ \E segment \in Segment :
                cmd = [entity |-> "segment", op |-> "set", segment |-> segment]
           \/ \E key : cmd = [entity |-> "segment", op |-> "delete", key |-> key]
           \/ \E user \in User : cmd = [entity |-> "user", op |-> "set", user |-> user]
           \/ \E key : cmd = [entity |-> "user", op |-> "delete", key |-> key]
           \/ \E group \in Group :
                /\ group.id = AdminGroupID => group.system
                /\ cmd = [entity |-> "group", op |-> "set", group |-> group]
           \/ \E key : cmd = [entity |-> "group", op |-> "delete", key |-> key]
           \/ \E environment \in Environment :
                cmd = [entity |-> "environment", op |-> "set", environment |-> environment]
           \/ \E key : cmd = [entity |-> "environment", op |-> "delete", key |-> key]
           \/ \E cred \in ApplicationCredential :
                cmd = [entity |-> "applicationCredential", op |-> "set", credential |-> cred]
           \/ \E key : cmd = [entity |-> "applicationCredential", op |-> "delete", key |-> key]
           \/ \E entry \in AuditEntry :
                cmd = [entity |-> "audit", op |-> "append", audit |-> entry]
<1>1. \A definition \in FlagInput, environmentIDs \in EnvironmentIDList :
        /\ FlagsOf(definition, environmentIDs) \in Seq(FlagArgument)
        /\ \A j \in DOMAIN FlagsOf(definition, environmentIDs) :
             FlagsOf(definition, environmentIDs)[j].key = definition.key
  <2>1. SUFFICES ASSUME NEW definition \in FlagInput, NEW environmentIDs \in EnvironmentIDList
                 PROVE  LET flags == FlagsOf(definition, environmentIDs) IN
                        /\ flags \in Seq(FlagArgument)
                        /\ \A j \in DOMAIN flags : flags[j].key = definition.key
    OBVIOUS
  <2>2. definition \in FlagArgument /\ environmentIDs \in Seq(EnvironmentID)
    BY InputAssumption
  <2>3. DOMAIN environmentIDs = 1..Len(environmentIDs) /\ Len(environmentIDs) \in Nat
    BY <2>2
  <2>4. \A j \in DOMAIN environmentIDs :
            LET flag == [definition EXCEPT !.environmentID = environmentIDs[j]]
            IN  flag \in FlagArgument /\ flag.key = definition.key
    BY <2>2 DEF FlagArgument
  <2>5. FlagsOf(definition, environmentIDs) \in [1..Len(environmentIDs) -> FlagArgument]
    BY <2>3, <2>4 DEF FlagsOf
  <2>6. FlagsOf(definition, environmentIDs) \in Seq(FlagArgument)
    BY <2>3, <2>5, IsASeq
  <2> QED
    BY <2>4, <2>6 DEF FlagsOf
<1>2. \A group \in GroupInput : group \in Group /\ (group.id = AdminGroupID => group.system)
  BY GroupInputAssumption
<1>3. CommandForm(cmd)
  BY CommandForms
<1>4. /\ \A flag \in FlagInput : flag \in FlagArgument
      /\ \A segment \in SegmentInput : segment \in Segment
      /\ \A user \in UserInput : user \in User
      /\ \A environment \in EnvironmentInput : environment \in Environment
      /\ \A cred \in CredentialInput : cred \in ApplicationCredential
      /\ \A entry \in AuditInput : entry \in AuditEntry
  BY InputAssumption
<1> QED
  BY <1>1, <1>2, <1>3, <1>4, Zenon DEF CommandForm

\* Applying any command to a good state is sound, at an index no entry has.
LEMMA CommandSound ==
    ASSUME NEW s, Good(s), NEW i \in Nat, i \notin DOMAIN s.auditEntries, NEW cmd \in Command
    PROVE  Sound(s, i, Apply(s, i, cmd))
<1> DEFINE P(c) == Sound(s, i, Apply(s, i, c))
<1>1. \A flag \in FlagArgument : P([entity |-> "flag", op |-> "set", flag |-> flag])
  BY FlagSetSound
<1>2. \A flags \in Seq(FlagArgument) : \A key :
           (\A j \in DOMAIN flags : flags[j].key = key)
             => P([entity |-> "flag", op |-> "setBatch", flags |-> flags])
  BY FlagSetManySound
<1>3. \A key : P([entity |-> "flag", op |-> "delete", key |-> key])
  BY FlagDeleteSound
<1>4. \A segment \in Segment : P([entity |-> "segment", op |-> "set", segment |-> segment])
  BY SegmentSetSound
<1>5. \A key : P([entity |-> "segment", op |-> "delete", key |-> key])
  BY SegmentDeleteSound
<1>6. \A user \in User : P([entity |-> "user", op |-> "set", user |-> user])
  BY UserSetSound
<1>7. \A key : P([entity |-> "user", op |-> "delete", key |-> key])
  BY UserDeleteSound
<1>8. \A group \in Group :
           (group.id = AdminGroupID => group.system)
             => P([entity |-> "group", op |-> "set", group |-> group])
  BY GroupSetSound
<1>9. \A key : P([entity |-> "group", op |-> "delete", key |-> key])
  BY GroupDeleteSound
<1>10. \A environment \in Environment :
           P([entity |-> "environment", op |-> "set", environment |-> environment])
  BY EnvironmentSetSound
<1>11. \A key : P([entity |-> "environment", op |-> "delete", key |-> key])
  BY EnvironmentDeleteSound
<1>12. \A cred \in ApplicationCredential :
           P([entity |-> "applicationCredential", op |-> "set", credential |-> cred])
  BY CredentialSetSound
<1>13. \A key : P([entity |-> "applicationCredential", op |-> "delete", key |-> key])
  BY CredentialDeleteSound
<1>14. \A entry \in AuditEntry : P([entity |-> "audit", op |-> "append", audit |-> entry])
  BY AuditAppendSound
<1> HIDE DEF P
<1>15. P(cmd)
  BY <1>1, <1>2, <1>3, <1>4, <1>5, <1>6, <1>7, <1>8,
     <1>9, <1>10, <1>11, <1>12, <1>13, <1>14, CommandCases
<1> QED
  BY <1>15 DEF P

\* Any command stamps what it writes with its index, under one kind and key.
LEMMA CommandStamps ==
    ASSUME NEW s, Good(s), NEW i \in Nat, NEW cmd \in Command
    PROVE  Stamps(s, i, Apply(s, i, cmd).state)
<1> DEFINE P(c) == Stamps(s, i, Apply(s, i, c).state)
<1>0. Shape(s)
  BY DEF Good, Typed, Shape
<1>1. \A flag \in FlagArgument : P([entity |-> "flag", op |-> "set", flag |-> flag])
  BY <1>0, FlagSetStamps
<1>2. \A flags \in Seq(FlagArgument) : \A key :
           (\A j \in DOMAIN flags : flags[j].key = key)
             => P([entity |-> "flag", op |-> "setBatch", flags |-> flags])
  BY <1>0, FlagSetManyStamps
<1>3. \A key : P([entity |-> "flag", op |-> "delete", key |-> key])
  BY <1>0, FlagDeleteStamps
<1>4. \A segment \in Segment : P([entity |-> "segment", op |-> "set", segment |-> segment])
  BY <1>0, SegmentSetStamps
<1>5. \A key : P([entity |-> "segment", op |-> "delete", key |-> key])
  BY <1>0, SegmentDeleteStamps
<1>6. \A user \in User : P([entity |-> "user", op |-> "set", user |-> user])
  BY <1>0, UserSetStamps
<1>7. \A key : P([entity |-> "user", op |-> "delete", key |-> key])
  BY <1>0, UserDeleteStamps
<1>8. \A group \in Group :
           (group.id = AdminGroupID => group.system)
             => P([entity |-> "group", op |-> "set", group |-> group])
  BY <1>0, GroupSetStamps
<1>9. \A key : P([entity |-> "group", op |-> "delete", key |-> key])
  BY <1>0, GroupDeleteStamps
<1>10. \A environment \in Environment :
           P([entity |-> "environment", op |-> "set", environment |-> environment])
  BY <1>0, EnvironmentSetStamps
<1>11. \A key : P([entity |-> "environment", op |-> "delete", key |-> key])
  BY <1>0, EnvironmentDeleteStamps
<1>12. \A cred \in ApplicationCredential :
           P([entity |-> "applicationCredential", op |-> "set", credential |-> cred])
  BY <1>0, CredentialSetStamps
<1>13. \A key : P([entity |-> "applicationCredential", op |-> "delete", key |-> key])
  BY <1>0, CredentialDeleteStamps
<1>14. \A entry \in AuditEntry : P([entity |-> "audit", op |-> "append", audit |-> entry])
  BY <1>0, AuditAppendStamps
<1> HIDE DEF P
<1>15. P(cmd)
  BY <1>1, <1>2, <1>3, <1>4, <1>5, <1>6, <1>7, <1>8,
     <1>9, <1>10, <1>11, <1>12, <1>13, <1>14, CommandCases
<1> QED
  BY <1>15 DEF P

----------------------------------------------------------------------------
(* Snapshots *)

\* Restore accepts a snapshot of a good state and gives that state back.
LEMMA SnapshotRestored ==
    ASSUME NEW s, Good(s)
    PROVE  /\ RestoreError(Snapshot(s)) = OK
           /\ \A old : Restore(old, Snapshot(s)) = Accept(s)
<1>1. s = [field \in FsmFields |-> s[field]]
  BY DEF Good, Typed
<1>2. Len(Snapshot(s)) = 1 /\ Snapshot(s)[1] = s /\ DOMAIN s = FsmFields
  BY <1>1 DEF Snapshot
<1>3. Decode(Snapshot(s)) = s
  BY <1>1, <1>2 DEF Decode
<1>4. {"flags", "users", "groups"} \cap DOMAIN s # {}
  BY <1>2, Fields
<1>5. \A k \in DOMAIN s.flags : s.flags[k].environmentID # NoString /\ s.flags[k].type # NoString
  BY EnvironmentIDAssumption, FlagTypeAssumption DEF Good, Typed, IsMap, Flag
<1>6. RestoreError(Snapshot(s)) = OK
  BY <1>2, <1>3, <1>4, <1>5 DEF RestoreError
<1> QED
  BY <1>3, <1>6 DEF Restore
=============================================================================
