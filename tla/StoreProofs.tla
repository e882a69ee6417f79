---------------------------- MODULE StoreProofs ----------------------------
(***************************************************************************)
(* Proofs about Store, for every value of its constants: the inductive     *)
(* invariant IInv, the invariants that follow from it, and the action      *)
(* properties that every step from a state satisfying it has.              *)
(***************************************************************************)
EXTENDS Store, ApplyProofs

----------------------------------------------------------------------------
(* The inductive invariant of the specification, and its preservation.     *)

\* The inductive invariant: audit IDs are at most the index, so that an append
\* never overwrites, and no record is stamped with an index to come, so that
\* the next command's stamp is new.
IInv ==
    /\ index \in Nat
    /\ Good(fsm)
    /\ \A id \in DOMAIN fsm.auditEntries : id <= index
    /\ VersionsAreIndexes

\* The empty store satisfies the inductive invariant.
LEMMA InitIInv == Init => IInv
<1>1. SUFFICES ASSUME Init PROVE IInv
  OBVIOUS
<1>2. /\ newFSM.flags = EmptyMap /\ newFSM.segments = EmptyMap
      /\ newFSM.users = EmptyMap /\ newFSM.groups = EmptyMap
      /\ newFSM.auditEntries = EmptyMap /\ newFSM.environments = EmptyMap
      /\ newFSM.applicationCredentials = EmptyMap
  BY Fields DEF newFSM
<1>3. DOMAIN EmptyMap = {}
  BY DEF EmptyMap
<1>4. Stamped(newFSM) = {}
  BY <1>2, <1>3 DEF Stamped
<1> QED
  BY <1>1, <1>2, <1>3, <1>4, NewGood DEF Init, IInv, VersionsAreIndexes

\* Stamping with the next index keeps the stamps distinct.
LEMMA NextStamps ==
    ASSUME NEW s, NEW t, NEW n \in Nat, Stamps(s, n + 1, t),
           \A r \in Stamped(s) : r[2] \in 1..n,
           \A r, q \in Stamped(s) : r[2] = q[2] => r[1] = q[1] /\ r[3] = q[3]
    PROVE  /\ \A r \in Stamped(t) : r[2] \in 1..(n + 1)
           /\ \A r, q \in Stamped(t) : r[2] = q[2] => r[1] = q[1] /\ r[3] = q[3]
<1>1. PICK kind, key : \A r \in Stamped(t) : r \in Stamped(s) \/ r = <<kind, n + 1, key>>
  BY DEF Stamps
<1>2. \A r \in Stamped(t) : \/ r \in Stamped(s) /\ r[2] \in 1..n
                            \/ r[1] = kind /\ r[2] = n + 1 /\ r[3] = key
  BY <1>1
<1> QED
  BY <1>2

\* A submitted command re-establishes the invariant and keeps what must be kept.
LEMMA SubmitStep ==
    ASSUME IInv, NEW cmd \in Command, Submit(cmd)
    PROVE  IInv' /\ Kept(fsm, fsm') /\ (err' # OK => fsm' = fsm)
<1>1. /\ index' = index + 1
      /\ fsm' = Apply(fsm, index + 1, cmd).state
      /\ err' = Apply(fsm, index + 1, cmd).err
  BY DEF Submit
<1>2. /\ index + 1 \in Nat
      /\ index + 1 \notin DOMAIN fsm.auditEntries
      /\ DOMAIN fsm.auditEntries \subseteq Nat
  <2>1. DOMAIN fsm.auditEntries \subseteq Nat
    BY DEF IInv, Good, Typed, IsMap
  <2> QED
    BY <2>1 DEF IInv
<1>3. /\ Sound(fsm, index + 1, Apply(fsm, index + 1, cmd))
      /\ Stamps(fsm, index + 1, fsm')
  BY <1>1, <1>2, CommandSound, CommandStamps DEF IInv
<1>4. /\ Good(fsm')
      /\ Kept(fsm, fsm')
      /\ DOMAIN fsm'.auditEntries \subseteq DOMAIN fsm.auditEntries \cup {index + 1}
      /\ err' # OK => fsm' = fsm
  BY <1>1, <1>3 DEF Sound
<1>5. index' \in Nat /\ \A id \in DOMAIN fsm'.auditEntries : id <= index'
  BY <1>1, <1>2, <1>4 DEF IInv
<1>6. VersionsAreIndexes'
  BY <1>1, <1>3, NextStamps DEF IInv, VersionsAreIndexes
<1> QED
  BY <1>4, <1>5, <1>6 DEF IInv

\* The actions, one per repository method, are the submissions of Command.
LEMMA NextSubmits ==
    /\ Next => (\E cmd \in Command : Submit(cmd)) \/ RaftEntry
    /\ \A cmd \in Command : Submit(cmd) => Next
<1> DEFINE Submits == \E cmd \in Command : Submit(cmd)
<1>1. FlagSet => Submits
  BY CommandForms DEF FlagSet, CommandForm
<1>2. FlagSetMany => Submits
  BY CommandForms DEF FlagSetMany, CommandForm
<1>3. FlagDelete => Submits
  BY CommandForms DEF FlagDelete, CommandForm
<1>4. SegmentSet => Submits
  BY CommandForms DEF SegmentSet, CommandForm
<1>5. SegmentDelete => Submits
  BY CommandForms DEF SegmentDelete, CommandForm
<1>6. UserSet => Submits
  BY CommandForms DEF UserSet, CommandForm
<1>7. UserDelete => Submits
  BY CommandForms DEF UserDelete, CommandForm
<1>8. GroupSet => Submits
  BY CommandForms DEF GroupSet, CommandForm
<1>9. GroupDelete => Submits
  BY CommandForms DEF GroupDelete, CommandForm
<1>10. EnvironmentSet => Submits
  BY CommandForms DEF EnvironmentSet, CommandForm
<1>11. EnvironmentDelete => Submits
  BY CommandForms DEF EnvironmentDelete, CommandForm
<1>12. CredentialSet => Submits
  BY CommandForms DEF CredentialSet, CommandForm
<1>13. CredentialDelete => Submits
  BY CommandForms DEF CredentialDelete, CommandForm
<1>14. AuditAppend => Submits
  BY CommandForms DEF AuditAppend, CommandForm
<1>15. \A cmd \in Command : Submit(cmd) => Next
  <2>1. SUFFICES ASSUME NEW cmd, CommandForm(cmd), Submit(cmd) PROVE Next
    BY CommandForms
  <2> QED
    BY <2>1, Zenon DEF CommandForm, Next, FlagSet, FlagSetMany, FlagDelete, SegmentSet, SegmentDelete, UserSet, UserDelete, GroupSet, GroupDelete, EnvironmentSet, EnvironmentDelete, CredentialSet, CredentialDelete, AuditAppend
<1> QED
  BY <1>1, <1>2, <1>3, <1>4, <1>5, <1>6, <1>7, <1>8, <1>9, <1>10, <1>11, <1>12, <1>13, <1>14, <1>15 DEF Next

\* Every step re-establishes the invariant and keeps what must be kept.
LEMMA NextIInv ==
    ASSUME IInv, [Next]_vars
    PROVE  IInv' /\ Kept(fsm, fsm') /\ (err' # OK => fsm' = fsm)
<1>1. ASSUME NEW cmd \in Command, Submit(cmd)
      PROVE  IInv' /\ Kept(fsm, fsm') /\ (err' # OK => fsm' = fsm)
  BY <1>1, SubmitStep
<1>2. CASE RaftEntry
  <2>1. index' = index + 1 /\ fsm' = fsm /\ err' = err
    BY <1>2 DEF RaftEntry
  <2>2. DOMAIN fsm.auditEntries \subseteq Nat
    BY DEF IInv, Good, Typed, IsMap
  <2>3. VersionsAreIndexes'
    BY <2>1 DEF IInv, VersionsAreIndexes
  <2> QED
    BY <2>1, <2>2, <2>3, KeptRefl DEF IInv
<1>3. CASE UNCHANGED vars
  BY <1>3, KeptRefl DEF vars, IInv, VersionsAreIndexes
<1> QED
  BY <1>1, <1>2, <1>3, NextSubmits

----------------------------------------------------------------------------
(* The theorems *)

\* IInv is an invariant: the maps are well typed and keyed, nothing is orphaned,
\* usernames are distinct, the Admin group is a system group, and no audit entry
\* is ahead of the log, so the next index is free.
THEOREM Invariance == Spec => []IInv
<1>1. IInv /\ [Next]_vars => IInv'
  BY NextIInv
<1> QED
  BY <1>1, InitIInv, PTL DEF Spec

\* The maps have the types of the Go structs, in every reachable state, after
\* any sequence of repository calls.
THEOREM TypeCorrect == Spec => []TypeOK
<1>1. IInv => TypeOK
  BY DEF IInv, Good, TypeOK
<1> QED
  BY <1>1, Invariance, PTL

\* Every record is stored under its own key.
THEOREM KeysAlwaysMatch == Spec => []KeysMatch
<1>1. IInv => KeysMatch
  BY DEF IInv, Good, KeysMatch
<1> QED
  BY <1>1, Invariance, PTL

\* No flag, segment or credential is ever without its environment.
THEOREM NothingOrphaned == Spec => []EnvironmentsExist
<1>1. IInv => EnvironmentsExist
  BY DEF IInv, Good, EnvironmentsExist
<1> QED
  BY <1>1, Invariance, PTL

\* No two users ever have one username.
THEOREM UsernamesAlwaysUnique == Spec => []UsernamesUnique
<1>1. IInv => UsernamesUnique
  BY DEF IInv, Good, UsernamesUnique
<1> QED
  BY <1>1, Invariance, PTL

\* Restore accepts a snapshot of every reachable state and rebuilds that state.
THEOREM SnapshotAlwaysRestorable == Spec => []SnapshotRestorable
<1>1. IInv => SnapshotRestorable
  BY SnapshotRestored DEF IInv, SnapshotRestorable, Accept
<1> QED
  BY <1>1, Invariance, PTL

\* Versions and revisions are log indexes already reached, and two records
\* share one only when one SetMany wrote both.
THEOREM VersionsAlwaysIndexes == Spec => []VersionsAreIndexes
<1>1. IInv => VersionsAreIndexes
  BY DEF IInv
<1> QED
  BY <1>1, Invariance, PTL

\* Once there is an active admin, there is one for ever.
THEOREM AdminNeverLostHolds == Spec => AdminNeverLost
<1>1. IInv /\ [Next]_vars => [HasActiveAdmin(fsm) => HasActiveAdmin(fsm')]_vars
  BY NextIInv DEF Kept
<1> QED
  BY <1>1, Invariance, PTL DEF Spec, AdminNeverLost

\* The Admin group, once created, never changes.
THEOREM AdminGroupFixedHolds == Spec => AdminGroupFixed
<1>1. IInv /\ [Next]_vars => [AdminGroupKept(fsm, fsm')]_vars
  BY NextIInv DEF Kept
<1> QED
  BY <1>1, Invariance, PTL DEF Spec, AdminGroupFixed

\* The last environment is never deleted.
THEOREM EnvironmentsNeverEmptiedHolds == Spec => EnvironmentsNeverEmptied
<1>1. IInv /\ [Next]_vars
        => [DOMAIN fsm.environments # {} => DOMAIN fsm'.environments # {}]_vars
  BY NextIInv DEF Kept
<1> QED
  BY <1>1, Invariance, PTL DEF Spec, EnvironmentsNeverEmptied

\* An existing flag is never retyped.
THEOREM FlagTypeFixedHolds == Spec => FlagTypeFixed
<1>1. IInv /\ [Next]_vars => [TypesKept(fsm, fsm')]_vars
  BY NextIInv DEF Kept
<1> QED
  BY <1>1, Invariance, PTL DEF Spec, FlagTypeFixed

\* A resolved segment reference stays resolved while the flag makes it.
THEOREM ResolvedReferencesKeptHolds == Spec => ResolvedReferencesKept
<1>1. IInv /\ [Next]_vars => [ReferencesKept(fsm, fsm')]_vars
  BY NextIInv DEF Kept
<1> QED
  BY <1>1, Invariance, PTL DEF Spec, ResolvedReferencesKept

\* A refused command changes nothing.
THEOREM RefusalChangesNothingHolds == Spec => RefusalChangesNothing
<1>1. IInv /\ [Next]_vars => [err' # OK => fsm' = fsm]_vars
  BY NextIInv
<1> QED
  BY <1>1, Invariance, PTL DEF Spec, RefusalChangesNothing

\* Audit entries are only ever added.
THEOREM AuditAppendOnlyHolds == Spec => AuditAppendOnly
<1>1. IInv /\ [Next]_vars => [AuditKept(fsm, fsm')]_vars
  BY NextIInv DEF Kept
<1> QED
  BY <1>1, Invariance, PTL DEF Spec, AuditAppendOnly
=============================================================================
