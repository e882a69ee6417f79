----------------------------- MODULE MCListing -----------------------------
(***************************************************************************)
(* An instance of Listing for TLC: entries about two targets at three      *)
(* times, every kind of filter, a collection of four possible items.       *)
(***************************************************************************)
EXTENDS Listing

CONSTANTS flag, user

EntryAt(target, timestamp) == [targetType |-> target, timestamp |-> timestamp]
FilterBy(equal, from, to) == [equal |-> equal, from |-> from, to |-> to]
OfTarget(target) == [targetType |-> target]
AnyTarget == [field \in {} |-> 0]

\* The clock may be set back: a later entry need not have a later time.
Entries == {EntryAt(flag, 1), EntryAt(flag, 2), EntryAt(user, 1)}
Filters == {FilterBy(AnyTarget, 0, 0), FilterBy(OfTarget(flag), 0, 0),
            FilterBy(AnyTarget, 0, 1), FilterBy(AnyTarget, 2, 1)}
Limits == {NoLimit, 1, 3, 4}
Items == 1..4
=============================================================================
