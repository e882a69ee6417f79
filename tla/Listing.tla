------------------------------ MODULE Listing ------------------------------
(***************************************************************************)
(* Readers that page through the lists of the HTTP API while the lists     *)
(* change: GET /api/audits, whose cursors are entry IDs, and the other     *)
(* collections, whose cursors are offsets (paginate).                      *)
(*                                                                         *)
(* A sorted Go slice is the set of its sort keys, and the index of an      *)
(* element is a count: of the entries not older than it in the trail,      *)
(* newest first, of the items not after it in a collection.  A page is the *)
(* set of its elements; their order in it is the order of the list.        *)
(***************************************************************************)
EXTENDS Integers, FiniteSets

CONSTANTS
    Reader,             \* clients that follow the cursors they were given
    Entry,              \* audit entries: fields and timestamp
    Filter,             \* the filters readers ask for
    AskedLimit,         \* ?limit= as sent, NoLimit when absent
    Item,               \* sort keys of a collection paged by offset
    DefaultPageLimit,   \* pagination.go: defaultPageLimit
    MaxPageLimit,       \* pagination.go: maxPageLimit
    MaxIndex,           \* bounds on the log index
    MaxChange           \* and on the changes of the collection

ASSUME PageLimitAssumption == DefaultPageLimit \in Nat \ {0} /\ MaxPageLimit \in Nat
ASSUME ItemAssumption == IsFiniteSet(Item) /\ Item \subseteq Nat

VARIABLES
    index,      \* the last log index applied
    trail,      \* fsm.auditEntries
    items,      \* the keys of the collection
    changes,    \* how often the collection has changed
    reader      \* what each reader was last served, and what it has seen

vars == <<index, trail, items, changes, reader>>

NoCursor == -1      \* an absent ?cursor=, nextCursor or prevCursor
NoLimit == -1
Highest(S) == CHOOSE i \in S : \A j \in S : j <= i
Lowest(S) == CHOOSE i \in S : \A j \in S : i <= j
Smaller(a, b) == IF a <= b THEN a ELSE b
Greater(a, b) == IF a <= b THEN b ELSE a

parseLimit(asked) == IF asked \in 1..MaxPageLimit THEN asked ELSE DefaultPageLimit

----------------------------------------------------------------------------
(* GET /api/audits *)

\* A filter's equal holds the fields it names; from and to are 0 if absent.
matches(filter, entry) ==
    /\ filter.from # 0 => entry.timestamp >= filter.from
    /\ filter.to # 0 => entry.timestamp <= filter.to
    /\ \A field \in DOMAIN filter.equal : entry[field] = filter.equal[field]
listAuditEntries(filter) == {id \in DOMAIN trail : matches(filter, trail[id])}

\* all is newest first: the rank of an entry counts from 1, all[k - 1] has
\* rank k, and sort.Search finds how many are not below the cursor.
Rank(all, id) == Cardinality({other \in all : other >= id})
At(all, rank) == CHOOSE id \in all : Rank(all, id) = rank
StartIdx_Inclusive(all, before) == Cardinality({id \in all : id > before})
StartIdx(all, before) == Cardinality({id \in all : id >= before})

NextCursor_FirstUnserved(all, end) == At(all, end + 1)
NextCursor(all, end) == At(all, end)
\* +1 so that the previous page includes its newest entry.
PrevCursor_Exclusive(all, start, limit) == At(all, Greater(0, start - limit) + 1)
PrevCursor(all, start, limit) == At(all, Greater(0, start - limit) + 1) + 1

auditsPage(all, cursor, limit) ==
    LET total == Cardinality(all)
        start == IF cursor \in {NoCursor, 0} THEN 0 ELSE StartIdx(all, cursor)
        end == Smaller(start + limit, total)
    IN  [code |-> "ok", total |-> total,
         entries |-> {id \in all : start < Rank(all, id) /\ Rank(all, id) <= end},
         prev |-> IF start > 0 THEN PrevCursor(all, start, limit) ELSE NoCursor,
         next |-> IF end < total THEN NextCursor(all, end) ELSE NoCursor]

Refused(code) ==
    [code |-> code, total |-> 0, entries |-> {}, prev |-> NoCursor, next |-> NoCursor]

auditsGetHandler(filter, cursor, limit) ==
    IF filter.from # 0 /\ filter.to # 0 /\ filter.from > filter.to
    THEN Refused("BadRequestAuditTimeRangeInvalid")
    ELSE auditsPage(listAuditEntries(filter), cursor, limit)

----------------------------------------------------------------------------
(* paginate: users, groups, environments, flags, credentials *)

Position(all, item) == Cardinality({other \in all : other <= item})

OffsetRefused(all, offset) == offset > Cardinality(all)
OffsetEnd(all, offset, limit) == Smaller(offset + limit, Cardinality(all))
OffsetFrom_Next(cursor) == cursor + 1
OffsetFrom(cursor) == cursor

paginate(all, cursor, limit) ==
    LET total == Cardinality(all)
        offset == IF cursor = NoCursor THEN 0 ELSE OffsetFrom(cursor)
        end == OffsetEnd(all, offset, limit)
    IN  IF OffsetRefused(all, offset) THEN Refused("BadRequestCursorInvalid")
        ELSE [code |-> "ok", total |-> total,
              entries |-> {item \in all : offset < Position(all, item)
                                          /\ Position(all, item) <= end},
              prev |-> IF offset > 0 THEN Greater(0, offset - limit) ELSE NoCursor,
              next |-> IF end < total THEN end ELSE NoCursor]

\* Without ?limit= and ?cursor= the whole list is served, and no cursors.
collectionGet(asked, cursor) ==
    IF asked = NoLimit /\ cursor = NoCursor
    THEN [code |-> "ok", total |-> Cardinality(items), entries |-> items,
          prev |-> NoCursor, next |-> NoCursor]
    ELSE paginate(items, cursor, parseLimit(asked))

----------------------------------------------------------------------------
\* A reader reads one list and keeps the query it began with; the rest is
\* history: the way it came to its page, what it has been served since it
\* began, whether it only went forward, the newest entry or the items there
\* were then, and whether items came or went since.
List == {"audits", "items"}
Nowhere(list) == [list |-> list, came |-> "nowhere"]
Reading(r) == reader[r].came # "nowhere"
Walk(list, query, page) ==
    [list |-> list, query |-> query, page |-> page, came |-> "first", forward |-> TRUE,
     seen |-> page.entries, repeated |-> FALSE, top |-> index,
     items |-> IF list = "items" THEN items ELSE {},
     inserted |-> FALSE, removed |-> FALSE]
Walked(w, page, came) ==
    [w EXCEPT !.page = page, !.came = came, !.forward = @ /\ came = "next",
              !.repeated = @ \/ page.entries \cap w.seen # {},
              !.seen = @ \cup page.entries]

Serve(list, query, cursor) ==
    IF list = "audits" THEN auditsGetHandler(query.filter, cursor, parseLimit(query.asked))
    ELSE collectionGet(query.asked, cursor)

\* A bound: only a list that somebody reads changes.
Watched(list) == \E r \in Reader : reader[r].list = list

Init ==
    /\ \E reads \in [Reader -> List] : reader = [r \in Reader |-> Nowhere(reads[r])]
    /\ index = 0 /\ trail = [id \in {} |-> 0]
    /\ items \in SUBSET Item /\ (Watched("items") \/ items = {})
    /\ changes = 0

\* The log index is the ID of the entry.
applyAuditEntry(id, entry) ==
    [other \in DOMAIN trail \cup {id} |-> IF other = id THEN entry ELSE trail[other]]

\* Another request is audited, or anything else takes an index of the log.
Append ==
    /\ Watched("audits") /\ index < MaxIndex
    /\ index' = index + 1
    /\ \E entry \in Entry : trail' = applyAuditEntry(index + 1, entry)
    /\ UNCHANGED <<items, changes, reader>>
OtherCommand ==
    /\ Watched("audits") /\ index < MaxIndex
    /\ index' = index + 1
    /\ UNCHANGED <<trail, items, changes, reader>>

\* History: readers in the middle of the collection learn of the change.
Noted(inserted, removed) ==
    reader' = [r \in Reader |->
                 IF Reading(r) /\ reader[r].list = "items"
                 THEN [reader[r] EXCEPT !.inserted = @ \/ inserted, !.removed = @ \/ removed]
                 ELSE reader[r]]
Insert ==
    /\ Watched("items") /\ changes < MaxChange /\ changes' = changes + 1
    /\ \E item \in Item \ items : items' = items \cup {item}
    /\ Noted(TRUE, FALSE)
    /\ UNCHANGED <<index, trail>>
Remove ==
    /\ Watched("items") /\ changes < MaxChange /\ changes' = changes + 1
    /\ \E item \in items : items' = items \ {item}
    /\ Noted(FALSE, TRUE)
    /\ UNCHANGED <<index, trail>>

Read(r, w) ==
    /\ reader' = [reader EXCEPT ![r] = w]
    /\ UNCHANGED <<index, trail, items, changes>>

FirstAudits(r) ==
    /\ reader[r].list = "audits"
    /\ \E filter \in Filter, asked \in AskedLimit :
         LET query == [filter |-> filter, asked |-> asked] IN
         Read(r, Walk("audits", query, Serve("audits", query, NoCursor)))
FirstItems(r) ==
    /\ reader[r].list = "items"
    /\ \E asked \in AskedLimit :
         LET query == [asked |-> asked] IN
         Read(r, Walk("items", query, Serve("items", query, NoCursor)))
FollowNext(r) ==
    LET w == reader[r] IN
    /\ Reading(r) /\ w.page.next # NoCursor
    /\ Read(r, Walked(w, Serve(w.list, w.query, w.page.next), "next"))
FollowPrev(r) ==
    LET w == reader[r] IN
    /\ Reading(r) /\ w.page.prev # NoCursor
    /\ Read(r, Walked(w, Serve(w.list, w.query, w.page.prev), "prev"))

Next ==
    \/ Append \/ OtherCommand \/ Insert \/ Remove
    \/ \E r \in Reader :
         FirstAudits(r) \/ FirstItems(r) \/ FollowNext(r) \/ FollowPrev(r)

Spec == Init /\ [][Next]_vars

----------------------------------------------------------------------------
(* Properties *)

Forward(r, list) == Reading(r) /\ reader[r].list = list /\ reader[r].forward
Matching(r) == listAuditEntries(reader[r].query.filter)

Code == {"ok", "BadRequestAuditTimeRangeInvalid", "BadRequestCursorInvalid"}
Cursor == Nat \cup {NoCursor}
Page == [code : Code, total : Nat, entries : SUBSET Nat, prev : Cursor, next : Cursor]
Query == [filter : Filter, asked : AskedLimit] \cup [asked : AskedLimit]
Walks ==
    [list : List, query : Query, page : Page, came : {"first", "next", "prev"},
     forward : BOOLEAN, seen : SUBSET Nat, repeated : BOOLEAN, top : Nat,
     items : SUBSET Nat, inserted : BOOLEAN, removed : BOOLEAN]

TypeOK ==
    /\ index \in Nat /\ DOMAIN trail \subseteq 1..index
    /\ items \subseteq Item /\ changes \in Nat
    /\ reader \in [Reader -> {Nowhere(list) : list \in List} \cup Walks]

\* Whoever follows nextCursor through the trail has been served, whatever was
\* appended meanwhile, exactly the matching entries from the newest there was
\* when it began down to the cursor, or to the oldest when there is no cursor
\* (auditsGetHandler: the cursor is the ID of the last entry served).
NothingSkipped ==
    \A r \in Reader : Forward(r, "audits") /\ reader[r].page.code = "ok" =>
        reader[r].seen =
            {id \in Matching(r) : id <= reader[r].top
                                  /\ (reader[r].page.next # NoCursor =>
                                          id >= reader[r].page.next)}

\* and none of them twice.
NothingRepeated ==
    \A r \in Reader : Forward(r, "audits") => ~reader[r].repeated

\* The previous page of the trail joins the page it was asked from: it reaches
\* at least one entry further, and leaves none out between the two.
PreviousAdjoins ==
    [][\A r \in Reader :
         LET before == reader[r]
             after == reader'[r]
             both == before.page.entries \cup after.page.entries
         IN  after # before /\ after.list = "audits" /\ after.came = "prev" =>
               /\ \E id \in after.page.entries : \A old \in before.page.entries : id > old
               /\ \A id \in Matching(r)' :
                     Lowest(both) <= id /\ id <= Highest(both) => id \in both]_vars

\* Paging a collection forward to its end misses an item that was there when
\* the reader began only if some item was removed on the way, shows one twice
\* only if some item was inserted, and a cursor that was issued, forward or
\* back, is refused only if some item was removed (paginate).
MissedOnlyAfterRemoval(r) ==
    Forward(r, "items") /\ ~reader[r].removed /\ reader[r].page.next = NoCursor =>
        reader[r].items \subseteq reader[r].seen
RepeatedOnlyAfterInsertion(r) ==
    Forward(r, "items") /\ ~reader[r].inserted => ~reader[r].repeated
RefusedOnlyAfterRemoval(r) ==
    Reading(r) /\ reader[r].list = "items" /\ ~reader[r].removed => reader[r].page.code = "ok"
DriftOnlyAfterChange ==
    \A r \in Reader :
        MissedOnlyAfterRemoval(r) /\ RepeatedOnlyAfterInsertion(r) /\ RefusedOnlyAfterRemoval(r)
=============================================================================
