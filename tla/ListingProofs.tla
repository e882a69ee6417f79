--------------------------- MODULE ListingProofs ---------------------------
(***************************************************************************)
(* Proofs about Listing, for every limit, trail, collection, filter and    *)
(* number of readers: type correctness, what a forward reader of the trail *)
(* is served, that previous pages join on, and what changes make of the    *)
(* pages of a collection.  The first part is about counting: the rank of   *)
(* an entry grows as its ID falls, and every rank up to the length of the  *)
(* list is taken, so the index arithmetic of auditsGetHandler selects      *)
(* exactly the IDs between two cursors.                                    *)
(***************************************************************************)
EXTENDS Listing, Induction, FiniteSetTheorems, TLAPS

----------------------------------------------------------------------------
(* Ranks *)

\* A rank is a number between 1 and the length of the list.
LEMMA RankBound ==
    ASSUME NEW all \in SUBSET Nat, IsFiniteSet(all), NEW id \in all
    PROVE  Rank(all, id) \in 1..Cardinality(all)
<1> DEFINE above == {other \in all : other >= id}
<1>1. above \in SUBSET all
  OBVIOUS
<1>2. IsFiniteSet(above) /\ Cardinality(above) <= Cardinality(all)
  BY <1>1, FS_Subset
<1>3. Cardinality(above) \in Nat /\ Cardinality(all) \in Nat
  BY <1>2, FS_CardinalityType
<1>4. id \in above
  OBVIOUS
<1>5. Cardinality(above) # 0
  BY <1>2, <1>4, FS_EmptySet
<1> QED BY <1>2, <1>3, <1>5 DEF Rank

\* Of two elements the later one has the smaller rank.
LEMMA RankFalls ==
    ASSUME NEW all \in SUBSET Nat, IsFiniteSet(all), NEW a \in all, NEW b \in all, a < b
    PROVE  Rank(all, b) < Rank(all, a)
<1> DEFINE above(id) == {other \in all : other >= id}
<1>1. above(b) \in SUBSET above(a) /\ a \in above(a) /\ a \notin above(b)
  <2>1. a \in Nat /\ b \in Nat /\ \A id \in all : id \in Nat
    OBVIOUS
  <2>2. ASSUME NEW id \in above(b)
        PROVE  id \in above(a)
    <3>1. id \in Nat /\ id \in all /\ id >= b
      OBVIOUS
    <3> QED BY <2>1, <3>1
  <2>3. a \in above(a)
    BY <2>1
  <2>4. a \notin above(b)
    <3> SUFFICES ~(a >= b)
      OBVIOUS
    <3> QED BY <2>1
  <2>5. above(b) \subseteq above(a)
    BY <2>2
  <2> QED BY <2>3, <2>4, <2>5
<1>2. IsFiniteSet(above(a))
  <2>1. above(a) \in SUBSET all
    OBVIOUS
  <2> QED BY <2>1, FS_Subset
<1>3. /\ IsFiniteSet(above(b)) /\ Cardinality(above(b)) <= Cardinality(above(a))
      /\ Cardinality(above(a)) = Cardinality(above(b)) => above(a) = above(b)
  <2> HIDE DEF above
  <2> QED BY <1>1, <1>2, FS_Subset
<1>4. Cardinality(above(a)) # Cardinality(above(b))
  BY <1>1, <1>3
<1>5. Cardinality(above(a)) \in Nat /\ Cardinality(above(b)) \in Nat
  BY <1>2, <1>3, FS_CardinalityType
<1>6. Cardinality(above(b)) < Cardinality(above(a))
  <2> HIDE DEF above
  <2> QED BY <1>3, <1>4, <1>5
<1> QED BY <1>6 DEF Rank

\* Every rank is the rank of some element: At finds it.
LEMMA RankTaken ==
    ASSUME NEW all \in SUBSET Nat, IsFiniteSet(all), NEW rank \in 1..Cardinality(all)
    PROVE  At(all, rank) \in all /\ Rank(all, At(all, rank)) = rank
<1> DEFINE n == Cardinality(all)
           ranks == [id \in all |-> Rank(all, id)]
<1>1. n \in Nat
  BY FS_CardinalityType
<1>2. IsFiniteSet(1..n) /\ Cardinality(1..n) = n
  BY <1>1, FS_Interval
<1>3. ranks \in [all -> 1..n]
  BY RankBound
<1>4. ASSUME NEW a \in all, NEW b \in all, Rank(all, a) = Rank(all, b)
      PROVE  a = b
  <2>1. Rank(all, a) \in Nat
    BY RankBound, <1>1
  <2>2. ~(a < b) /\ ~(b < a)
    BY <1>4, <2>1, RankFalls
  <2> QED BY <2>2
<1>5. ranks \in Injection(all, 1..n)
  BY <1>3, <1>4 DEF Injection, IsInjective
<1>6. ranks \in Surjection(all, 1..n)
  BY <1>2, <1>5, FS_Injection
<1>7. \E id \in all : Rank(all, id) = rank
  BY <1>6 DEF Surjection
<1> QED BY <1>7 DEF At
----------------------------------------------------------------------------
(* Pages of the trail *)

\* sort.Search on a list of IDs finds where the ones below the cursor start.
LEMMA BelowCursor ==
    ASSUME NEW all \in SUBSET Nat, IsFiniteSet(all), NEW before \in Nat, NEW id \in all
    PROVE  StartIdx(all, before) < Rank(all, id) <=> id < before
<1> DEFINE from == {other \in all : other >= before}
           above == {other \in all : other >= id}
<1>1. from \in SUBSET all /\ above \in SUBSET all
  OBVIOUS
<1>2. IsFiniteSet(from) /\ IsFiniteSet(above)
  BY <1>1, FS_Subset
<1>3. Cardinality(from) \in Nat /\ Cardinality(above) \in Nat
  BY <1>2, FS_CardinalityType
<1>4. id \in Nat /\ \A other \in all : other \in Nat
  OBVIOUS
<1>5. CASE id < before
  <2>0. ASSUME NEW other \in from
        PROVE  other \in above
    <3>1. other \in Nat /\ other \in all /\ other >= before
      OBVIOUS
    <3> QED BY <1>4, <1>5, <3>1
  <2>1. from \in SUBSET above /\ id \in above /\ id \notin from
    <3>1. id >= id /\ ~(id >= before)
      BY <1>4, <1>5
    <3>2. id \in above /\ id \notin from
      BY <3>1
    <3>3. from \in SUBSET above
      BY <2>0
    <3> QED BY <3>2, <3>3
  <2>2. /\ Cardinality(from) <= Cardinality(above)
        /\ Cardinality(above) = Cardinality(from) => above = from
    <3> HIDE DEF from, above
    <3> QED BY <1>2, <2>1, FS_Subset
  <2>3. Cardinality(from) < Cardinality(above)
    <3> HIDE DEF from, above
    <3> QED BY <1>3, <2>1, <2>2
  <2> QED BY <1>5, <2>3 DEF StartIdx, Rank
<1>6. CASE ~(id < before)
  <2>0. ASSUME NEW other \in above
        PROVE  other \in from
    <3>1. other \in Nat /\ other \in all /\ other >= id
      OBVIOUS
    <3> QED BY <1>4, <1>6, <3>1
  <2>1. above \in SUBSET from
    BY <2>0
  <2>2. Cardinality(above) <= Cardinality(from)
    <3> HIDE DEF from, above
    <3> QED BY <1>2, <2>1, FS_Subset
  <2>3. ~(Cardinality(from) < Cardinality(above))
    <3> HIDE DEF from, above
    <3> QED BY <1>3, <2>2
  <2> QED BY <1>6, <2>3 DEF StartIdx, Rank
<1> QED BY <1>5, <1>6

\* What a page is: the entries between the cursor it was asked with and the
\* one it gives, which is the last of them.  The cursors of the first page
\* and of the last one are absent.
LEMMA PageIsWindow ==
    ASSUME NEW all \in SUBSET (Nat \ {0}), IsFiniteSet(all),
           NEW cursor \in Cursor, NEW limit \in Nat \ {0},
           NEW page, page = auditsPage(all, cursor, limit)
    PROVE  /\ page \in Page /\ page.code = "ok"
           /\ page.entries \subseteq all
           /\ \A id \in all : id \in page.entries <=>
                  /\ cursor \notin {NoCursor, 0} => id < cursor
                  /\ page.next # NoCursor => id >= page.next
           /\ page.next # NoCursor => page.next \in page.entries
<1> DEFINE total == Cardinality(all)
           start == IF cursor \in {NoCursor, 0} THEN 0 ELSE StartIdx(all, cursor)
           end == Smaller(start + limit, total)
           In(id) == start < Rank(all, id) /\ Rank(all, id) <= end
           entries == {id \in all : In(id)}
           prev == IF start > 0 THEN PrevCursor(all, start, limit) ELSE NoCursor
           next == IF end < total THEN NextCursor(all, end) ELSE NoCursor
<1>1. auditsPage(all, cursor, limit) =
        [code |-> "ok", total |-> total, entries |-> entries, prev |-> prev, next |-> next]
  BY DEF auditsPage
<1>2. total \in Nat
  BY FS_CardinalityType
<1>3. start \in 0..total
  <2>1. CASE cursor \in {NoCursor, 0}
    BY <1>2, <2>1
  <2>2. CASE cursor \notin {NoCursor, 0}
    <3> DEFINE from == {id \in all : id >= cursor}
    <3>1. from \in SUBSET all
      OBVIOUS
    <3>2. IsFiniteSet(from) /\ Cardinality(from) <= total
      BY <3>1, FS_Subset
    <3>3. Cardinality(from) \in Nat
      BY <3>2, FS_CardinalityType
    <3> QED BY <1>2, <2>2, <3>2, <3>3 DEF StartIdx
  <2> QED BY <2>1, <2>2
<1>4. end \in 0..total /\ start <= end /\ (end < total => end = start + limit)
  <2> HIDE DEF start, total
  <2> QED BY <1>2, <1>3 DEF Smaller
<1>5. \A id \in all : start < Rank(all, id) <=> (cursor \notin {NoCursor, 0} => id < cursor)
  <2>1. CASE cursor \in {NoCursor, 0}
    BY <1>2, <2>1, RankBound
  <2>2. CASE cursor \notin {NoCursor, 0}
    BY <2>2, BelowCursor DEF Cursor
  <2> QED BY <2>1, <2>2
<1> DEFINE Out(id) == /\ cursor \notin {NoCursor, 0} => id < cursor
                      /\ next # NoCursor => id >= next
           Window == {id \in all : Out(id)}
           Result == /\ next \in Cursor /\ entries = Window
                     /\ next # NoCursor => next \in entries
<1>6. ASSUME end < total
      PROVE  Result
  <2>1. end \in 1..total
    <3> HIDE DEF start, total, end
    <3> QED BY <1>2, <1>3, <1>4, <1>6
  <2>2. At(all, end) \in all /\ Rank(all, At(all, end)) = end
    <3> HIDE DEF end
    <3> QED BY <2>1, RankTaken
  <2>3. next \in all /\ Rank(all, next) = end
    BY <1>6, <2>2 DEF NextCursor
  <2> HIDE DEF start, end, total, next
  <2>4. ASSUME NEW id \in all
        PROVE  Rank(all, id) <= end <=> id >= next
    <3>1. id \in Nat /\ next \in Nat /\ Rank(all, id) \in Nat /\ end \in Nat
      BY <1>2, <2>1, <2>3, RankBound DEF total
    <3>2. id < next => end < Rank(all, id)
      BY <2>3, RankFalls
    <3>3. id > next => Rank(all, id) < end
      BY <2>3, <3>1, RankFalls
    <3> QED BY <2>3, <3>1, <3>2, <3>3
  <2>5. next # NoCursor /\ next \in Nat
    BY <2>3 DEF NoCursor
  <2>6. start < end
    BY <1>2, <1>3, <1>4, <1>6, <2>1
  <2>7. entries = Window
    <3>1. \A id \in all : start < Rank(all, id) /\ Rank(all, id) <= end <=>
                           /\ cursor \notin {NoCursor, 0} => id < cursor
                           /\ next # NoCursor => id >= next
      <4> SUFFICES ASSUME NEW id \in all
                   PROVE  start < Rank(all, id) /\ Rank(all, id) <= end <=>
                           /\ cursor \notin {NoCursor, 0} => id < cursor
                           /\ next # NoCursor => id >= next
        OBVIOUS
      <4>1. start < Rank(all, id) <=> (cursor \notin {NoCursor, 0} => id < cursor)
        BY <1>5
      <4>2. Rank(all, id) <= end <=> id >= next
        BY <2>4
      <4> QED BY <4>1, <4>2, <2>5
    <3>2. \A id \in all : In(id) <=> Out(id)
      BY <3>1
    <3> HIDE DEF In, Out
    <3> QED BY <3>2
  <2>8. next \in entries
    BY <2>3, <2>6, <1>2, <1>3, <1>4
  <2> QED BY <2>5, <2>7, <2>8 DEF Cursor
<1>7. ASSUME ~(end < total)
      PROVE  Result
  <2>1. next = NoCursor
    BY <1>7
  <2>2. end = total
    <3> HIDE DEF start, total, end
    <3> QED BY <1>2, <1>4, <1>7
  <2> HIDE DEF start, end, next
  <2>3. \A id \in all : Rank(all, id) <= end
    BY <1>2, <2>2, RankBound
  <2> HIDE DEF total
  <2>4. entries = Window
    <3>1. \A id \in all : start < Rank(all, id) /\ Rank(all, id) <= end <=>
                           (cursor \notin {NoCursor, 0} => id < cursor)
      BY <1>5, <2>3
    <3>2. \A id \in all : In(id) <=> Out(id)
      BY <2>1, <3>1
    <3> HIDE DEF In, Out
    <3> QED BY <3>2
  <2>5. next \in Cursor
    BY <2>1 DEF NoCursor, Cursor
  <2> QED BY <2>1, <2>4, <2>5
<1>8. prev \in Cursor
  <2>1. CASE start > 0
    <3> DEFINE at == Greater(0, start - limit) + 1
    <3>1. at \in 1..total
      <4> HIDE DEF start, total
      <4> QED BY <1>2, <1>3, <2>1 DEF Greater
    <3>2. At(all, at) \in all
      <4> HIDE DEF at
      <4> QED BY <3>1, RankTaken
    <3>3. prev = At(all, at) + 1
      BY <2>1 DEF PrevCursor
    <3> HIDE DEF at, prev
    <3>4. At(all, at) \in Nat
      BY <3>2
    <3> QED BY <3>3, <3>4 DEF Cursor
  <2>2. CASE ~(start > 0)
    <3>1. prev = NoCursor
      BY <2>2
    <3> QED BY <3>1 DEF NoCursor, Cursor
  <2> QED BY <2>1, <2>2
<1> HIDE DEF total, start, end, prev, next
<1>9. Result
  BY <1>6, <1>7
<1>10. /\ page.next = next /\ page.entries = entries /\ page.code = "ok"
       /\ page.total = total /\ page.prev = prev
  BY <1>1
<1>11. entries \in SUBSET Nat
  OBVIOUS
<1>12. next \in Cursor
  BY <1>9
<1> HIDE DEF entries
<1>13. page \in Page
  BY <1>1, <1>2, <1>8, <1>11, <1>12 DEF Page, Code
<1>14. \A id \in all : id \in page.entries <=>
          /\ cursor \notin {NoCursor, 0} => id < cursor
          /\ page.next # NoCursor => id >= page.next
  BY <1>9, <1>10
<1>15. page.entries \subseteq all
  BY <1>9, <1>10
<1>16. page.next # NoCursor => page.next \in page.entries
  BY <1>9, <1>10
<1> QED BY <1>10, <1>13, <1>14, <1>15, <1>16
----------------------------------------------------------------------------
(* Types *)

\* The limit of a page is positive whatever was asked.
LEMMA LimitType ==
    ASSUME NEW asked
    PROVE  parseLimit(asked) \in Nat \ {0}
BY PageLimitAssumption DEF parseLimit

\* The matching entries of the trail are finitely many positive indexes.
LEMMA MatchingType ==
    ASSUME TypeOK, NEW filter
    PROVE  /\ listAuditEntries(filter) \in SUBSET (Nat \ {0})
           /\ IsFiniteSet(listAuditEntries(filter))
           /\ \A id \in listAuditEntries(filter) : id \in Nat /\ id <= index
<1>1. index \in Nat /\ DOMAIN trail \subseteq 1..index
  BY DEF TypeOK
<1>2. IsFiniteSet(1..index)
  BY <1>1, FS_Interval
<1>3. listAuditEntries(filter) \in SUBSET (1..index)
  BY <1>1 DEF listAuditEntries
<1>4. IsFiniteSet(listAuditEntries(filter))
  BY <1>2, <1>3, FS_Subset
<1> QED BY <1>1, <1>3, <1>4

\* A page refused is a page.
LEMMA RefusedType ==
    ASSUME NEW code \in Code
    PROVE  Refused(code) \in Page
BY DEF Refused, Page, Cursor

\* Every cursor leads to a page of the trail, possibly a refusal.
LEMMA AuditsType ==
    ASSUME TypeOK, NEW filter, NEW asked, NEW cursor \in Cursor
    PROVE  auditsGetHandler(filter, cursor, parseLimit(asked)) \in Page
<1>1. Refused("BadRequestAuditTimeRangeInvalid") \in Page
  BY RefusedType DEF Code
<1>2. auditsPage(listAuditEntries(filter), cursor, parseLimit(asked)) \in Page
  BY MatchingType, LimitType, PageIsWindow
<1> QED BY <1>1, <1>2 DEF auditsGetHandler

\* And to a page of the collection.
LEMMA CollectionType ==
    ASSUME TypeOK, NEW asked, NEW cursor \in Cursor
    PROVE  collectionGet(asked, cursor) \in Page
<1> DEFINE limit == parseLimit(asked)
           total == Cardinality(items)
           offset == IF cursor = NoCursor THEN 0 ELSE OffsetFrom(cursor)
           end == OffsetEnd(items, offset, limit)
           served == {item \in items : offset < Position(items, item)
                                       /\ Position(items, item) <= end}
           prev == IF offset > 0 THEN Greater(0, offset - limit) ELSE NoCursor
           next == IF end < total THEN end ELSE NoCursor
<1>1. items \in SUBSET Nat /\ IsFiniteSet(items)
  <2>1. items \in SUBSET Item
    BY DEF TypeOK
  <2> QED BY <2>1, ItemAssumption, FS_Subset
<1>2. total \in Nat
  BY <1>1, FS_CardinalityType
<1>3. limit \in Nat \ {0}
  BY LimitType
<1>4. offset \in Nat
  BY DEF OffsetFrom, Cursor
<1>5. end \in Nat
  <2> HIDE DEF limit, offset
  <2> QED BY <1>2, <1>3, <1>4 DEF OffsetEnd, Smaller
<1>6. next \in Cursor
  <2> HIDE DEF end
  <2> QED BY <1>5 DEF Cursor
<1>7. prev \in Cursor
  <2> HIDE DEF limit, offset
  <2> QED BY <1>3, <1>4 DEF Greater, Cursor
<1>8. served \in SUBSET Nat
  BY <1>1
<1>9. Refused("BadRequestCursorInvalid") \in Page
  BY RefusedType DEF Code
<1>10. [code |-> "ok", total |-> total, entries |-> served, prev |-> prev, next |-> next]
          \in Page
  <2> HIDE DEF total, served, prev, next
  <2> QED BY <1>2, <1>6, <1>7, <1>8 DEF Page, Code
<1>11. [code |-> "ok", total |-> total, entries |-> items,
        prev |-> NoCursor, next |-> NoCursor] \in Page
  <2> HIDE DEF total
  <2> QED BY <1>1, <1>2 DEF Page, Code, Cursor
<1> QED BY <1>9, <1>10, <1>11 DEF collectionGet, paginate

\* Whatever a reader asks, it is served a page.
LEMMA ServeType ==
    ASSUME TypeOK, NEW list, NEW query, NEW cursor \in Cursor
    PROVE  Serve(list, query, cursor) \in Page
BY AuditsType, CollectionType DEF Serve

----------------------------------------------------------------------------
(* Type correctness *)

\* A reader that begins, in a state of the right type, begins a walk.
LEMMA WalkType ==
    ASSUME TypeOK, NEW list \in List, NEW query \in Query, NEW page \in Page
    PROVE  Walk(list, query, page) \in Walks
<1>1. page.entries \in SUBSET Nat
  BY DEF Page
<1>2. index \in Nat /\ items \in SUBSET Nat
  BY ItemAssumption DEF TypeOK
<1> QED BY <1>1, <1>2 DEF Walk, Walks

\* A walk that goes on is a walk of the same list and query.
LEMMA WalkedType ==
    ASSUME NEW w \in Walks, NEW page \in Page, NEW came \in {"next", "prev"}
    PROVE  LET next == Walked(w, page, came) IN
           /\ next \in Walks
           /\ next.list = w.list /\ next.query = w.query /\ next.top = w.top
           /\ next.page = page /\ next.came = came
           /\ next.forward = (w.forward /\ came = "next")
           /\ next.repeated = (w.repeated \/ page.entries \cap w.seen # {})
           /\ next.seen = w.seen \cup page.entries
<1>1. page.entries \in SUBSET Nat
  BY DEF Page
<1>2. w.seen \in SUBSET Nat /\ w.forward \in BOOLEAN /\ w.repeated \in BOOLEAN
  BY DEF Walks
<1> QED BY <1>1, <1>2 DEF Walked, Walks

\* A reader that has begun is in a walk, and its page has proper cursors.
LEMMA ReadingType ==
    ASSUME TypeOK, NEW r \in Reader, Reading(r)
    PROVE  reader[r] \in Walks /\ reader[r].page \in Page
           /\ reader[r].page.next \in Cursor /\ reader[r].page.prev \in Cursor
<1>1. reader[r] \in Walks
  BY DEF TypeOK, Reading, Nowhere
<1>2. reader[r].page \in Page
  BY <1>1 DEF Walks
<1> QED BY <1>1, <1>2 DEF Page

\* Every reading step replaces one reader's state by a walk.
LEMMA ReadStep ==
    ASSUME TypeOK, NEW r \in Reader,
           FirstAudits(r) \/ FirstItems(r) \/ FollowNext(r) \/ FollowPrev(r)
    PROVE  \E w \in Walks : Read(r, w)
<1> NoCursor \in Cursor
  BY DEF Cursor
<1>1. CASE FirstAudits(r)
  <2>1. PICK filter \in Filter, asked \in AskedLimit :
          Read(r, Walk("audits", [filter |-> filter, asked |-> asked],
                       Serve("audits", [filter |-> filter, asked |-> asked], NoCursor)))
    BY <1>1 DEF FirstAudits
  <2> DEFINE query == [filter |-> filter, asked |-> asked]
  <2>2. query \in Query
    BY DEF Query
  <2>3. Serve("audits", query, NoCursor) \in Page
    BY ServeType
  <2> HIDE DEF query
  <2>4. Walk("audits", query, Serve("audits", query, NoCursor)) \in Walks
    BY <2>2, <2>3, WalkType DEF List
  <2> QED BY <2>1, <2>4 DEF query
<1>2. CASE FirstItems(r)
  <2>1. PICK asked \in AskedLimit :
          Read(r, Walk("items", [asked |-> asked], Serve("items", [asked |-> asked], NoCursor)))
    BY <1>2 DEF FirstItems
  <2> DEFINE query == [asked |-> asked]
  <2>2. query \in Query
    BY DEF Query
  <2>3. Serve("items", query, NoCursor) \in Page
    BY ServeType
  <2> HIDE DEF query
  <2>4. Walk("items", query, Serve("items", query, NoCursor)) \in Walks
    BY <2>2, <2>3, WalkType DEF List
  <2> QED BY <2>1, <2>4 DEF query
<1>3. CASE FollowNext(r)
  <2> DEFINE w == reader[r]
             page == Serve(w.list, w.query, w.page.next)
  <2>1. Reading(r) /\ Read(r, Walked(w, page, "next"))
    BY <1>3 DEF FollowNext
  <2>2. w \in Walks /\ page \in Page
    BY <2>1, ReadingType, ServeType
  <2> HIDE DEF w, page
  <2>3. Walked(w, page, "next") \in Walks
    BY <2>2, WalkedType
  <2> QED BY <2>1, <2>3
<1>4. CASE FollowPrev(r)
  <2> DEFINE w == reader[r]
             page == Serve(w.list, w.query, w.page.prev)
  <2>1. Reading(r) /\ Read(r, Walked(w, page, "prev"))
    BY <1>4 DEF FollowPrev
  <2>2. w \in Walks /\ page \in Page
    BY <2>1, ReadingType, ServeType
  <2> HIDE DEF w, page
  <2>3. Walked(w, page, "prev") \in Walks
    BY <2>2, WalkedType
  <2> QED BY <2>1, <2>3
<1> QED BY <1>1, <1>2, <1>3, <1>4

\* A change of the collection leaves the readers in their walks.
LEMMA NotedType ==
    ASSUME TypeOK, NEW inserted \in BOOLEAN, NEW removed \in BOOLEAN, Noted(inserted, removed)
    PROVE  /\ reader' \in [Reader -> {Nowhere(list) : list \in List} \cup Walks]
           /\ \A r \in Reader : reader[r].list # "items" => reader'[r] = reader[r]
           /\ \A r \in Reader : reader[r].list = "items" => reader'[r].list = "items"
<1> SUFFICES ASSUME NEW r \in Reader
             PROVE  /\ reader'[r] \in {Nowhere(list) : list \in List} \cup Walks
                    /\ reader[r].list # "items" => reader'[r] = reader[r]
                    /\ reader[r].list = "items" => reader'[r].list = "items"
  BY DEF Noted
<1> DEFINE w == reader[r]
           next == [w EXCEPT !.inserted = @ \/ inserted, !.removed = @ \/ removed]
<1>1. w \in {Nowhere(list) : list \in List} \cup Walks
  BY DEF TypeOK
<1>2. reader'[r] = IF Reading(r) /\ w.list = "items" THEN next ELSE w
  BY DEF Noted
<1>3. ASSUME Reading(r)
      PROVE  next \in Walks /\ next.list = w.list
  <2>1. w \in Walks
    BY <1>3, ReadingType
  <2> HIDE DEF w
  <2> QED BY <2>1 DEF Walks
<1> HIDE DEF w, next
<1> QED BY <1>1, <1>2, <1>3 DEF w

\* Every variable keeps its type (all handlers; Append gives the new entry the
\* next index of the log).
LEMMA TypeStep ==
    ASSUME TypeOK, [Next]_vars
    PROVE  TypeOK'
<1>1. CASE Append
  <2>1. PICK entry \in Entry : trail' = applyAuditEntry(index + 1, entry)
    BY <1>1 DEF Append
  <2>2. DOMAIN trail' = DOMAIN trail \cup {index + 1}
    BY <2>1 DEF applyAuditEntry
  <2>3. index' = index + 1 /\ UNCHANGED <<items, changes, reader>>
    BY <1>1 DEF Append
  <2> QED BY <2>2, <2>3 DEF TypeOK
<1>2. CASE OtherCommand
  BY <1>2 DEF OtherCommand, TypeOK
<1>3. CASE Insert
  <2>1. Noted(TRUE, FALSE) /\ UNCHANGED <<index, trail>> /\ changes' = changes + 1
    BY <1>3 DEF Insert
  <2>2. items' \subseteq Item
    BY <1>3 DEF Insert, TypeOK
  <2>3. reader' \in [Reader -> {Nowhere(list) : list \in List} \cup Walks]
    BY <2>1, NotedType
  <2>4. changes' \in Nat /\ index' \in Nat /\ DOMAIN trail' \subseteq 1..index'
    BY <2>1 DEF TypeOK
  <2> QED BY <2>2, <2>3, <2>4 DEF TypeOK
<1>4. CASE Remove
  <2>1. Noted(FALSE, TRUE) /\ UNCHANGED <<index, trail>> /\ changes' = changes + 1
    BY <1>4 DEF Remove
  <2>2. items' \subseteq Item
    BY <1>4 DEF Remove, TypeOK
  <2>3. reader' \in [Reader -> {Nowhere(list) : list \in List} \cup Walks]
    BY <2>1, NotedType
  <2>4. changes' \in Nat /\ index' \in Nat /\ DOMAIN trail' \subseteq 1..index'
    BY <2>1 DEF TypeOK
  <2> QED BY <2>2, <2>3, <2>4 DEF TypeOK
<1>5. ASSUME NEW r \in Reader,
             FirstAudits(r) \/ FirstItems(r) \/ FollowNext(r) \/ FollowPrev(r)
      PROVE  TypeOK'
  <2>1. PICK w \in Walks : Read(r, w)
    BY <1>5, ReadStep
  <2> QED BY <2>1 DEF Read, TypeOK
<1>6. CASE UNCHANGED vars
  BY <1>6 DEF vars, TypeOK
<1> QED BY <1>1, <1>2, <1>3, <1>4, <1>5, <1>6 DEF Next

\* The variables of Listing have the types of TypeOK in every behaviour.
THEOREM TypeCorrect == Spec => []TypeOK
<1>1. Init => TypeOK
  BY DEF Init, TypeOK
<1>2. TypeOK /\ [Next]_vars => TypeOK'
  BY TypeStep
<1> QED BY <1>1, <1>2, PTL DEF Spec

----------------------------------------------------------------------------
(* What a forward reader of the trail is served *)

\* The strengthening: a cursor was given with a page that was not refused and
\* names an entry not newer than the trail was when the reader began, so what
\* is appended later is never between the reader's start and its cursor.
Matches(w, id) == id \in listAuditEntries(w.query.filter)
Window(w) ==
    \A id \in Nat : id \in w.seen <=>
        /\ Matches(w, id) /\ id <= w.top
        /\ w.page.next # NoCursor => id >= w.page.next
Served(w) ==
    /\ ~w.repeated
    /\ w.page.next # NoCursor => w.page.code = "ok" /\ w.page.next \in 1..w.top
    /\ w.page.code = "ok" => Window(w)
AllServed == \A r \in Reader : Forward(r, "audits") =>
                 reader[r].top <= index /\ Served(reader[r])
IInv == TypeOK /\ AllServed

\* A page of the trail is refused, and then empty and without cursors, or it is
\* the window below the cursor it was asked with.
LEMMA AuditsWindow ==
    ASSUME TypeOK, NEW filter, NEW asked, NEW cursor \in Cursor, NEW page,
           page = auditsGetHandler(filter, cursor, parseLimit(asked))
    PROVE  \/ page.code # "ok" /\ page.entries = {} /\ page.next = NoCursor
           \/ /\ page.code = "ok"
              /\ page.entries \subseteq listAuditEntries(filter)
              /\ \A id \in listAuditEntries(filter) : id \in page.entries <=>
                     /\ cursor \notin {NoCursor, 0} => id < cursor
                     /\ page.next # NoCursor => id >= page.next
              /\ page.next # NoCursor => page.next \in page.entries
<1>1. CASE filter.from # 0 /\ filter.to # 0 /\ filter.from > filter.to
  BY <1>1 DEF auditsGetHandler, Refused
<1>2. CASE ~(filter.from # 0 /\ filter.to # 0 /\ filter.from > filter.to)
  <2>1. page = auditsPage(listAuditEntries(filter), cursor, parseLimit(asked))
    BY <1>2 DEF auditsGetHandler
  <2>2. /\ listAuditEntries(filter) \in SUBSET (Nat \ {0})
        /\ IsFiniteSet(listAuditEntries(filter))
    BY MatchingType
  <2>3. parseLimit(asked) \in Nat \ {0}
    BY LimitType
  <2> QED BY <2>1, <2>2, <2>3, PageIsWindow
<1> QED BY <1>1, <1>2

\* The first page begins a walk that has been served what it should.
LEMMA FirstServed ==
    ASSUME TypeOK, NEW query, NEW page, NEW w,
           page = Serve("audits", query, NoCursor), w = Walk("audits", query, page)
    PROVE  w.top <= index /\ Served(w)
<1> DEFINE all == listAuditEntries(query.filter)
<1>1. /\ w.query = query /\ w.page = page /\ w.top = index /\ w.repeated = FALSE
      /\ w.seen = page.entries
  BY DEF Walk
<1>2. index \in Nat /\ \A id \in all : id \in Nat \ {0} /\ id <= index
  BY MatchingType DEF TypeOK
<1>3. NoCursor \in Cursor /\ page = auditsGetHandler(query.filter, NoCursor, parseLimit(query.asked))
  BY DEF Serve, Cursor
<1> HIDE DEF all
<1>4. CASE page.code # "ok" /\ page.entries = {} /\ page.next = NoCursor
  BY <1>1, <1>2, <1>4 DEF Served
<1>5. CASE /\ page.code = "ok" /\ page.entries \subseteq all
           /\ \A id \in all : id \in page.entries <=>
                  /\ NoCursor \notin {NoCursor, 0} => id < NoCursor
                  /\ page.next # NoCursor => id >= page.next
           /\ page.next # NoCursor => page.next \in page.entries
  <2>1. page.next # NoCursor => page.next \in 1..w.top
    BY <1>1, <1>2, <1>5
  <2>2. \A id \in Nat : id \in w.seen <=>
          /\ id \in all /\ id <= w.top
          /\ page.next # NoCursor => id >= page.next
    BY <1>1, <1>2, <1>5
  <2>3. Window(w)
    BY <1>1, <2>2 DEF Window, Matches, all
  <2> QED BY <1>1, <1>2, <1>5, <2>1, <2>3 DEF Served
<1> QED BY <1>3, <1>4, <1>5, AuditsWindow DEF all

\* The next page continues it: it starts right below the cursor.
LEMMA NextServed ==
    ASSUME TypeOK, NEW w \in Walks, w.list = "audits", Served(w), w.page.next # NoCursor,
           NEW page, page = Serve(w.list, w.query, w.page.next)
    PROVE  Served(Walked(w, page, "next"))
<1> DEFINE all == listAuditEntries(w.query.filter)
           cursor == w.page.next
           next == Walked(w, page, "next")
<1>1. w.page.code = "ok" /\ cursor \in 1..w.top /\ Window(w) /\ w.repeated = FALSE
  BY DEF Served, Walks
<1>2. cursor \in Nat \ {0} /\ cursor \in Cursor /\ w.top \in Nat /\ cursor <= w.top
  BY <1>1 DEF Walks, Cursor
<1>3. \A id \in all : id \in Nat \ {0}
  BY MatchingType
<1>4. page \in Page /\ page = auditsGetHandler(w.query.filter, cursor, parseLimit(w.query.asked))
  BY <1>2, ServeType DEF Serve
<1>5. /\ next.query = w.query /\ next.top = w.top /\ next.page = page
      /\ next.repeated = (w.repeated \/ page.entries \cap w.seen # {})
      /\ next.seen = w.seen \cup page.entries
  BY <1>4, WalkedType
<1>6. \A id \in Nat : id \in w.seen <=> id \in all /\ id <= w.top /\ id >= cursor
  BY <1>1 DEF Window, Matches
<1> HIDE DEF all, cursor, next
<1>7. CASE page.code # "ok" /\ page.entries = {} /\ page.next = NoCursor
  BY <1>1, <1>5, <1>7 DEF Served, next
<1>8. CASE /\ page.code = "ok" /\ page.entries \subseteq all
           /\ \A id \in all : id \in page.entries <=>
                  /\ cursor \notin {NoCursor, 0} => id < cursor
                  /\ page.next # NoCursor => id >= page.next
           /\ page.next # NoCursor => page.next \in page.entries
  <2>1. cursor \notin {NoCursor, 0}
    BY <1>2 DEF NoCursor
  <2>2. \A id \in page.entries : id \in Nat \ {0} /\ id < cursor
    BY <1>3, <1>8, <2>1
  <2>3. page.entries \cap w.seen = {}
    BY <1>2, <1>6, <2>2
  <2>4. page.next # NoCursor => page.next \in 1..w.top /\ page.next < cursor
    BY <1>2, <1>8, <2>2
  <2>5. ASSUME NEW id \in Nat
        PROVE  id \in next.seen <=> /\ id \in all /\ id <= w.top
                                    /\ page.next # NoCursor => id >= page.next
    BY <1>2, <1>5, <1>6, <1>8, <2>1, <2>4
  <2>6. Window(next)
    BY <1>5, <2>5 DEF Window, Matches, all
  <2>7. next.repeated = FALSE
    BY <1>1, <1>5, <2>3
  <2> QED BY <1>5, <1>8, <2>4, <2>6, <2>7 DEF Served, next
<1> QED BY <1>2, <1>4, <1>7, <1>8, AuditsWindow DEF all, next

\* Appending to the trail does not disturb the windows above old cursors.
LEMMA WindowKept ==
    ASSUME TypeOK, NEW w \in Walks, w.top <= index, Served(w),
           \A id \in Nat : id <= index => (Matches(w, id) <=> Matches(w, id)')
    PROVE  Served(w)'
<1>1. index \in Nat /\ w.top \in Nat
  BY DEF TypeOK, Walks
<1>2. Window(w) => Window(w)'
  <2>1. SUFFICES ASSUME Window(w), NEW id \in Nat
                 PROVE  id \in w.seen <=> /\ Matches(w, id)' /\ id <= w.top
                                          /\ w.page.next # NoCursor => id >= w.page.next
    BY DEF Window
  <2>2. id \in w.seen <=> /\ Matches(w, id) /\ id <= w.top
                          /\ w.page.next # NoCursor => id >= w.page.next
    BY <2>1 DEF Window
  <2>3. id <= w.top => id <= index
    BY <1>1
  <2> QED BY <2>2, <2>3
<1> QED BY <1>2 DEF Served

\* A reader that did not move keeps what it was served, if the entries that
\* were there are still there as they were.
LEMMA IdleServed ==
    ASSUME TypeOK, AllServed, NEW r \in Reader, reader'[r] = reader[r], Forward(r, "audits")',
           index' \in Nat, index <= index',
           \A id \in Nat : id <= index =>
               /\ id \in DOMAIN trail <=> id \in DOMAIN trail'
               /\ id \in DOMAIN trail => trail'[id] = trail[id]
    PROVE  (reader[r].top <= index /\ Served(reader[r]))'
<1>1. Forward(r, "audits")
  BY DEF Forward, Reading
<1>2. PICK w \in Walks : w = reader[r]
  BY <1>1, ReadingType DEF Forward
<1>3. w.top <= index /\ Served(w) /\ index \in Nat /\ w.top \in Nat
  BY <1>1, <1>2 DEF AllServed, TypeOK, Walks
<1>4. \A id \in Nat : id <= index => (Matches(w, id) <=> Matches(w, id)')
  BY DEF Matches, listAuditEntries, matches
<1>5. Served(w)'
  BY <1>3, <1>4, WindowKept
<1>6. reader'[r] = w
  BY <1>2
<1>7. w.top <= index'
  BY <1>3
<1>8. Served(reader[r])'
  BY <1>5, <1>6 DEF Served, Window, Matches
<1> QED BY <1>6, <1>7, <1>8

\* Every step keeps every forward reader served (all handlers).
LEMMA ServedStep ==
    ASSUME IInv, [Next]_vars
    PROVE  AllServed'
<1> USE DEF IInv
<1> SUFFICES ASSUME NEW r \in Reader, Forward(r, "audits")'
             PROVE  (reader[r].top <= index /\ Served(reader[r]))'
  BY DEF AllServed
<1>0. index \in Nat
  BY DEF TypeOK
<1>1. CASE Append
  <2>1. PICK entry \in Entry : trail' = applyAuditEntry(index + 1, entry)
    BY <1>1 DEF Append
  <2>2. index' = index + 1 /\ reader' = reader
    BY <1>1 DEF Append
  <2>3. /\ DOMAIN trail' = DOMAIN trail \cup {index + 1}
        /\ \A id \in DOMAIN trail : id # index + 1 => trail'[id] = trail[id]
    BY <2>1 DEF applyAuditEntry
  <2>4. \A id \in Nat : id <= index =>
          /\ id \in DOMAIN trail <=> id \in DOMAIN trail'
          /\ id \in DOMAIN trail => trail'[id] = trail[id]
    BY <1>0, <2>3
  <2> QED BY <1>0, <2>2, <2>4, IdleServed
<1>2. CASE OtherCommand
  <2>1. index' = index + 1 /\ reader' = reader /\ trail' = trail
    BY <1>2 DEF OtherCommand
  <2> QED BY <1>0, <2>1, IdleServed
<1>3. ASSUME NEW inserted \in BOOLEAN, NEW removed \in BOOLEAN,
             Noted(inserted, removed), UNCHANGED <<index, trail>>
      PROVE  (reader[r].top <= index /\ Served(reader[r]))'
  <2>1. reader[r].list # "items"
    BY <1>3, NotedType DEF Forward
  <2>2. reader'[r] = reader[r] /\ index' = index
    BY <1>3, <2>1, NotedType
  <2> QED BY <1>0, <1>3, <2>2, IdleServed
<1>4. CASE Insert
  BY <1>3, <1>4 DEF Insert
<1>5. CASE Remove
  BY <1>3, <1>5 DEF Remove
<1>6. ASSUME NEW s \in Reader, NEW w \in Walks, Read(s, w), s # r
      PROVE  (reader[r].top <= index /\ Served(reader[r]))'
  <2>1. reader'[r] = reader[r] /\ index' = index /\ trail' = trail
    BY <1>6 DEF Read, TypeOK
  <2> QED BY <1>0, <2>1, IdleServed
<1>7. ASSUME NEW w \in Walks, Read(r, w), w.top <= index, Served(w)
      PROVE  (reader[r].top <= index /\ Served(reader[r]))'
  <2>1. reader'[r] = w /\ index' = index /\ trail' = trail
    BY <1>7 DEF Read, TypeOK
  <2>2. \A filter : listAuditEntries(filter)' = listAuditEntries(filter)
    BY <2>1 DEF listAuditEntries, matches
  <2>3. Served(reader[r])'
    BY <1>7, <2>1, <2>2 DEF Served, Window, Matches
  <2> QED BY <1>7, <2>1, <2>3
<1>8. ASSUME NEW s \in Reader,
             FirstAudits(s) \/ FirstItems(s) \/ FollowNext(s) \/ FollowPrev(s)
      PROVE  (reader[r].top <= index /\ Served(reader[r]))'
  <2>1. CASE s # r
    <3>1. PICK w \in Walks : Read(s, w)
      BY <1>8, ReadStep
    <3> QED BY <1>6, <2>1, <3>1
  <2>2. CASE s = r /\ FirstAudits(r)
    <3>1. PICK filter \in Filter, asked \in AskedLimit :
            Read(r, Walk("audits", [filter |-> filter, asked |-> asked],
                         Serve("audits", [filter |-> filter, asked |-> asked], NoCursor)))
      BY <2>2 DEF FirstAudits
    <3> DEFINE query == [filter |-> filter, asked |-> asked]
               page == Serve("audits", query, NoCursor)
               w == Walk("audits", query, page)
    <3>2. w.top <= index /\ Served(w)
      BY FirstServed
    <3>3. query \in Query /\ page \in Page
      BY ServeType DEF Query, Cursor
    <3>4. w \in Walks
      <4> HIDE DEF query, page
      <4> QED BY <3>3, WalkType DEF List
    <3> HIDE DEF w
    <3>5. Read(r, w)
      BY <3>1 DEF w
    <3> QED BY <1>7, <3>2, <3>4, <3>5
  <2>3. CASE s = r /\ FirstItems(r)
    <3>1. PICK asked \in AskedLimit :
            Read(r, Walk("items", [asked |-> asked], Serve("items", [asked |-> asked], NoCursor)))
      BY <2>3 DEF FirstItems
    <3>2. reader'[r].list = "items"
      BY <3>1 DEF Read, Walk, TypeOK
    <3> QED BY <3>2 DEF Forward
  <2>4. CASE s = r /\ FollowNext(r)
    <3>1. PICK w \in Walks : w = reader[r]
      BY <2>4, ReadingType DEF FollowNext
    <3> DEFINE page == Serve(w.list, w.query, w.page.next)
               next == Walked(w, page, "next")
    <3>2. Reading(r) /\ w.page.next # NoCursor /\ Read(r, next)
      BY <2>4, <3>1 DEF FollowNext
    <3>3. page \in Page
      BY <3>1, <3>2, ReadingType, ServeType
    <3>4. /\ next \in Walks /\ next.list = w.list /\ next.top = w.top
          /\ next.forward = (w.forward /\ TRUE)
      BY <3>3, WalkedType
    <3> HIDE DEF page, next
    <3>5. reader'[r] = next
      BY <3>2 DEF Read, TypeOK
    <3>6. w.list = "audits" /\ w.forward
      BY <3>4, <3>5 DEF Forward
    <3>7. w.top <= index /\ Served(w)
      BY <3>1, <3>2, <3>6 DEF AllServed, Forward
    <3>8. Served(next)
      BY <3>2, <3>6, <3>7, NextServed DEF page, next
    <3> QED BY <1>7, <3>2, <3>4, <3>7, <3>8
  <2>5. CASE s = r /\ FollowPrev(r)
    <3>1. PICK w \in Walks : w = reader[r]
      BY <2>5, ReadingType DEF FollowPrev
    <3> DEFINE page == Serve(w.list, w.query, w.page.prev)
               next == Walked(w, page, "prev")
    <3>2. Reading(r) /\ Read(r, next)
      BY <2>5, <3>1 DEF FollowPrev
    <3>3. page \in Page
      BY <3>1, <3>2, ReadingType, ServeType
    <3>4. next.forward = (w.forward /\ "prev" = "next")
      BY <3>3, WalkedType
    <3> HIDE DEF page, next
    <3>5. reader'[r] = next
      BY <3>2 DEF Read, TypeOK
    <3> QED BY <3>4, <3>5 DEF Forward
  <2> QED BY <1>8, <2>1, <2>2, <2>3, <2>4, <2>5
<1>9. CASE UNCHANGED vars
  <2>1. reader' = reader /\ index' = index /\ trail' = trail
    BY <1>9 DEF vars
  <2> QED BY <1>0, <2>1, IdleServed
<1> QED BY <1>1, <1>2, <1>4, <1>5, <1>8, <1>9 DEF Next

\* The inductive invariant holds in every behaviour.
LEMMA Inductive == Spec => []IInv
<1>1. Init => IInv
  <2> SUFFICES ASSUME Init
               PROVE  IInv
    OBVIOUS
  <2>1. \A r \in Reader : ~Reading(r)
    BY DEF Init, Reading, Nowhere
  <2>2. TypeOK
    BY DEF Init, TypeOK
  <2> QED BY <2>1, <2>2 DEF IInv, AllServed, Forward
<1>2. IInv /\ [Next]_vars => IInv'
  BY TypeStep, ServedStep DEF IInv
<1> QED BY <1>1, <1>2, PTL DEF Spec

\* Whoever follows nextCursor through the trail has been served exactly the
\* matching entries from where it began down to its cursor, whatever was
\* appended meanwhile, whatever the limit and the filter (auditsGetHandler).
THEOREM ForwardSkipsNothing == Spec => []NothingSkipped
<1>1. IInv => NothingSkipped
  <2> SUFFICES ASSUME IInv, NEW r \in Reader, Forward(r, "audits"), reader[r].page.code = "ok"
               PROVE  reader[r].seen =
                        {id \in Matching(r) : id <= reader[r].top
                            /\ (reader[r].page.next # NoCursor => id >= reader[r].page.next)}
    BY DEF NothingSkipped
  <2>1. Window(reader[r]) /\ TypeOK
    BY DEF IInv, AllServed, Served
  <2>2. reader[r].seen \in SUBSET Nat
    BY <2>1, ReadingType DEF Forward, Walks
  <2>3. Matching(r) \in SUBSET Nat /\ Matching(r) = listAuditEntries(reader[r].query.filter)
    BY <2>1, MatchingType DEF Matching
  <2> DEFINE w == reader[r]
             all == Matching(r)
             Due(id) == id <= w.top /\ (w.page.next # NoCursor => id >= w.page.next)
  <2>4. \A id \in Nat : id \in w.seen <=> id \in all /\ Due(id)
    BY <2>1, <2>3 DEF Window, Matches
  <2> HIDE DEF Due, all
  <2>5. w.seen = {id \in all : Due(id)}
    BY <2>2, <2>3, <2>4 DEF all
  <2> QED BY <2>5 DEF Due, all
<1> QED BY <1>1, Inductive, PTL

\* and none of them twice.
THEOREM ForwardRepeatsNothing == Spec => []NothingRepeated
<1>1. IInv => NothingRepeated
  BY DEF IInv, AllServed, Served, NothingRepeated
<1> QED BY <1>1, Inductive, PTL

----------------------------------------------------------------------------
(* Pages of the collection *)

\* The keys of the collection are finitely many natural numbers.
LEMMA ItemsType ==
    ASSUME TypeOK
    PROVE  items \in SUBSET Nat /\ IsFiniteSet(items) /\ Cardinality(items) \in Nat
<1>1. items \in SUBSET Item
  BY DEF TypeOK
<1> QED BY <1>1, ItemAssumption, FS_Subset, FS_CardinalityType

\* The position of an item is a number between 1 and the length of the list.
LEMMA PositionBound ==
    ASSUME NEW all \in SUBSET Nat, IsFiniteSet(all), NEW item \in all
    PROVE  Position(all, item) \in 1..Cardinality(all)
<1> DEFINE upTo == {other \in all : other <= item}
<1>1. upTo \in SUBSET all /\ item \in upTo
  OBVIOUS
<1>2. IsFiniteSet(upTo) /\ Cardinality(upTo) <= Cardinality(all)
  BY <1>1, FS_Subset
<1>3. Cardinality(upTo) \in Nat /\ Cardinality(all) \in Nat /\ Cardinality(upTo) # 0
  BY <1>1, <1>2, FS_CardinalityType, FS_EmptySet
<1> QED BY <1>2, <1>3 DEF Position

\* In a longer list an item is not nearer to the front.
LEMMA PositionGrows ==
    ASSUME NEW all \in SUBSET Nat, IsFiniteSet(all), NEW more \in SUBSET all, NEW item
    PROVE  Position(more, item) <= Position(all, item)
<1> DEFINE before(set) == {other \in set : other <= item}
<1>1. before(all) \in SUBSET all /\ before(more) \in SUBSET before(all)
  OBVIOUS
<1> HIDE DEF before
<1>2. IsFiniteSet(before(all))
  BY <1>1, FS_Subset
<1>3. Cardinality(before(more)) <= Cardinality(before(all))
  BY <1>1, <1>2, FS_Subset
<1> QED BY <1>3 DEF Position, before

\* A cursor is refused if and only if it is behind the end of the list.  A page
\* that is not refused holds the items from the cursor it was asked with up to
\* the one it gives, and its cursors are within the list.
LEMMA CollectionPage ==
    ASSUME TypeOK, NEW asked, NEW cursor \in Cursor, NEW page,
           page = collectionGet(asked, cursor)
    PROVE  LET from == IF cursor = NoCursor THEN 0 ELSE cursor IN
           \/ /\ page.code # "ok" /\ page.entries = {} /\ page.next = NoCursor
              /\ from > Cardinality(items)
           \/ /\ page.code = "ok" /\ from <= Cardinality(items)
              /\ page.entries \subseteq items
              /\ \A item \in items : item \in page.entries <=>
                     /\ from < Position(items, item)
                     /\ page.next # NoCursor => Position(items, item) <= page.next
              /\ page.next # NoCursor =>
                     from <= page.next /\ page.next <= Cardinality(items)
              /\ page.prev # NoCursor => page.prev <= Cardinality(items)
<1> DEFINE limit == parseLimit(asked)
           total == Cardinality(items)
           from == IF cursor = NoCursor THEN 0 ELSE cursor
           end == OffsetEnd(items, from, limit)
           served == {item \in items : from < Position(items, item)
                                       /\ Position(items, item) <= end}
           prev == IF from > 0 THEN Greater(0, from - limit) ELSE NoCursor
           next == IF end < total THEN end ELSE NoCursor
<1>1. items \in SUBSET Nat /\ IsFiniteSet(items) /\ total \in Nat
  BY ItemsType
<1>2. \A item \in items : Position(items, item) \in 1..total
  BY <1>1, PositionBound
<1>3. limit \in Nat \ {0} /\ from \in Nat
  BY LimitType DEF Cursor
<1>4. CASE asked = NoLimit /\ cursor = NoCursor
  <2>1. page = [code |-> "ok", total |-> total, entries |-> items,
                prev |-> NoCursor, next |-> NoCursor]
    BY <1>4 DEF collectionGet
  <2>2. from = 0
    BY <1>4
  <2> HIDE DEF from, total
  <2> QED BY <1>1, <1>2, <2>1, <2>2 DEF from, total
<1>5. CASE ~(asked = NoLimit /\ cursor = NoCursor)
  <2>1. page = IF from > total THEN Refused("BadRequestCursorInvalid")
               ELSE [code |-> "ok", total |-> total, entries |-> served,
                     prev |-> prev, next |-> next]
    BY <1>5 DEF collectionGet, paginate, OffsetRefused, OffsetFrom
  <2> HIDE DEF from, limit
  <2>2. CASE from > total
    BY <2>1, <2>2 DEF Refused, from
  <2>3. CASE ~(from > total)
    <3>1. page.code = "ok" /\ page.entries = served /\ page.prev = prev /\ page.next = next
      BY <2>1, <2>3
    <3>2. end = (IF from + limit <= total THEN from + limit ELSE total)
      BY DEF OffsetEnd, Smaller
    <3>3. end \in Nat /\ from <= end /\ end <= total
      BY <1>1, <1>3, <2>3, <3>2
    <3>4. next # NoCursor => next = end
      OBVIOUS
    <3>5. next = NoCursor => end = total
      BY <3>3, <1>1 DEF NoCursor
    <3>6. prev # NoCursor => prev <= total
      BY <1>1, <1>3, <2>3 DEF Greater
    <3>7. ASSUME NEW item \in items
          PROVE  item \in served <=> /\ from < Position(items, item)
                                     /\ next # NoCursor => Position(items, item) <= next
      <4> HIDE DEF next, end
      <4>1. Position(items, item) <= total
        BY <1>1, <1>2
      <4> QED BY <3>4, <3>5, <4>1
    <3> HIDE DEF served, next, prev, end
    <3>8. served \subseteq items
      BY DEF served
    <3>9. next # NoCursor => from <= next /\ next <= total
      BY <3>3, <3>4
    <3> QED BY <1>1, <1>3, <2>3, <3>1, <3>6, <3>7, <3>8, <3>9 DEF from
  <2> QED BY <2>2, <2>3
<1> QED BY <1>4, <1>5

----------------------------------------------------------------------------
(* What a reader of the collection is served *)

\* The strengthening: while nothing is removed no cursor of the reader falls
\* behind the end of the list, and what it has not been served is behind its
\* cursor; while nothing is inserted what it has been served is before it.
Kept(w) ==
    /\ w.page.code = "ok" /\ w.items \subseteq items
    /\ w.page.next # NoCursor => w.page.next <= Cardinality(items)
    /\ w.page.prev # NoCursor => w.page.prev <= Cardinality(items)
Ahead(w) ==
    \A item \in w.items :
        item \in w.seen \/ (w.page.next # NoCursor /\ w.page.next < Position(items, item))
Behind(w) ==
    /\ ~w.repeated
    /\ w.page.next # NoCursor =>
           \A item \in w.seen \cap items : Position(items, item) <= w.page.next
Tracked(w) ==
    /\ ~w.removed => Kept(w)
    /\ w.forward /\ ~w.removed => Ahead(w)
    /\ w.forward /\ ~w.inserted => Behind(w)
AllTracked == \A r \in Reader : Reading(r) /\ reader[r].list = "items" => Tracked(reader[r])

\* The first page of a collection is never refused, and it is the front of it.
LEMMA FirstTracked ==
    ASSUME TypeOK, NEW query, NEW page, NEW w,
           page = Serve("items", query, NoCursor), w = Walk("items", query, page)
    PROVE  Tracked(w)
<1>1. /\ w.page = page /\ w.items = items /\ w.repeated = FALSE
      /\ w.seen = page.entries
  BY DEF Walk
<1>2. /\ items \in SUBSET Nat /\ Cardinality(items) \in Nat
      /\ \A item \in items : Position(items, item) \in 1..Cardinality(items)
  BY ItemsType, PositionBound
<1>3. NoCursor \in Cursor /\ page = collectionGet(query.asked, NoCursor)
  BY DEF Serve, Cursor
<1>4. /\ page.code = "ok" /\ page.entries \subseteq items
      /\ \A item \in items : item \in page.entries <=>
             /\ 0 < Position(items, item)
             /\ page.next # NoCursor => Position(items, item) <= page.next
      /\ page.next # NoCursor => 0 <= page.next /\ page.next <= Cardinality(items)
      /\ page.prev # NoCursor => page.prev <= Cardinality(items)
  BY <1>2, <1>3, CollectionPage
<1>5. page.next # NoCursor => page.next \in Nat
  BY <1>3, CollectionType, ZenonT(30) DEF Page, Cursor
<1>6. Kept(w)
  BY <1>1, <1>4 DEF Kept
<1>7. Ahead(w)
  <2> SUFFICES ASSUME NEW item \in items, item \notin page.entries
               PROVE  page.next # NoCursor /\ page.next < Position(items, item)
    BY <1>1 DEF Ahead
  <2> QED BY <1>2, <1>4, <1>5
<1>8. Behind(w)
  BY <1>1, <1>4 DEF Behind
<1> QED BY <1>6, <1>7, <1>8 DEF Tracked

\* Whichever cursor of its page a reader follows, it is refused only after a
\* removal, and the page served has its cursors within the list.
LEMMA FollowKept ==
    ASSUME TypeOK, NEW w \in Walks, w.list = "items", Tracked(w), ~w.removed,
           NEW cursor \in {w.page.next, w.page.prev}, cursor # NoCursor, cursor \in Cursor,
           NEW page \in Page, page = Serve(w.list, w.query, cursor),
           NEW came \in {"next", "prev"}
    PROVE  Kept(Walked(w, page, came))
<1>1. Kept(w)
  BY DEF Tracked
<1>2. cursor <= Cardinality(items) /\ cursor \in Nat /\ Cardinality(items) \in Nat
  BY <1>1, ItemsType DEF Kept, Cursor
<1>3. page = collectionGet(w.query.asked, cursor)
  BY DEF Serve
<1>4. /\ page.code = "ok"
      /\ page.next # NoCursor => page.next <= Cardinality(items)
      /\ page.prev # NoCursor => page.prev <= Cardinality(items)
  BY <1>2, <1>3, CollectionPage
<1>5. Walked(w, page, came).page = page /\ Walked(w, page, came).items = w.items
  BY DEF Walked, Walks
<1> QED BY <1>1, <1>4, <1>5 DEF Kept

\* The next page begins right behind what was served before.
LEMMA NextTracked ==
    ASSUME TypeOK, NEW w \in Walks, w.list = "items", Tracked(w), w.page.next # NoCursor,
           w.page.next \in Cursor,
           NEW page \in Page, page = Serve(w.list, w.query, w.page.next)
    PROVE  Tracked(Walked(w, page, "next"))
<1> DEFINE cursor == w.page.next
           next == Walked(w, page, "next")
<1>1. /\ items \in SUBSET Nat /\ Cardinality(items) \in Nat
      /\ \A item \in items : Position(items, item) \in 1..Cardinality(items)
  BY ItemsType, PositionBound
<1>2. cursor \in Nat /\ (page.next # NoCursor => page.next \in Nat)
  BY DEF Cursor, Page
<1>3. /\ next.page = page /\ next.forward = w.forward /\ next.items = w.items
      /\ next.inserted = w.inserted /\ next.removed = w.removed
      /\ next.repeated = (w.repeated \/ page.entries \cap w.seen # {})
      /\ next.seen = w.seen \cup page.entries
  BY DEF Walked, Walks
<1>4. page = collectionGet(w.query.asked, cursor)
  BY DEF Serve
<1>5. \/ page.code # "ok" /\ page.entries = {} /\ page.next = NoCursor
      \/ /\ page.code = "ok" /\ cursor <= Cardinality(items)
         /\ page.entries \subseteq items
         /\ \A item \in items : item \in page.entries <=>
                /\ cursor < Position(items, item)
                /\ page.next # NoCursor => Position(items, item) <= page.next
         /\ page.next # NoCursor => cursor <= page.next
  BY <1>4, CollectionPage
<1>6. next.removed = FALSE => Kept(next)
  BY <1>3, FollowKept DEF Walks
<1> HIDE DEF cursor, next
<1>7. ASSUME next.forward, next.removed = FALSE
      PROVE  Ahead(next)
  <2>1. Ahead(w) /\ w.items \subseteq items /\ page.code = "ok"
    BY <1>3, <1>6, <1>7 DEF Tracked, Kept
  <2> SUFFICES ASSUME NEW item \in w.items, item \notin w.seen, item \notin page.entries
               PROVE  page.next # NoCursor /\ page.next < Position(items, item)
    BY <1>3 DEF Ahead
  <2>2. cursor < Position(items, item) /\ item \in items
    BY <2>1 DEF Ahead, cursor
  <2> QED BY <1>1, <1>2, <1>5, <2>1, <2>2
<1>8. ASSUME next.forward, next.inserted = FALSE
      PROVE  Behind(next)
  <2>1. w.repeated = FALSE /\ \A item \in w.seen \cap items : Position(items, item) <= cursor
    BY <1>3, <1>8 DEF Tracked, Behind, Walks, cursor
  <2>2. page.entries \cap w.seen = {}
    BY <1>1, <1>2, <1>5, <2>1
  <2>3. ASSUME page.next # NoCursor, NEW item \in (w.seen \cup page.entries) \cap items
        PROVE  Position(items, item) <= page.next
    <3>1. CASE item \in page.entries
      BY <1>5, <2>3, <3>1
    <3>2. CASE item \in w.seen
      <4>0. item \in items /\ item \in w.seen \cap items
        BY <2>3, <3>2
      <4>1. Position(items, item) <= cursor /\ Position(items, item) \in Nat
        <5>1. Position(items, item) <= cursor
          BY <2>1, <4>0
        <5> QED BY <1>1, <4>0, <5>1
      <4>2. cursor <= page.next
        BY <1>5, <2>3
      <4> QED BY <1>2, <2>3, <4>1, <4>2
    <3> QED BY <2>3, <3>1, <3>2
  <2> QED BY <1>3, <2>1, <2>2, <2>3 DEF Behind
<1>9. next.removed \in BOOLEAN /\ next.inserted \in BOOLEAN
  BY <1>3 DEF Walks
<1> QED BY <1>6, <1>7, <1>8, <1>9 DEF Tracked, next

\* A reader that goes back is no longer going forward.
LEMMA PrevTracked ==
    ASSUME TypeOK, NEW w \in Walks, w.list = "items", Tracked(w), w.page.prev # NoCursor,
           w.page.prev \in Cursor,
           NEW page \in Page, page = Serve(w.list, w.query, w.page.prev)
    PROVE  Tracked(Walked(w, page, "prev"))
<1>1. Walked(w, page, "prev").forward = FALSE /\ Walked(w, page, "prev").removed = w.removed
  BY DEF Walked, Walks
<1>2. ~w.removed => Kept(Walked(w, page, "prev"))
  BY FollowKept
<1> QED BY <1>1, <1>2 DEF Tracked

\* An insertion moves items away from the front only: a cursor stays within the
\* list, and what was behind it stays behind it.
LEMMA InsertTracked ==
    ASSUME TypeOK, NEW w \in Walks, w.page.next \in Cursor, w.page.prev \in Cursor, Tracked(w),
           items \subseteq items', TypeOK'
    PROVE  Tracked([w EXCEPT !.inserted = @ \/ TRUE, !.removed = @ \/ FALSE])'
<1> DEFINE next == [w EXCEPT !.inserted = @ \/ TRUE, !.removed = @ \/ FALSE]
<1>1. /\ next.page = w.page /\ next.items = w.items /\ next.seen = w.seen
      /\ next.removed = w.removed /\ next.inserted = TRUE /\ next.forward = w.forward
  BY DEF Walks
<1>2. /\ items' \in SUBSET Nat /\ IsFiniteSet(items') /\ Cardinality(items) \in Nat
      /\ Cardinality(items') \in Nat
  <2>1. items' \in SUBSET Item
    BY DEF TypeOK
  <2> QED BY <2>1, ItemsType, ItemAssumption, FS_Subset, FS_CardinalityType
<1>3. Cardinality(items) <= Cardinality(items')
  BY <1>2, FS_Subset
<1>4. \A item \in items : Position(items, item) <= Position(items', item)
  BY <1>2, PositionGrows
<1>5. \A item \in items : Position(items, item) \in Nat /\ Position(items', item) \in Nat
  BY <1>2, ItemsType, PositionBound
<1> HIDE DEF next
<1>6. ASSUME ~w.removed
      PROVE  Kept(next)'
  <2>1. /\ w.page.code = "ok" /\ w.items \subseteq items
        /\ w.page.next # NoCursor => w.page.next <= Cardinality(items)
        /\ w.page.prev # NoCursor => w.page.prev <= Cardinality(items)
    BY <1>6 DEF Tracked, Kept
  <2>2. w.page.next # NoCursor => w.page.next \in Nat /\ w.page.next <= Cardinality(items')
    BY <1>2, <1>3, <2>1 DEF Cursor
  <2>3. w.page.prev # NoCursor => w.page.prev \in Nat /\ w.page.prev <= Cardinality(items')
    BY <1>2, <1>3, <2>1 DEF Cursor
  <2> QED BY <1>1, <2>1, <2>2, <2>3 DEF Kept
<1>7. w.forward /\ ~w.removed => Ahead(next)'
  <2> SUFFICES ASSUME w.forward, ~w.removed, NEW item \in w.items, item \notin w.seen
               PROVE  w.page.next # NoCursor /\ w.page.next < Position(items', item)
    BY <1>1 DEF Ahead
  <2>1. item \in items /\ w.page.next # NoCursor /\ w.page.next < Position(items, item)
    BY DEF Tracked, Kept, Ahead
  <2> QED BY <1>4, <1>5, <2>1 DEF Cursor
<1> QED BY <1>1, <1>6, <1>7 DEF Tracked, next

\* A removal moves items towards the front only: what was before a cursor stays
\* before it.
LEMMA RemoveTracked ==
    ASSUME TypeOK, NEW w \in Walks, w.page.next \in Cursor, Tracked(w),
           items' \subseteq items
    PROVE  Tracked([w EXCEPT !.inserted = @ \/ FALSE, !.removed = @ \/ TRUE])'
<1> DEFINE next == [w EXCEPT !.inserted = @ \/ FALSE, !.removed = @ \/ TRUE]
<1>1. /\ next.page = w.page /\ next.seen = w.seen /\ next.repeated = w.repeated
      /\ next.removed = TRUE /\ next.inserted = w.inserted /\ next.forward = w.forward
  BY DEF Walks
<1>2. items \in SUBSET Nat /\ IsFiniteSet(items) /\ IsFiniteSet(items')
  BY ItemsType, FS_Subset
<1>3. \A item \in items' : Position(items', item) <= Position(items, item)
  BY <1>2, PositionGrows
<1>4. \A item \in items' : Position(items, item) \in Nat /\ Position(items', item) \in Nat
  BY <1>2, PositionBound, FS_CardinalityType
<1> HIDE DEF next
<1>5. w.forward /\ ~w.inserted => Behind(next)'
  <2> SUFFICES ASSUME w.forward, ~w.inserted
               PROVE  /\ ~w.repeated
                      /\ w.page.next # NoCursor => \A item \in w.seen \cap items' :
                             Position(items', item) <= w.page.next
    BY <1>1 DEF Behind
  <2> QED BY <1>3, <1>4 DEF Tracked, Behind, Cursor
<1> QED BY <1>1, <1>5 DEF Tracked, next

\* A step that leaves the collection and a reader alone leaves it tracked.
LEMMA IdleTracked ==
    ASSUME TypeOK, AllTracked, NEW r \in Reader, items' = items, reader'[r] = reader[r],
           (Reading(r) /\ reader[r].list = "items")'
    PROVE  Tracked(reader[r])'
<1>1. Reading(r) /\ reader[r].list = "items"
  BY DEF Reading
<1>2. Tracked(reader[r])
  BY <1>1 DEF AllTracked
<1> QED BY <1>2 DEF Tracked, Kept, Ahead, Behind, Position

\* Every step keeps every reader of the collection tracked (all handlers).
LEMMA TrackedStep ==
    ASSUME TypeOK, TypeOK', AllTracked, [Next]_vars
    PROVE  AllTracked'
<1> SUFFICES ASSUME NEW r \in Reader, (Reading(r) /\ reader[r].list = "items")'
             PROVE  Tracked(reader[r])'
  BY DEF AllTracked
<1>1. CASE Append
  BY <1>1, IdleTracked DEF Append
<1>2. CASE OtherCommand
  BY <1>2, IdleTracked DEF OtherCommand
<1>3. ASSUME NEW inserted \in BOOLEAN, NEW removed \in BOOLEAN, Noted(inserted, removed)
      PROVE  /\ Reading(r) /\ reader[r] \in Walks /\ reader[r].list = "items"
             /\ reader[r].page.next \in Cursor /\ reader[r].page.prev \in Cursor
             /\ Tracked(reader[r])
             /\ reader'[r] = [reader[r] EXCEPT !.inserted = @ \/ inserted,
                                               !.removed = @ \/ removed]
  <2>1. reader'[r] = IF Reading(r) /\ reader[r].list = "items"
                     THEN [reader[r] EXCEPT !.inserted = @ \/ inserted,
                                            !.removed = @ \/ removed]
                     ELSE reader[r]
    BY <1>3 DEF Noted
  <2>2. Reading(r) /\ reader[r].list = "items"
    BY <2>1 DEF Reading
  <2> QED BY <2>1, <2>2, ReadingType DEF AllTracked
<1>4. CASE Insert
  <2>1. Noted(TRUE, FALSE) /\ items \subseteq items'
    BY <1>4 DEF Insert
  <2>2. PICK w \in Walks : w = reader[r]
    BY <1>3, <2>1
  <2>3. /\ w.page.next \in Cursor /\ w.page.prev \in Cursor /\ Tracked(w)
        /\ reader'[r] = [w EXCEPT !.inserted = @ \/ TRUE, !.removed = @ \/ FALSE]
    BY <1>3, <2>1, <2>2
  <2>4. Tracked([w EXCEPT !.inserted = @ \/ TRUE, !.removed = @ \/ FALSE])'
    BY <2>1, <2>3, InsertTracked
  <2> QED BY <2>3, <2>4 DEF Tracked, Kept, Ahead, Behind, Position
<1>5. CASE Remove
  <2>1. Noted(FALSE, TRUE) /\ items' \subseteq items
    BY <1>5 DEF Remove
  <2>2. PICK w \in Walks : w = reader[r]
    BY <1>3, <2>1
  <2>3. /\ w.page.next \in Cursor /\ Tracked(w)
        /\ reader'[r] = [w EXCEPT !.inserted = @ \/ FALSE, !.removed = @ \/ TRUE]
    BY <1>3, <2>1, <2>2
  <2>4. Tracked([w EXCEPT !.inserted = @ \/ FALSE, !.removed = @ \/ TRUE])'
    BY <2>1, <2>3, RemoveTracked
  <2> QED BY <2>3, <2>4 DEF Tracked, Kept, Ahead, Behind, Position
<1>6. ASSUME NEW w, Read(r, w), Tracked(w)
      PROVE  Tracked(reader[r])'
  <2>1. reader'[r] = w /\ items' = items
    BY <1>6 DEF Read, TypeOK
  <2> QED BY <1>6, <2>1 DEF Tracked, Kept, Ahead, Behind, Position
<1>7. ASSUME NEW s \in Reader, s # r,
             FirstAudits(s) \/ FirstItems(s) \/ FollowNext(s) \/ FollowPrev(s)
      PROVE  Tracked(reader[r])'
  <2>1. PICK w \in Walks : Read(s, w)
    BY <1>7, ReadStep
  <2>2. reader'[r] = reader[r] /\ items' = items
    BY <1>7, <2>1 DEF Read, TypeOK
  <2> QED BY <2>2, IdleTracked
<1>8. CASE FirstAudits(r)
  <2>1. PICK filter \in Filter, asked \in AskedLimit :
          Read(r, Walk("audits", [filter |-> filter, asked |-> asked],
                       Serve("audits", [filter |-> filter, asked |-> asked], NoCursor)))
    BY <1>8 DEF FirstAudits
  <2>2. reader'[r].list = "audits"
    BY <2>1 DEF Read, Walk, TypeOK
  <2> QED BY <2>2
<1>9. CASE FirstItems(r)
  <2>1. PICK asked \in AskedLimit :
          Read(r, Walk("items", [asked |-> asked], Serve("items", [asked |-> asked], NoCursor)))
    BY <1>9 DEF FirstItems
  <2> QED BY <1>6, <2>1, FirstTracked
<1>10. ASSUME NEW came \in {"next", "prev"}, Reading(r),
              NEW cursor \in {reader[r].page.next, reader[r].page.prev},
              Read(r, Walked(reader[r], Serve(reader[r].list, reader[r].query, cursor), came))
       PROVE  /\ reader[r] \in Walks /\ reader[r].list = "items" /\ Tracked(reader[r])
              /\ cursor \in Cursor /\ Serve(reader[r].list, reader[r].query, cursor) \in Page
  <2> DEFINE w == reader[r]
             page == Serve(w.list, w.query, cursor)
  <2>1. w \in Walks /\ cursor \in Cursor /\ page \in Page
    BY <1>10, ReadingType, ServeType
  <2> HIDE DEF w, page
  <2>2. Walked(w, page, came).list = w.list
    BY <2>1, WalkedType
  <2>3. reader'[r].list = w.list
    BY <1>10, <2>2 DEF Read, TypeOK, w, page
  <2> QED BY <1>10, <2>1, <2>3 DEF AllTracked, w, page
<1>11. CASE FollowNext(r)
  <2> DEFINE page == Serve(reader[r].list, reader[r].query, reader[r].page.next)
  <2>1. /\ Reading(r) /\ reader[r].page.next # NoCursor
        /\ Read(r, Walked(reader[r], page, "next"))
    BY <1>11 DEF FollowNext
  <2>2. /\ reader[r] \in Walks /\ reader[r].list = "items" /\ Tracked(reader[r])
        /\ reader[r].page.next \in Cursor /\ page \in Page
    BY <1>10, <2>1
  <2>3. Tracked(Walked(reader[r], page, "next"))
    BY <2>1, <2>2, NextTracked
  <2> QED BY <1>6, <2>1, <2>3
<1>12. CASE FollowPrev(r)
  <2> DEFINE page == Serve(reader[r].list, reader[r].query, reader[r].page.prev)
  <2>1. /\ Reading(r) /\ reader[r].page.prev # NoCursor
        /\ Read(r, Walked(reader[r], page, "prev"))
    BY <1>12 DEF FollowPrev
  <2>2. /\ reader[r] \in Walks /\ reader[r].list = "items" /\ Tracked(reader[r])
        /\ reader[r].page.prev \in Cursor /\ page \in Page
    BY <1>10, <2>1
  <2>3. Tracked(Walked(reader[r], page, "prev"))
    BY <2>1, <2>2, PrevTracked
  <2> QED BY <1>6, <2>1, <2>3
<1>13. CASE UNCHANGED vars
  BY <1>13, IdleTracked DEF vars
<1> QED BY <1>1, <1>2, <1>4, <1>5, <1>7, <1>8, <1>9, <1>11, <1>12, <1>13 DEF Next

\* Paging a collection misses an item only after a removal, shows one twice only
\* after an insertion and has a cursor refused only after a removal, whatever
\* the collection, the limits and the readers (paginate).
THEOREM OnlyChangesDrift == Spec => []DriftOnlyAfterChange
<1>1. Init => TypeOK /\ AllTracked
  BY DEF Init, TypeOK, AllTracked, Reading, Nowhere
<1>2. TypeOK /\ AllTracked /\ [Next]_vars => (TypeOK /\ AllTracked)'
  BY TypeStep, TrackedStep
<1>3. TypeOK /\ AllTracked => DriftOnlyAfterChange
  <2> SUFFICES ASSUME TypeOK, AllTracked, NEW r \in Reader,
                      Reading(r), reader[r].list = "items"
               PROVE  /\ MissedOnlyAfterRemoval(r) /\ RepeatedOnlyAfterInsertion(r)
                      /\ RefusedOnlyAfterRemoval(r)
    BY DEF DriftOnlyAfterChange, MissedOnlyAfterRemoval, RepeatedOnlyAfterInsertion,
           RefusedOnlyAfterRemoval, Forward
  <2>1. Tracked(reader[r])
    BY DEF AllTracked
  <2>2. MissedOnlyAfterRemoval(r)
    BY <2>1 DEF Tracked, Ahead, MissedOnlyAfterRemoval, Forward
  <2>3. RepeatedOnlyAfterInsertion(r)
    BY <2>1 DEF Tracked, Behind, RepeatedOnlyAfterInsertion, Forward
  <2>4. RefusedOnlyAfterRemoval(r)
    BY <2>1 DEF Tracked, Kept, RefusedOnlyAfterRemoval
  <2> QED BY <2>2, <2>3, <2>4
<1> QED BY <1>1, <1>2, <1>3, PTL DEF Spec

----------------------------------------------------------------------------
(* What a reader of the trail that goes back is served *)

\* A range the handler refuses (auditsGetHandler: from after to).
Inverted(filter) == filter.from # 0 /\ filter.to # 0 /\ filter.from > filter.to

\* The strengthening: a page with a previous cursor is the window below some ID,
\* the cursor it was asked with, and between that ID and the previous cursor,
\* which is one more than an entry's ID, there are no more than a page of entries.
Between(all, from, to) == {id \in all : from <= id /\ id < to}
Joins(w, all, from) ==
    /\ w.page.prev - 1 \in all /\ from < w.page.prev
    /\ w.page.entries =
           {id \in all : id < from /\ (w.page.next # NoCursor => id >= w.page.next)}
    /\ Cardinality(Between(all, from, w.page.prev)) <= parseLimit(w.query.asked)
BackServed(w) ==
    w.page.prev # NoCursor =>
        /\ ~Inverted(w.query.filter)
        /\ \E from \in 1..(index + 1) : Joins(w, listAuditEntries(w.query.filter), from)
AllBackServed ==
    \A r \in Reader : Reading(r) /\ reader[r].list = "audits" => BackServed(reader[r])

\* As many entries are newer than one as its rank says, less itself.
LEMMA RankSplits ==
    ASSUME NEW all \in SUBSET Nat, IsFiniteSet(all), NEW top \in all, NEW from \in Nat,
           from <= top
    PROVE  StartIdx(all, from) = Rank(all, top) - 1 + Cardinality(Between(all, from, top + 1))
<1> DEFINE newer == {id \in all : id > top}
           reached == {id \in all : id >= from}
           between == Between(all, from, top + 1)
<1>0. top \in Nat /\ \A id \in all : id \in Nat
  OBVIOUS
<1>1. newer \in SUBSET all /\ between \in SUBSET all
  BY DEF Between
<1>2. IsFiniteSet(newer) /\ IsFiniteSet(between)
  BY <1>1, FS_Subset
<1>3. Cardinality(newer) \in Nat /\ Cardinality(between) \in Nat
  BY <1>2, FS_CardinalityType
<1>4. reached = newer \cup between /\ newer \cap between = {}
  <2>1. \A id \in all : id >= from <=> id > top \/ (from <= id /\ id < top + 1)
    BY <1>0
  <2>2. \A id \in all : ~(id > top /\ id < top + 1)
    BY <1>0
  <2> QED BY <2>1, <2>2 DEF Between
<1>5. {id \in all : id >= top} = newer \cup {top} /\ top \notin newer
  <2>1. \A id \in all : id >= top <=> id > top \/ id = top
    BY <1>0
  <2>2. ~(top > top)
    BY <1>0
  <2> QED BY <2>1, <2>2
<1> HIDE DEF newer, between
<1>6. Cardinality(newer \cup between) = Cardinality(newer) + Cardinality(between)
  <2>1. Cardinality(newer \cap between) = 0
    BY <1>4, FS_EmptySet
  <2>2. Cardinality(newer \cup between) =
          Cardinality(newer) + Cardinality(between) - Cardinality(newer \cap between)
    BY <1>2, FS_Union
  <2> QED BY <1>3, <2>1, <2>2
<1>7. Cardinality(newer \cup {top}) = Cardinality(newer) + 1
  BY <1>2, <1>5, FS_AddElement
<1>8. StartIdx(all, from) = Cardinality(newer) + Cardinality(between)
  BY <1>4, <1>6 DEF StartIdx
<1>9. Rank(all, top) = Cardinality(newer) + 1
  BY <1>5, <1>7 DEF Rank
<1> QED BY <1>3, <1>8, <1>9 DEF between

\* The previous cursor of a page asked with a cursor: one more than the ID of an
\* entry at most a page away.
LEMMA PageJoins ==
    ASSUME NEW all \in SUBSET (Nat \ {0}), IsFiniteSet(all),
           NEW cursor \in Cursor, NEW limit \in Nat \ {0},
           NEW page, page = auditsPage(all, cursor, limit), page.prev # NoCursor
    PROVE  /\ cursor \in Nat \ {0} /\ cursor < page.prev
           /\ page.prev - 1 \in all
           /\ Cardinality(Between(all, cursor, page.prev)) <= limit
<1> DEFINE start == IF cursor \in {NoCursor, 0} THEN 0 ELSE StartIdx(all, cursor)
           skipped == Greater(0, start - limit)
           top == At(all, skipped + 1)
           reached == {id \in all : id >= cursor}
<1>1. start > 0 /\ page.prev = top + 1
  BY DEF auditsPage, PrevCursor
<1>2. cursor \in Nat \ {0} /\ start = StartIdx(all, cursor)
  BY <1>1 DEF Cursor
<1>3. start \in Nat /\ start <= Cardinality(all) /\ Cardinality(all) \in Nat
  <2>1. reached \in SUBSET all
    OBVIOUS
  <2>2. IsFiniteSet(reached) /\ Cardinality(reached) <= Cardinality(all)
    BY <2>1, FS_Subset
  <2> QED BY <1>2, <2>2, FS_CardinalityType DEF StartIdx
<1> HIDE DEF start, top
<1>4. /\ skipped \in Nat /\ skipped + 1 \in 1..Cardinality(all)
      /\ skipped + 1 <= start /\ start - skipped <= limit
  BY <1>1, <1>3 DEF Greater
<1> HIDE DEF skipped
<1>5. top \in all /\ Rank(all, top) = skipped + 1
  BY <1>4, RankTaken DEF top
<1>6. cursor <= top
  <2>1. ~(start < Rank(all, top))
    BY <1>3, <1>4, <1>5
  <2>2. ~(top < cursor)
    BY <1>2, <1>5, <2>1, BelowCursor
  <2> QED BY <1>2, <1>5, <2>2
<1>7. start = skipped + Cardinality(Between(all, cursor, top + 1))
  <2>1. StartIdx(all, cursor) =
          Rank(all, top) - 1 + Cardinality(Between(all, cursor, top + 1))
    BY <1>2, <1>5, <1>6, RankSplits
  <2> QED BY <1>2, <1>4, <1>5, <2>1
<1>8. Cardinality(Between(all, cursor, top + 1)) \in Nat
  <2>1. Between(all, cursor, top + 1) \in SUBSET all
    BY DEF Between
  <2> QED BY <2>1, FS_Subset, FS_CardinalityType
<1>9. Cardinality(Between(all, cursor, top + 1)) <= limit
  BY <1>3, <1>4, <1>7, <1>8
<1> QED BY <1>1, <1>2, <1>5, <1>6, <1>9

\* A page holds every entry below the cursor it was asked with that has no more
\* than a page of entries from itself up to the cursor.
LEMMA PageHolds ==
    ASSUME NEW all \in SUBSET (Nat \ {0}), IsFiniteSet(all),
           NEW cursor \in Nat \ {0}, NEW limit \in Nat \ {0}, NEW from \in Nat,
           Cardinality(Between(all, from, cursor)) <= limit,
           NEW id \in all, from <= id, id < cursor
    PROVE  id \in auditsPage(all, cursor, limit).entries
<1> DEFINE start == StartIdx(all, cursor)
           below == {other \in all : other >= cursor}
           between == Between(all, from, cursor)
           above == {other \in all : other >= id}
<1>0. id \in Nat /\ \A other \in all : other \in Nat
  OBVIOUS
<1>1. below \in SUBSET all /\ between \in SUBSET all /\ above \in SUBSET (below \cup between)
  <2>1. ASSUME NEW other \in above
        PROVE  other >= cursor \/ (from <= other /\ other < cursor)
    <3>1. other \in Nat /\ other >= id
      OBVIOUS
    <3> QED BY <1>0, <3>1
  <2> QED BY <2>1 DEF Between
<1>2. IsFiniteSet(below) /\ IsFiniteSet(between) /\ IsFiniteSet(below \cup between)
  BY <1>1, FS_Subset, FS_Union
<1> HIDE DEF below, between, above
<1>3. /\ Cardinality(below) \in Nat /\ Cardinality(between) \in Nat
      /\ Cardinality(below \cap between) \in Nat
  BY <1>2, FS_CardinalityType, FS_Subset
<1>4. Cardinality(below \cup between) <= Cardinality(below) + Cardinality(between)
  <2>1. Cardinality(below \cup between) =
          Cardinality(below) + Cardinality(between) - Cardinality(below \cap between)
    BY <1>2, FS_Union
  <2> QED BY <1>3, <2>1
<1>5. IsFiniteSet(above) /\ Cardinality(above) <= Cardinality(below \cup between)
  BY <1>1, <1>2, FS_Subset
<1>6. Cardinality(above) \in Nat /\ Cardinality(below \cup between) \in Nat
  BY <1>2, <1>5, FS_CardinalityType
<1>7. Rank(all, id) = Cardinality(above) /\ start = Cardinality(below)
  BY DEF Rank, StartIdx, above, below
<1>8. Rank(all, id) <= start + limit
  BY <1>3, <1>4, <1>5, <1>6, <1>7 DEF between
<1>9. start < Rank(all, id)
  BY BelowCursor
<1>10. Rank(all, id) \in 1..Cardinality(all)
  BY RankBound
<1> DEFINE end == Smaller(start + limit, Cardinality(all))
<1>11. Rank(all, id) <= end
  <2> HIDE DEF start
  <2> QED BY <1>8, <1>10 DEF Smaller
<1>12. auditsPage(all, cursor, limit).entries =
          {other \in all : start < Rank(all, other) /\ Rank(all, other) <= end}
  BY DEF auditsPage, NoCursor
<1> QED BY <1>9, <1>11, <1>12

\* Where a page of the trail with a previous cursor stands.
LEMMA ServedBack ==
    ASSUME TypeOK, NEW query, NEW cursor \in Cursor, NEW page,
           page = Serve("audits", query, cursor), page.prev # NoCursor
    PROVE  /\ ~Inverted(query.filter) /\ cursor \in Nat \ {0}
           /\ page = auditsPage(listAuditEntries(query.filter), cursor, parseLimit(query.asked))
           /\ page.prev - 1 \in listAuditEntries(query.filter)
           /\ cursor < page.prev /\ page.prev \in 1..(index + 1)
           /\ page.entries = {id \in listAuditEntries(query.filter) :
                                 id < cursor /\ (page.next # NoCursor => id >= page.next)}
           /\ Cardinality(Between(listAuditEntries(query.filter), cursor, page.prev))
                  <= parseLimit(query.asked)
<1> DEFINE all == listAuditEntries(query.filter)
           limit == parseLimit(query.asked)
<1>1. ~Inverted(query.filter) /\ page = auditsPage(all, cursor, limit)
  BY DEF Serve, auditsGetHandler, Refused, Inverted
<1>2. /\ all \in SUBSET (Nat \ {0}) /\ IsFiniteSet(all) /\ limit \in Nat \ {0}
      /\ \A id \in all : id \in Nat /\ id <= index
  BY MatchingType, LimitType
<1> HIDE DEF all, limit
<1>3. /\ cursor \in Nat \ {0} /\ cursor < page.prev /\ page.prev - 1 \in all
      /\ Cardinality(Between(all, cursor, page.prev)) <= limit
  BY <1>1, <1>2, PageJoins
<1>4. /\ page \in Page /\ page.entries \subseteq all
      /\ \A id \in all : id \in page.entries <=>
             /\ cursor \notin {NoCursor, 0} => id < cursor
             /\ page.next # NoCursor => id >= page.next
  BY <1>1, <1>2, PageIsWindow
<1>5. page.entries = {id \in all : id < cursor /\ (page.next # NoCursor => id >= page.next)}
  BY <1>3, <1>4 DEF NoCursor
<1>6. page.prev \in 1..(index + 1)
  <2>1. page.prev \in Cursor /\ index \in Nat
    BY <1>4 DEF Page, TypeOK
  <2>2. page.prev \in Nat
    BY <2>1 DEF Cursor
  <2>3. page.prev - 1 <= index
    BY <1>2, <1>3
  <2> QED BY <1>3, <2>1, <2>2, <2>3
<1> QED BY <1>1, <1>3, <1>5, <1>6 DEF all, limit

\* The walk of whoever was served such a page knows where it stands.
LEMMA WalkBackServed ==
    ASSUME TypeOK, NEW w, NEW cursor \in Cursor, w.page = Serve("audits", w.query, cursor)
    PROVE  BackServed(w)
<1> SUFFICES ASSUME w.page.prev # NoCursor
             PROVE  /\ ~Inverted(w.query.filter)
                    /\ \E from \in 1..(index + 1) :
                           Joins(w, listAuditEntries(w.query.filter), from)
  BY DEF BackServed
<1> DEFINE page == w.page
           all == listAuditEntries(w.query.filter)
           limit == parseLimit(w.query.asked)
<1>1. /\ ~Inverted(w.query.filter) /\ cursor \in Nat \ {0}
      /\ page.prev - 1 \in all /\ cursor < page.prev /\ page.prev \in 1..(index + 1)
      /\ page.entries = {id \in all : id < cursor /\ (page.next # NoCursor => id >= page.next)}
      /\ Cardinality(Between(all, cursor, page.prev)) <= limit
  BY ServedBack
<1> HIDE DEF all, limit
<1>2. Joins(w, all, cursor)
  BY <1>1 DEF Joins, limit
<1>3. cursor \in 1..(index + 1)
  BY <1>1 DEF TypeOK
<1> QED BY <1>1, <1>2, <1>3 DEF all

\* Appending to the trail does not disturb what is below a cursor.
LEMMA BackKept ==
    ASSUME TypeOK, NEW w, BackServed(w), w.page.prev \in Cursor,
           index' \in Nat, index <= index',
           \A id \in Nat : id <= index =>
               (id \in listAuditEntries(w.query.filter)
                    <=> id \in listAuditEntries(w.query.filter)'),
           listAuditEntries(w.query.filter)' \subseteq Nat
    PROVE  BackServed(w)'
<1> DEFINE all == listAuditEntries(w.query.filter)
<1> SUFFICES ASSUME w.page.prev # NoCursor
             PROVE  /\ ~Inverted(w.query.filter)
                    /\ \E from \in 1..(index' + 1) : Joins(w, all', from)
  BY DEF BackServed, Joins, Between
<1>1. ~Inverted(w.query.filter)
  BY DEF BackServed
<1>2. PICK from \in 1..(index + 1) : Joins(w, all, from)
  BY DEF BackServed
<1>3. /\ all \subseteq Nat /\ \A id \in all : id <= index
      /\ all' \subseteq Nat /\ index \in Nat
      /\ from \in Nat /\ from <= index + 1
  BY <1>2, MatchingType DEF TypeOK
<1>4. \A id \in Nat : id <= index => (id \in all <=> id \in all')
  OBVIOUS
<1> HIDE DEF all
<1> DEFINE prev == w.page.prev
<1>5. /\ prev - 1 \in all /\ from < prev
      /\ w.page.entries = {id \in all : id < from /\ (w.page.next # NoCursor => id >= w.page.next)}
      /\ Cardinality(Between(all, from, prev)) <= parseLimit(w.query.asked)
  BY <1>2 DEF Joins
<1>6. prev - 1 \in all' /\ prev - 1 <= index
  BY <1>3, <1>4, <1>5
<1>7. \A id \in all \cup all' : id < from \/ id < prev => id \in all /\ id \in all'
  <2> SUFFICES ASSUME NEW id \in all \cup all', id < from \/ id < prev
               PROVE  id \in all /\ id \in all'
    OBVIOUS
  <2>1. id \in Nat
    BY <1>3
  <2>2. prev \in Nat
    BY DEF Cursor
  <2> HIDE DEF prev
  <2>3. id <= index
    BY <1>3, <1>6, <2>1, <2>2
  <2> QED BY <1>4, <2>1, <2>3
<1> HIDE DEF prev
<1>8. {id \in all : id < from /\ (w.page.next # NoCursor => id >= w.page.next)} =
      {id \in all' : id < from /\ (w.page.next # NoCursor => id >= w.page.next)}
  BY <1>7
<1>9. Between(all, from, prev) = Between(all', from, prev)
  BY <1>7 DEF Between
<1>10. Joins(w, all', from)
  BY <1>5, <1>6, <1>8, <1>9 DEF Joins, prev
<1>11. from \in 1..(index' + 1)
  <2>1. from >= 1 /\ from <= index + 1 /\ from \in Nat /\ index \in Nat
    BY <1>2, <1>3
  <2>2. \A i, j \in Nat : i <= j /\ from <= i + 1 => from \in 1..(j + 1)
    BY <2>1
  <2> QED BY <2>1, <2>2
<1> QED BY <1>1, <1>10, <1>11

\* A reader that did not move stands where it stood, if the entries that were
\* there are still there as they were.
LEMMA IdleBack ==
    ASSUME TypeOK, TypeOK', AllBackServed, NEW r \in Reader, reader'[r] = reader[r],
           (Reading(r) /\ reader[r].list = "audits")', index <= index',
           \A id \in Nat : id <= index =>
               /\ id \in DOMAIN trail <=> id \in DOMAIN trail'
               /\ id \in DOMAIN trail => trail'[id] = trail[id]
    PROVE  BackServed(reader[r])'
<1>1. Reading(r) /\ reader[r].list = "audits"
  BY DEF Reading
<1>2. PICK w \in Walks : w = reader[r]
  BY <1>1, ReadingType
<1>3. BackServed(w) /\ w.page.prev \in Cursor
  BY <1>1, <1>2, ReadingType DEF AllBackServed
<1>4. \A id \in Nat : id <= index =>
          (id \in listAuditEntries(w.query.filter) <=> id \in listAuditEntries(w.query.filter)')
  BY DEF listAuditEntries, matches
<1>5. listAuditEntries(w.query.filter)' \subseteq Nat
  BY DEF TypeOK, listAuditEntries
<1>6. BackServed(w)'
  BY <1>3, <1>4, <1>5, BackKept DEF TypeOK
<1>7. reader'[r] = w
  BY <1>2
<1> QED BY <1>6, <1>7 DEF BackServed, Joins, Between

\* Every step leaves every reader of the trail where its page says (all handlers).
LEMMA BackStep ==
    ASSUME TypeOK, TypeOK', AllBackServed, [Next]_vars
    PROVE  AllBackServed'
<1> SUFFICES ASSUME NEW r \in Reader, (Reading(r) /\ reader[r].list = "audits")'
             PROVE  BackServed(reader[r])'
  BY DEF AllBackServed
<1>0. index \in Nat
  BY DEF TypeOK
<1>1. CASE Append
  <2>1. PICK entry \in Entry : trail' = applyAuditEntry(index + 1, entry)
    BY <1>1 DEF Append
  <2>2. index' = index + 1 /\ reader' = reader
    BY <1>1 DEF Append
  <2>3. /\ DOMAIN trail' = DOMAIN trail \cup {index + 1}
        /\ \A id \in DOMAIN trail : id # index + 1 => trail'[id] = trail[id]
    BY <2>1 DEF applyAuditEntry
  <2>4. \A id \in Nat : id <= index =>
          /\ id \in DOMAIN trail <=> id \in DOMAIN trail'
          /\ id \in DOMAIN trail => trail'[id] = trail[id]
    BY <1>0, <2>3
  <2> QED BY <1>0, <2>2, <2>4, IdleBack
<1>2. CASE OtherCommand
  <2>1. index' = index + 1 /\ reader' = reader /\ trail' = trail
    BY <1>2 DEF OtherCommand
  <2> QED BY <1>0, <2>1, IdleBack
<1>3. ASSUME NEW inserted \in BOOLEAN, NEW removed \in BOOLEAN,
             Noted(inserted, removed), UNCHANGED <<index, trail>>
      PROVE  BackServed(reader[r])'
  <2>1. reader[r].list # "items"
    BY <1>3, NotedType
  <2>2. reader'[r] = reader[r] /\ index' = index
    BY <1>3, <2>1, NotedType
  <2> QED BY <1>0, <1>3, <2>2, IdleBack
<1>4. CASE Insert
  BY <1>3, <1>4 DEF Insert
<1>5. CASE Remove
  BY <1>3, <1>5 DEF Remove
<1>6. ASSUME NEW w, Read(r, w), NEW cursor \in Cursor,
             w.list = "audits" => w.page = Serve("audits", w.query, cursor)
      PROVE  BackServed(reader[r])'
  <2>1. reader'[r] = w /\ index' = index /\ trail' = trail
    BY <1>6 DEF Read, TypeOK
  <2>2. \A filter : listAuditEntries(filter)' = listAuditEntries(filter)
    BY <2>1 DEF listAuditEntries, matches
  <2>3. BackServed(w)
    BY <1>6, <2>1, WalkBackServed
  <2> QED BY <2>1, <2>2, <2>3 DEF BackServed, Joins, Between
<1>7. ASSUME NEW s \in Reader, s # r,
             FirstAudits(s) \/ FirstItems(s) \/ FollowNext(s) \/ FollowPrev(s)
      PROVE  BackServed(reader[r])'
  <2>1. PICK w \in Walks : Read(s, w)
    BY <1>7, ReadStep
  <2>2. reader'[r] = reader[r] /\ index' = index /\ trail' = trail
    BY <1>7, <2>1 DEF Read, TypeOK
  <2> QED BY <1>0, <2>2, IdleBack
<1>8. CASE FirstAudits(r)
  <2>1. PICK filter \in Filter, asked \in AskedLimit :
          Read(r, Walk("audits", [filter |-> filter, asked |-> asked],
                       Serve("audits", [filter |-> filter, asked |-> asked], NoCursor)))
    BY <1>8 DEF FirstAudits
  <2> DEFINE query == [filter |-> filter, asked |-> asked]
             w == Walk("audits", query, Serve("audits", query, NoCursor))
  <2>2. w.query = query /\ w.page = Serve("audits", query, NoCursor) /\ NoCursor \in Cursor
    BY DEF Walk, Cursor
  <2>3. Read(r, w)
    BY <2>1
  <2> HIDE DEF w, query
  <2> QED BY <1>6, <2>2, <2>3
<1>9. CASE FirstItems(r)
  <2>1. PICK asked \in AskedLimit :
          Read(r, Walk("items", [asked |-> asked], Serve("items", [asked |-> asked], NoCursor)))
    BY <1>9 DEF FirstItems
  <2>2. reader'[r].list = "items"
    BY <2>1 DEF Read, Walk, TypeOK
  <2> QED BY <2>2
<1>10. ASSUME NEW came \in {"next", "prev"}, Reading(r),
              NEW cursor \in {reader[r].page.next, reader[r].page.prev},
              Read(r, Walked(reader[r], Serve(reader[r].list, reader[r].query, cursor), came))
       PROVE  BackServed(reader[r])'
  <2> DEFINE w == reader[r]
             page == Serve(w.list, w.query, cursor)
             next == Walked(w, page, came)
  <2>1. w \in Walks /\ cursor \in Cursor /\ page \in Page
    BY <1>10, ReadingType, ServeType
  <2>2. page = Serve(w.list, w.query, cursor)
    OBVIOUS
  <2>3. Read(r, next)
    BY <1>10
  <2> HIDE DEF w, page
  <2>4. next.list = w.list /\ next.query = w.query /\ next.page = page
    BY <2>1, WalkedType
  <2> HIDE DEF next
  <2> QED BY <1>6, <2>1, <2>2, <2>3, <2>4
<1>11. CASE FollowNext(r)
  BY <1>10, <1>11 DEF FollowNext
<1>12. CASE FollowPrev(r)
  BY <1>10, <1>12 DEF FollowPrev
<1>13. CASE UNCHANGED vars
  <2>1. reader' = reader /\ index' = index /\ trail' = trail
    BY <1>13 DEF vars
  <2> QED BY <1>0, <2>1, IdleBack
<1> QED BY <1>1, <1>2, <1>4, <1>5, <1>7, <1>8, <1>9, <1>11, <1>12, <1>13 DEF Next

\* The page served for a previous cursor joins the one the cursor came with.
LEMMA PagesJoin ==
    ASSUME TypeOK, NEW w \in Walks, w.list = "audits", w.page.prev # NoCursor,
           w.page.prev \in Cursor, w.page.next \in Cursor, BackServed(w), NEW page,
           page = Serve(w.list, w.query, w.page.prev)
    PROVE  LET both == w.page.entries \cup page.entries IN
           /\ \E id \in page.entries : \A old \in w.page.entries : id > old
           /\ \A id \in listAuditEntries(w.query.filter) :
                  Lowest(both) <= id /\ id <= Highest(both) => id \in both
<1> DEFINE all == listAuditEntries(w.query.filter)
           prev == w.page.prev
           limit == parseLimit(w.query.asked)
           old == w.page.entries
           new == page.entries
           both == old \cup new
<1>1. ~Inverted(w.query.filter) /\ \E from \in 1..(index + 1) : Joins(w, all, from)
  BY DEF BackServed
<1>2. PICK from \in 1..(index + 1) : Joins(w, all, from)
  BY <1>1
<1>3. /\ all \in SUBSET (Nat \ {0}) /\ IsFiniteSet(all) /\ limit \in Nat \ {0}
      /\ prev \in Nat /\ from \in Nat \ {0}
  BY MatchingType, LimitType DEF Cursor, TypeOK
<1>4. page = auditsPage(all, prev, limit)
  BY <1>1 DEF Serve, auditsGetHandler, Inverted
<1>5. /\ prev - 1 \in all /\ from < prev
      /\ old = {id \in all : id < from /\ (w.page.next # NoCursor => id >= w.page.next)}
      /\ Cardinality(Between(all, from, prev)) <= limit
  BY <1>2 DEF Joins
<1>6. prev \in Nat \ {0} /\ prev \in Cursor /\ prev \notin {NoCursor, 0}
  BY <1>3, <1>5 DEF NoCursor
<1> HIDE DEF all, prev, limit, old
<1>7. /\ page \in Page /\ new \subseteq all
      /\ \A id \in all : id \in new <=> id < prev /\ (page.next # NoCursor => id >= page.next)
  <2>1. /\ page \in Page /\ page.entries \subseteq all
        /\ \A id \in all : id \in page.entries <=>
               /\ prev \notin {NoCursor, 0} => id < prev
               /\ page.next # NoCursor => id >= page.next
    BY <1>3, <1>4, <1>6, PageIsWindow
  <2> QED BY <1>6, <2>1
<1>8. \A id \in all : from <= id /\ id < prev => id \in new
  BY <1>3, <1>4, <1>5, <1>6, PageHolds
<1> HIDE DEF new
<1>9. prev - 1 \in new /\ \A id \in old : prev - 1 > id
  BY <1>3, <1>5, <1>8
<1>10. \A id \in both : id \in Nat /\ id < prev
  BY <1>3, <1>5, <1>7
<1>11. Lowest(both) \in both /\ \A id \in both : Lowest(both) <= id
  <2>1. both \subseteq Nat /\ both # {}
    BY <1>9, <1>10
  <2> HIDE DEF both
  <2>2. \E least \in both : \A id \in both : least <= id
    BY <2>1, LeastExists
  <2> QED BY <2>2 DEF Lowest
<1>12. Highest(both) \in both
  <2>1. both \subseteq Nat /\ both # {} /\ \A id \in both : id <= prev
    BY <1>3, <1>9, <1>10
  <2> HIDE DEF both
  <2>2. \E greatest \in both : \A id \in both : id <= greatest
    BY <1>3, <2>1, GreatestExists
  <2> QED BY <2>2 DEF Highest
<1>13. ASSUME NEW id \in all, Lowest(both) <= id, id <= Highest(both)
       PROVE  id \in both
  <2>1. id \in Nat /\ Lowest(both) \in Nat /\ Highest(both) \in Nat /\ id < prev
    BY <1>3, <1>10, <1>11, <1>12, <1>13
  <2>2. CASE from <= id
    BY <1>8, <2>1, <2>2
  <2>3. CASE id < from
    <3> SUFFICES ASSUME id \notin old, id \notin new
                 PROVE  FALSE
      OBVIOUS
    <3>1. w.page.next # NoCursor /\ ~(id >= w.page.next)
      BY <1>5, <2>3
    <3>2. page.next # NoCursor /\ ~(id >= page.next)
      BY <1>7, <2>1
    <3>3. w.page.next \in Nat /\ page.next \in Nat
      BY <1>7, <3>1, <3>2 DEF Page, Cursor
    <3>4. \A other \in old : other \in Nat /\ other >= w.page.next
      BY <1>3, <1>5, <3>1
    <3>5. \A other \in new : other \in Nat /\ other >= page.next
      BY <1>3, <1>7, <3>2
    <3>6. \A other \in both : id < other
      BY <2>1, <3>1, <3>2, <3>3, <3>4, <3>5
    <3>7. id < Lowest(both)
      BY <1>11, <3>6
    <3> QED BY <1>13, <2>1, <3>7
  <2> QED BY <1>3, <2>1, <2>2, <2>3
<1> QED BY <1>9, <1>13 DEF all, old, new

\* The previous page of the trail joins the page it was asked from, whatever
\* was appended in between, whatever the limit and the filter (auditsGetHandler).
THEOREM PreviousPagesJoin == Spec => PreviousAdjoins
<1> DEFINE Body ==
             \A r \in Reader :
               LET before == reader[r]
                   after == reader'[r]
                   both == before.page.entries \cup after.page.entries
               IN  after # before /\ after.list = "audits" /\ after.came = "prev" =>
                     /\ \E id \in after.page.entries :
                            \A old \in before.page.entries : id > old
                     /\ \A id \in Matching(r)' :
                           Lowest(both) <= id /\ id <= Highest(both) => id \in both
<1>1. Init => TypeOK /\ AllBackServed
  BY DEF Init, TypeOK, AllBackServed, Reading, Nowhere
<1>2. TypeOK /\ AllBackServed /\ [Next]_vars => (TypeOK /\ AllBackServed)'
  BY TypeStep, BackStep
<1>3. ASSUME TypeOK, AllBackServed, Next
      PROVE  Body
  <2> SUFFICES ASSUME NEW r \in Reader, reader'[r] # reader[r],
                      reader'[r].list = "audits", reader'[r].came = "prev"
               PROVE  LET both == reader[r].page.entries \cup reader'[r].page.entries IN
                      /\ \E id \in reader'[r].page.entries :
                             \A old \in reader[r].page.entries : id > old
                      /\ \A id \in Matching(r)' :
                             Lowest(both) <= id /\ id <= Highest(both) => id \in both
    OBVIOUS
  <2>1. FollowPrev(r)
    <3>1. ~Append /\ ~OtherCommand
      BY DEF Append, OtherCommand
    <3>2. ~Insert /\ ~Remove
      <4>1. ASSUME NEW inserted \in BOOLEAN, NEW removed \in BOOLEAN,
                   Noted(inserted, removed)
            PROVE  FALSE
        <5>1. reader[r].list # "items" => reader'[r] = reader[r]
          BY <1>3, <4>1, NotedType
        <5>2. reader[r].list = "items" => reader'[r].list = "items"
          BY <1>3, <4>1, NotedType
        <5> QED BY <5>1, <5>2
      <4> QED BY <4>1 DEF Insert, Remove
    <3>3. ASSUME NEW s \in Reader, s # r,
                 FirstAudits(s) \/ FirstItems(s) \/ FollowNext(s) \/ FollowPrev(s)
          PROVE  FALSE
      <4>1. PICK w \in Walks : Read(s, w)
        BY <1>3, <3>3, ReadStep
      <4> QED BY <1>3, <3>3, <4>1 DEF Read, TypeOK
    <3>4. ~FirstAudits(r) /\ ~FirstItems(r)
      <4>1. \A list, query, page : Walk(list, query, page).came = "first"
        BY DEF Walk
      <4>2. \A w : Read(r, w) => reader'[r] = w
        BY <1>3 DEF Read, TypeOK
      <4> QED BY <4>1, <4>2 DEF FirstAudits, FirstItems
    <3>5. ~FollowNext(r)
      <4> SUFFICES ASSUME FollowNext(r)
                   PROVE  FALSE
        OBVIOUS
      <4> DEFINE w == reader[r]
                 page == Serve(w.list, w.query, w.page.next)
      <4>1. Reading(r) /\ Read(r, Walked(w, page, "next"))
        BY DEF FollowNext
      <4>2. w \in Walks /\ page \in Page
        BY <1>3, <4>1, ReadingType, ServeType
      <4>3. reader'[r] = Walked(w, page, "next")
        BY <1>3, <4>1 DEF Read, TypeOK
      <4> HIDE DEF w, page
      <4>4. Walked(w, page, "next").came = "next"
        BY <4>2, WalkedType
      <4> QED BY <4>3, <4>4
    <3> QED BY <1>3, <3>1, <3>2, <3>3, <3>4, <3>5 DEF Next
  <2>2. PICK w \in Walks : w = reader[r]
    BY <1>3, <2>1, ReadingType DEF FollowPrev
  <2> DEFINE page == Serve(w.list, w.query, w.page.prev)
             next == Walked(w, page, "prev")
  <2>3. /\ Reading(r) /\ w.page.prev # NoCursor /\ Read(r, next)
        /\ w.page.prev \in Cursor /\ w.page.next \in Cursor /\ page \in Page
    BY <1>3, <2>1, <2>2, ReadingType, ServeType DEF FollowPrev
  <2>4. reader'[r] = next /\ trail' = trail
    BY <1>3, <2>3 DEF Read, TypeOK
  <2>5. page = Serve(w.list, w.query, w.page.prev)
    OBVIOUS
  <2> HIDE DEF page
  <2>6. next.list = w.list /\ next.query = w.query /\ next.page = page
    BY <2>3, WalkedType
  <2> HIDE DEF next
  <2>7. w.list = "audits" /\ reader'[r].page = page /\ reader[r].page = w.page
    BY <2>2, <2>4, <2>6
  <2>8. BackServed(w)
    BY <1>3, <2>2, <2>3, <2>7 DEF AllBackServed
  <2>9. Matching(r)' = listAuditEntries(w.query.filter)
    BY <2>4, <2>6 DEF Matching, listAuditEntries, matches
  <2>10. LET both == w.page.entries \cup page.entries IN
         /\ \E id \in page.entries : \A old \in w.page.entries : id > old
         /\ \A id \in listAuditEntries(w.query.filter) :
                Lowest(both) <= id /\ id <= Highest(both) => id \in both
    BY <1>3, <2>3, <2>5, <2>7, <2>8, PagesJoin
  <2> QED BY <2>7, <2>9, <2>10
<1>4. ASSUME TypeOK, AllBackServed, [Next]_vars
      PROVE  [Body]_vars
  BY <1>3, <1>4
<1> QED BY <1>1, <1>2, <1>4, PTL DEF Spec, PreviousAdjoins
============================================================================
