------------------------- MODULE BrowseBuffer_proofs -------------------------
(* Proofs of NoGaps and NeverOlder of BrowseSession, for any lists, items,     *)
(* page size, quota and number of steps.                                      *)
EXTENDS BrowseSession_proofs

USE ListsAssumption, RankAssumption, BoundsAssumption

-----------------------------------------------------------------------------
(* Offsets and the pages at them. *)

\* Pages that follow each other do not overlap.
LEMMA PageEnds ==
  ASSUME NEW a \in Nat, NEW b \in Nat, NEW p \in Nat, a < b
  PROVE  a * p \in Nat /\ b * p \in Nat /\ a * p + p <= b * p
<1>1. PICK d \in Nat : b = a + 1 + d
  <2>1. b - (a + 1) \in Nat /\ b = a + 1 + (b - (a + 1))
    OBVIOUS
  <2> QED BY <2>1
<1>2. a * p \in Nat /\ d * p \in Nat
  OBVIOUS
<1>3. b * p = a * p + p + d * p
  BY <1>1
<1> QED BY <1>2, <1>3

\* The place of an item is a number.
LEMMA PlaceNat ==
  ASSUME NEW k \in Lists, NEW i
  PROVE  Place(k, i) \in Nat
<1> DEFINE S == {j \in DOMAIN Rank[k] : Rank[k][j] <= Rank[k][i]}
<1>1. S \subseteq Items
  OBVIOUS
<1>2. IsFiniteSet(S)
  BY <1>1, FS_Subset
<1> QED BY <1>2, FS_CardinalityType DEF Place

\* No item is on two pages of a list that does not shift.
LEMMA SlicesApart ==
  ASSUME NEW k \in Lists, NEW a \in Nat, NEW b \in Nat, a < b
  PROVE  Slice(k, a * PageSize) \cap Slice(k, b * PageSize) = {}
<1>1. a * PageSize \in Nat /\ b * PageSize \in Nat /\ a * PageSize + PageSize <= b * PageSize
  BY PageEnds
<1> DEFINE x == a * PageSize  y == b * PageSize
<1> HIDE DEF x, y
<1>2. x \in Nat /\ y \in Nat /\ x + PageSize <= y
  BY <1>1 DEF x, y
<1>3. Slice(k, x) \cap Slice(k, y) = {}
  <2> SUFFICES ASSUME NEW i, i \in Slice(k, x), i \in Slice(k, y) PROVE FALSE
    OBVIOUS
  <2>1. Place(k, i) \in Nat /\ Place(k, i) <= x + PageSize /\ y < Place(k, i)
    BY PlaceNat DEF Slice
  <2> QED BY <1>2, <2>1
<1> QED BY <1>3 DEF x, y

\* What the server shows of a list that does not shift at an offset.
LEMMA SliceShown ==
  ASSUME NEW k \in Lists \ Marks, NEW c, NEW w
  PROVE  PageIds(k, c, w) = Slice(k, c)
<1>1. Visible(k, w) = DOMAIN Rank[k]
  BY DEF Visible
<1>2. \A i : Position(k, i, w) = Place(k, i)
  BY <1>1 DEF Position, Place
<1> QED BY <1>1, <1>2 DEF PageIds, Slice

\* The end of a buffer, by its length.
LEMMA AfterLen ==
  ASSUME NEW p \in Seq(Page)
  PROVE  After(p) = Len(p) * PageSize /\ After(p) \in Nat
<1>1. Len(p) \in Nat /\ Cardinality(DOMAIN p) = Len(p)
  BY PagesCard
<1>2. Len(p) * PageSize \in Nat
  BY <1>1
<1> QED BY <1>1, <1>2 DEF After

\* The page at the end of a tiled buffer holds nothing that the buffer has.
LEMMA EndIsFresh ==
  ASSUME NEW k \in Lists, NEW p \in Seq(Page), Tiled(k, p)
  PROVE  Slice(k, After(p)) \cap Ids(p) = {}
<1>1. Len(p) \in Nat /\ DOMAIN p = 1..Len(p)
  BY PagesCard
<1>2. ASSUME NEW n \in 1..Len(p)
      PROVE  Slice(k, After(p)) \cap DOMAIN p[n].items = {}
  <2>1. n - 1 \in Nat /\ n - 1 < Len(p)
    BY <1>1
  <2>2. Slice(k, (n - 1) * PageSize) \cap Slice(k, Len(p) * PageSize) = {}
    BY <1>1, <2>1, SlicesApart
  <2>3. DOMAIN p[n].items = Slice(k, (n - 1) * PageSize)
    BY <1>1 DEF Tiled
  <2> QED BY <2>2, <2>3, AfterLen
<1> QED BY <1>1, <1>2 DEF Ids

\* Keeping the first occurrences changes nothing in tiled pages.
LEMMA UniqueTiled ==
  ASSUME NEW k \in Lists, NEW p \in Seq(Page), Tiled(k, p)
  PROVE  Tiled(k, Unique(p))
<1>1. Len(p) \in Nat /\ DOMAIN p = 1..Len(p) /\ \A n \in 1..Len(p) : p[n] \in Page
  BY PagesCard
<1> DEFINE before(n) == Ids([m \in 1..(n - 1) |-> p[m]])
<1>2. Unique(p) = [n \in 1..Len(p) |-> Fresh(p[n], before(n))]
  BY <1>1 DEF Unique
<1>3. ASSUME NEW n \in 1..Len(p)
      PROVE  Slice(k, (n - 1) * PageSize) \cap before(n) = {}
  <2> DEFINE first == [j \in 1..(n - 1) |-> p[j]]
  <2>1. DOMAIN first = 1..(n - 1) /\ \A m \in 1..(n - 1) : first[m] = p[m]
    OBVIOUS
  <2>2. ASSUME NEW m \in 1..(n - 1)
        PROVE  Slice(k, (n - 1) * PageSize) \cap DOMAIN p[m].items = {}
    <3>1. m \in 1..Len(p) /\ m - 1 \in Nat /\ n - 1 \in Nat /\ m - 1 < n - 1
      BY <1>1
    <3>2. Slice(k, (m - 1) * PageSize) \cap Slice(k, (n - 1) * PageSize) = {}
      BY <3>1, SlicesApart
    <3>3. DOMAIN p[m].items = Slice(k, (m - 1) * PageSize)
      BY <1>1, <3>1 DEF Tiled
    <3> QED BY <3>2, <3>3
  <2> HIDE DEF first
  <2>3. Slice(k, (n - 1) * PageSize) \cap Ids(first) = {}
    BY <2>1, <2>2 DEF Ids
  <2> QED BY <2>3 DEF first
<1> HIDE DEF before
<1>4. ASSUME NEW n \in 1..Len(p)
      PROVE  DOMAIN Fresh(p[n], before(n)).items = Slice(k, (n - 1) * PageSize)
  <2>1. DOMAIN Fresh(p[n], before(n)).items = DOMAIN p[n].items \ before(n)
    BY <1>1, FreshPage
  <2>2. DOMAIN p[n].items = Slice(k, (n - 1) * PageSize)
    BY <1>1 DEF Tiled
  <2> QED BY <1>3, <2>1, <2>2
<1> QED BY <1>2, <1>4 DEF Tiled

\* A patch leaves tiled pages tiled.
LEMMA PatchTiled ==
  ASSUME NEW k, NEW p \in Seq(Page), NEW w \in [Items -> Versions], Tiled(k, p)
  PROVE  Tiled(k, PatchPages(p, w)) /\ DOMAIN PatchPages(p, w) = DOMAIN p
<1>1. DOMAIN p = 1..Len(p)
  BY PagesCard
<1>2. DOMAIN PatchPages(p, w) = DOMAIN p
  BY DEF PatchPages
<1>3. \A n \in DOMAIN p : DOMAIN PatchPages(p, w)[n].items = DOMAIN p[n].items
  BY <1>1, PatchedPages
<1> QED BY <1>2, <1>3 DEF Tiled

-----------------------------------------------------------------------------
(* What the reducer keeps. *)

\* A buffer without holes, in which only a failed request is remembered.
Whole(s) ==
  /\ s.list \notin Marks => TiledBuffer(s)
  /\ s.failed # NoPlan => s.status = "error"

\* A settled state keeps its buffer.
LEMMA SettledFields ==
  ASSUME NEW s \in StateSet
  PROVE  /\ Settled(s).list = s.list /\ Settled(s).pages = s.pages
         /\ Settled(s).cursor = s.cursor /\ Settled(s).more = s.more
         /\ Settled(s).failed = NoPlan
BY DEF Settled, StateSet

\* A buffer without pages has no hole.
LEMMA BareTiled ==
  ASSUME NEW k, NEW p, p = <<>>
  PROVE  Tiled(k, p) /\ DOMAIN p = {} /\ After(p) = 0
<1>1. DOMAIN p = {}
  OBVIOUS
<1>2. Cardinality({}) = 0
  BY FS_EmptySet
<1> QED BY <1>1, <1>2 DEF Tiled, After

\* A buffer is empty when it has no page.
LEMMA NoPages ==
  ASSUME NEW p \in Seq(Page)
  PROVE  p = <<>> <=> DOMAIN p = {}
<1>1. Len(p) \in Nat /\ DOMAIN p = 1..Len(p)
  BY PagesCard
<1>2. DOMAIN p = {} => Len(p) = 0
  BY <1>1
<1>3. Len(p) = 0 => p = <<>>
  OBVIOUS
<1> QED BY <1>2, <1>3, BareTiled

\* A list that was just entered.
LEMMA EmptyWhole ==
  ASSUME NEW k \in Names, NEW g \in Nat
  PROVE  Whole(Empty(k, g)) /\ Empty(k, g).failed = NoPlan
<1> DEFINE e == Empty(k, g)
<1>1. e.list = k /\ e.pages = <<>> /\ e.cursor = 0 /\ e.failed = NoPlan
  BY DEF Empty
<1>2. NoPlan.cursor = 0 /\ NoPlan.kind = "none"
  BY DEF NoPlan
<1> HIDE DEF e
<1>3. Tiled(k, e.pages)
  BY <1>1, BareTiled
<1>4. Whole(e)
  BY <1>1, <1>2, <1>3 DEF Whole, TiledBuffer, Continues
<1> QED BY <1>1, <1>4 DEF e

\* A request that starts keeps the buffer and forgets what failed.
LEMMA StartedWhole ==
  ASSUME NEW s, Good(s), Whole(s), NEW g \in Nat
  PROVE  Whole(Started(s, g)) /\ Started(s, g).pages = s.pages
<1> DEFINE t == Started(s, g)
<1>1. /\ t.list = s.list /\ t.pages = s.pages /\ t.cursor = s.cursor /\ t.more = s.more
      /\ t.failed = NoPlan
  BY DEF Started, StateSet, Good
<1>2. NoPlan.cursor = 0 /\ NoPlan.kind = "none"
  BY DEF NoPlan
<1> HIDE DEF t
<1>3. Whole(t)
  BY <1>1, <1>2 DEF Whole, TiledBuffer, Continues
<1> QED BY <1>1, <1>3 DEF t

\* A request that failed keeps the buffer and is remembered.
LEMMA FailedWhole ==
  ASSUME NEW s, Good(s), Whole(s), NEW plan \in PlanSet,
         s.list \notin Marks => plan.cursor = IF plan.kind = "append" THEN After(s.pages) ELSE 0
  PROVE  Whole(Failed(s, plan)) /\ Failed(s, plan).pages = s.pages
<1> DEFINE t == Failed(s, plan)
<1>1. /\ t.list = s.list /\ t.pages = s.pages /\ t.cursor = s.cursor /\ t.more = s.more
      /\ t.failed = plan /\ t.status = "error"
  BY DEF Failed, StateSet, Good
<1> HIDE DEF t
<1>2. Whole(t)
  BY <1>1 DEF Whole, TiledBuffer, Continues
<1> QED BY <1>1, <1>2 DEF t

\* A patch keeps the shape of the buffer.
LEMMA PatchedFields ==
  ASSUME NEW s, Good(s), NEW k, NEW w \in [Items -> Versions]
  PROVE  LET t == Patched(s, k, w)
         IN  /\ t.list = s.list /\ t.cursor = s.cursor /\ t.more = s.more
             /\ t.failed = s.failed /\ t.status = s.status /\ t.gen = s.gen
             /\ t.pages = IF s.list = k THEN PatchPages(s.pages, w) ELSE s.pages
BY DEF Patched, StateSet, Good

\* Hence a patched buffer has no hole if the buffer had none.
LEMMA PatchedWhole ==
  ASSUME NEW s, Good(s), Whole(s), NEW k, NEW w \in [Items -> Versions]
  PROVE  Whole(Patched(s, k, w)) /\ DOMAIN Patched(s, k, w).pages = DOMAIN s.pages
<1> DEFINE t == Patched(s, k, w)
<1>1. /\ t.list = s.list /\ t.cursor = s.cursor /\ t.more = s.more
      /\ t.failed = s.failed /\ t.status = s.status
      /\ t.pages = IF s.list = k THEN PatchPages(s.pages, w) ELSE s.pages
  BY PatchedFields
<1>2. s.pages \in Seq(Page) /\ Len(s.pages) \in Nat
  BY DEF Good, StateSet
<1> HIDE DEF t
<1>3. DOMAIN t.pages = DOMAIN s.pages /\ (Tiled(s.list, s.pages) => Tiled(s.list, t.pages))
  <2>1. DOMAIN PatchPages(s.pages, w) = DOMAIN s.pages
    BY DEF PatchPages
  <2>2. Tiled(s.list, s.pages) => Tiled(s.list, PatchPages(s.pages, w))
    BY <1>2, PatchTiled
  <2> QED BY <1>1, <2>1, <2>2
<1>4. After(t.pages) = After(s.pages)
  BY <1>3 DEF After
<1>5. t.pages = <<>> => s.pages = <<>>
  BY <1>2, <1>3, NoPages, BareTiled
<1>6. Whole(t)
  BY <1>1, <1>3, <1>4, <1>5 DEF Whole, TiledBuffer, Continues
<1> QED BY <1>3, <1>6 DEF t

\* A buffer that was settled with other pages.
LEMMA SettledWhole ==
  ASSUME NEW x \in StateSet,
         x.list \notin Marks => Tiled(x.list, x.pages) /\ Continues(x)
  PROVE  Whole(Settled(x)) /\ Settled(x).pages = x.pages
<1> DEFINE t == Settled(x)
<1>1. /\ t.list = x.list /\ t.pages = x.pages /\ t.cursor = x.cursor /\ t.more = x.more
      /\ t.failed = NoPlan
  BY SettledFields
<1>2. NoPlan.cursor = 0 /\ NoPlan.kind = "none"
  BY DEF NoPlan
<1> HIDE DEF t
<1>3. Whole(t)
  BY <1>1, <1>2 DEF Whole, TiledBuffer, Continues
<1> QED BY <1>1, <1>3 DEF t

\* A restored list has the pages of its snapshot, and goes on where it did.
LEMMA HydratedWhole ==
  ASSUME NEW s, Good(s), NEW x, GoodSnap(x, s.list),
         s.list \notin Marks => Tiled(s.list, x.pages) /\ Continues(x)
  PROVE  Whole(Hydrated(s, x)) /\ Hydrated(s, x).pages = x.pages
<1> DEFINE t == [s EXCEPT !.pages = x.pages, !.cursor = x.cursor, !.more = x.more]
<1>1. x.pages \in Seq(Page) /\ x.cursor \in Nat /\ x.more \in BOOLEAN /\ s \in StateSet
  BY DEF GoodSnap, SnapSet, Good
<1>2. /\ t \in StateSet /\ t.list = s.list /\ t.more = x.more /\ t.pages = x.pages
      /\ t.cursor = x.cursor
  BY <1>1 DEF StateSet
<1>3. Hydrated(s, x) = Settled(t)
  BY DEF Hydrated
<1> HIDE DEF t
<1>4. t.list \notin Marks => Tiled(t.list, t.pages) /\ Continues(t)
  BY <1>2 DEF Continues
<1> QED BY <1>2, <1>3, <1>4, SettledWhole

\* An expired list has no page.
LEMMA ExpiredWhole ==
  ASSUME NEW s, Good(s)
  PROVE  Whole(Expired(s)) /\ Expired(s).pages = <<>>
<1>1. PICK t \in StateSet : t = Settled(s) /\ t.list = s.list /\ t.failed = NoPlan
  BY GoodSettled, SettledFields DEF Good
<1> DEFINE e == [t EXCEPT !.pages = <<>>, !.cursor = 0, !.more = FALSE, !.terminal = TRUE]
<1>2. Expired(s) = e
  BY <1>1 DEF Expired
<1>3. /\ e.pages = <<>> /\ e.cursor = 0 /\ e.more = FALSE
      /\ e.list = t.list /\ e.failed = t.failed
  BY DEF StateSet
<1>4. NoPlan.cursor = 0 /\ NoPlan.kind = "none"
  BY DEF NoPlan
<1> HIDE DEF e
<1>5. Tiled(e.list, e.pages)
  BY <1>3, BareTiled
<1>6. Whole(e)
  BY <1>1, <1>3, <1>4, <1>5 DEF Whole, TiledBuffer, Continues
<1> QED BY <1>2, <1>3, <1>6

-----------------------------------------------------------------------------
(* What an answer brings. *)

\* Every item of the pages is as new as u says, or w remembers that it is.
Remembered(items, u, w) == \A i \in DOMAIN items : items[i] >= u[i] \/ w[i] >= u[i]
AllRemembered(pages, u, w) == \A n \in DOMAIN pages : Remembered(pages[n].items, u, w)

\* Dropping items that were seen changes no version.
LEMMA FreshItems ==
  ASSUME NEW q \in Page, NEW seen, NEW u, NEW w, Remembered(q.items, u, w)
  PROVE  Remembered(Fresh(q, seen).items, u, w)
<1> DEFINE left == [i \in DOMAIN q.items \ seen |-> q.items[i]]
<1>1. Fresh(q, seen).items = left
  BY DEF Fresh, Page
<1>2. DOMAIN left \subseteq DOMAIN q.items /\ \A i \in DOMAIN left : left[i] = q.items[i]
  OBVIOUS
<1> HIDE DEF left
<1> QED BY <1>1, <1>2 DEF Remembered

\* PAGE_SUCCEEDED of a first page.
LEMMA ReplacedWhole ==
  ASSUME NEW s, Good(s), NEW a \in AnswerSet, a.list = s.list,
         s.list \notin Marks => /\ DOMAIN a.items = Slice(s.list, 0)
                                /\ a.more => a.cursor = PageSize
  PROVE  /\ Whole(Replaced(s, a)) /\ Replaced(s, a).pages # <<>>
         /\ \A u, w : Remembered(a.items, u, w) => AllRemembered(Replaced(s, a).pages, u, w)
<1>1. a.cursor \in Nat /\ a.more \in BOOLEAN /\ s \in StateSet
  BY DEF AnswerSet, Good
<1>2. PICK q \in Page : q = PageOf(a) /\ q.items = a.items
  BY PageOfAnswer DEF PageOf
<1>3. PICK p \in Seq(Page) : p = <<q>> /\ Len(p) = 1 /\ p[1] = q
  <2>1. <<q>> \in Seq(Page) /\ Len(<<q>>) = 1 /\ <<q>>[1] = q
    OBVIOUS
  <2> QED BY <2>1, Zenon
<1> DEFINE t == [s EXCEPT !.pages = p, !.cursor = a.cursor, !.more = a.more]
<1>4. /\ t \in StateSet /\ t.list = s.list /\ t.pages = p /\ t.cursor = a.cursor
      /\ t.more = a.more
  BY <1>1 DEF StateSet
<1>5. Replaced(s, a) = Settled(t)
  BY <1>2, <1>3 DEF Replaced
<1> HIDE DEF t
<1>6. DOMAIN p = 1..1 /\ After(p) = PageSize /\ 0 * PageSize = 0
  <2>1. DOMAIN p = 1..1 /\ After(p) = 1 * PageSize
    BY <1>3, PagesCard, AfterLen
  <2> QED BY <2>1
<1>7. s.list \notin Marks => Tiled(s.list, p)
  <2>1. \A n \in DOMAIN p : n = 1 /\ (n - 1) * PageSize = 0
    BY <1>6
  <2> QED BY <1>2, <1>3, <2>1 DEF Tiled
<1>8. t.list \notin Marks => Tiled(t.list, t.pages) /\ Continues(t)
  BY <1>4, <1>6, <1>7 DEF Continues
<1>9. Whole(Settled(t)) /\ Settled(t).pages = p
  BY <1>4, <1>8, SettledWhole
<1>10. p # <<>>
  BY <1>6, BareTiled
<1>11. \A u, w : Remembered(a.items, u, w) => AllRemembered(p, u, w)
  BY <1>2, <1>3, <1>6 DEF AllRemembered
<1> QED BY <1>5, <1>9, <1>10, <1>11

\* PAGE_SUCCEEDED of an append: the new page tiles the buffer if it was asked for at
\* its end.
LEMMA AppendedWhole ==
  ASSUME NEW s, Good(s), Whole(s), NEW a \in AnswerSet, a.list = s.list, s.list \in Lists,
         s.list \notin Marks => /\ DOMAIN a.items = Slice(s.list, After(s.pages))
                                /\ a.more => a.cursor = After(s.pages) + PageSize
  PROVE  /\ Whole(Appended(s, a)) /\ Appended(s, a).pages # <<>>
         /\ \A u, w : AllRemembered(s.pages, u, w) /\ Remembered(a.items, u, w) =>
              AllRemembered(Appended(s, a).pages, u, w)
<1>1. a.cursor \in Nat /\ s \in StateSet /\ s.pages \in Seq(Page)
  BY DEF AnswerSet, Good, StateSet
<1>2. Len(s.pages) \in Nat /\ DOMAIN s.pages = 1..Len(s.pages)
      /\ Cardinality(DOMAIN s.pages) = Len(s.pages)
  BY <1>1, PagesCard
<1> DEFINE q == Fresh(PageOf(a), Ids(s.pages))
<1>3. /\ q \in Page /\ DOMAIN q.items = DOMAIN a.items \ Ids(s.pages)
      /\ \A u, w : Remembered(a.items, u, w) => Remembered(q.items, u, w)
  <2>1. PageOf(a) \in Page /\ PageOf(a).items = a.items
    BY PageOfAnswer DEF PageOf
  <2> QED BY <2>1, FreshPage, FreshItems
<1> HIDE DEF q
<1>4. PICK b \in BOOLEAN : b = (a.more /\ (DOMAIN q.items # {} \/ a.cursor # s.cursor))
  <2>1. (a.more /\ (DOMAIN q.items # {} \/ a.cursor # s.cursor)) \in BOOLEAN
    OBVIOUS
  <2> QED BY <2>1
<1> DEFINE p == [m \in 1..(Cardinality(DOMAIN s.pages) + 1) |->
                  IF m <= Cardinality(DOMAIN s.pages) THEN s.pages[m] ELSE q]
<1>5. /\ p \in Seq(Page) /\ Len(p) = Len(s.pages) + 1 /\ p[Len(s.pages) + 1] = q
      /\ \A m \in 1..Len(s.pages) : p[m] = s.pages[m]
  <2>1. p = [m \in 1..(Len(s.pages) + 1) |-> IF m <= Len(s.pages) THEN s.pages[m] ELSE q]
    BY <1>2
  <2>2. \A m \in 1..(Len(s.pages) + 1) : (IF m <= Len(s.pages) THEN s.pages[m] ELSE q) \in Page
    BY <1>1, <1>2, <1>3
  <2> HIDE DEF p
  <2> QED BY <1>2, <2>1, <2>2
<1> DEFINE t == [s EXCEPT !.pages = p, !.cursor = a.cursor, !.more = b]
<1>6. Appended(s, a) = Settled(t)
  BY <1>4 DEF Appended, q
<1> HIDE DEF p
<1>7. \A m \in DOMAIN p : m \in DOMAIN s.pages \/ m = Len(s.pages) + 1
  <2>1. DOMAIN p = 1..(Len(s.pages) + 1)
    BY <1>5, PagesCard
  <2> QED BY <1>2, <2>1
<1>8. t \in StateSet /\ t.list = s.list /\ t.pages = p /\ t.cursor = a.cursor /\ t.more = b
  BY <1>1, <1>5 DEF StateSet
<1> HIDE DEF t
<1>9. ASSUME s.list \notin Marks
      PROVE  Tiled(s.list, p) /\ Continues(t)
  <2>1. Tiled(s.list, s.pages)
    BY <1>9 DEF Whole, TiledBuffer
  <2>2. DOMAIN q.items = Slice(s.list, Len(s.pages) * PageSize)
    BY <1>1, <1>3, <1>9, <2>1, AfterLen, EndIsFresh
  <2>3. (Len(s.pages) + 1) - 1 = Len(s.pages)
    BY <1>2
  <2>4. Tiled(s.list, p)
    BY <1>2, <1>5, <1>7, <2>1, <2>2, <2>3 DEF Tiled
  <2>5. After(p) = After(s.pages) + PageSize
    <3>1. After(p) = (Len(s.pages) + 1) * PageSize /\ After(s.pages) = Len(s.pages) * PageSize
      BY <1>1, <1>5, AfterLen
    <3> QED BY <1>2, <3>1
  <2>6. t.more => a.more
    BY <1>4, <1>8
  <2>7. Continues(t)
    BY <1>8, <1>9, <2>5, <2>6 DEF Continues
  <2> QED BY <2>4, <2>7
<1>10. Whole(Settled(t)) /\ Settled(t).pages = p
  BY <1>8, <1>9, SettledWhole
<1>11. p # <<>>
  BY <1>2, <1>5
<1>12. \A u, w : AllRemembered(s.pages, u, w) /\ Remembered(a.items, u, w) => AllRemembered(p, u, w)
  BY <1>2, <1>3, <1>5, <1>7 DEF AllRemembered
<1> QED BY <1>6, <1>10, <1>11, <1>12

\* BUFFER_SUCCEEDED: the pages of a refresh, without repetition.
LEMMA BufferedWhole ==
  ASSUME NEW s, Good(s), s.list \in Lists, NEW p \in Seq(Page), Own(p, s.list), p # <<>>,
         NEW a \in AnswerSet,
         s.list \notin Marks => Tiled(s.list, p) /\ (a.more => a.cursor = After(p))
  PROVE  /\ Whole(Buffered(s, p, a)) /\ Buffered(s, p, a).pages # <<>>
         /\ \A u, w : AllRemembered(p, u, w) => AllRemembered(Buffered(s, p, a).pages, u, w)
<1>1. a.cursor \in Nat /\ a.more \in BOOLEAN /\ s \in StateSet
  BY DEF AnswerSet, Good
<1>2. Len(p) \in Nat /\ DOMAIN p = 1..Len(p) /\ \A n \in 1..Len(p) : p[n] \in Page
  BY PagesCard
<1> DEFINE r == Unique(p)
<1>3. r \in Seq(Page) /\ DOMAIN r = DOMAIN p
  BY UniquePages DEF Unique
<1>4. \A u, w : AllRemembered(p, u, w) => AllRemembered(r, u, w)
  <2> TAKE u, w
  <2> SUFFICES ASSUME AllRemembered(p, u, w), NEW n \in DOMAIN p
               PROVE  Remembered(r[n].items, u, w)
    BY <1>3 DEF AllRemembered
  <2>1. r[n] = Fresh(p[n], Ids([m \in 1..(n - 1) |-> p[m]]))
    BY DEF Unique
  <2>2. p[n] \in Page /\ Remembered(p[n].items, u, w)
    BY <1>2 DEF AllRemembered
  <2> HIDE DEF r
  <2> QED BY <2>1, <2>2, FreshItems
<1> DEFINE t == [s EXCEPT !.pages = r, !.cursor = a.cursor, !.more = a.more]
<1>5. Buffered(s, p, a) = Settled(t)
  BY DEF Buffered
<1>6. s.list \notin Marks => Tiled(s.list, r)
  BY UniqueTiled
<1> HIDE DEF r
<1>7. /\ t \in StateSet /\ t.list = s.list /\ t.pages = r /\ t.cursor = a.cursor
      /\ t.more = a.more
  BY <1>1, <1>3 DEF StateSet
<1> HIDE DEF t
<1>8. After(r) = After(p)
  BY <1>3 DEF After
<1>9. t.list \notin Marks => Tiled(t.list, t.pages) /\ Continues(t)
  BY <1>6, <1>7, <1>8 DEF Continues
<1>10. Whole(Settled(t)) /\ Settled(t).pages = r
  BY <1>7, <1>9, SettledWhole
<1>11. r # <<>>
  BY <1>3, NoPages
<1> QED BY <1>4, <1>5, <1>10, <1>11

\* The pages of a refresh with the page that has just come.
LEMMA GrownTiled ==
  ASSUME NEW f, GoodFlight(f), f.reply \notin {NoReply, Failure}
  PROVE  /\ Grown(f) # <<>> /\ Grown(f) \in Seq(Page) /\ After(Grown(f)) = After(f.pages) + PageSize
         /\ Tiled(f.list, f.pages) /\ DOMAIN f.reply.items = Slice(f.list, After(f.pages)) =>
              Tiled(f.list, Grown(f))
         /\ \A u, w : AllRemembered(Grown(f), u, w) => Remembered(f.reply.items, u, w)
<1>1. f.pages \in Seq(Page) /\ f.reply \in AnswerSet
  BY DEF GoodFlight, FlightSet
<1>2. Len(f.pages) \in Nat /\ DOMAIN f.pages = 1..Len(f.pages)
      /\ Cardinality(DOMAIN f.pages) = Len(f.pages)
  BY <1>1, PagesCard
<1>3. PICK q \in Page : q = PageOf(f.reply) /\ q.items = f.reply.items
  BY <1>1, PageOfAnswer DEF PageOf
<1>4. Grown(f) = [m \in 1..(Len(f.pages) + 1) |-> IF m <= Len(f.pages) THEN f.pages[m] ELSE q]
  BY <1>2, <1>3 DEF Grown
<1> DEFINE p == Grown(f)
<1>5. /\ p \in Seq(Page) /\ Len(p) = Len(f.pages) + 1 /\ p[Len(f.pages) + 1] = q
      /\ \A m \in 1..Len(f.pages) : p[m] = f.pages[m]
  <2>1. \A m \in 1..(Len(f.pages) + 1) : (IF m <= Len(f.pages) THEN f.pages[m] ELSE q) \in Page
    BY <1>1, <1>2
  <2> HIDE DEF p
  <2> QED BY <1>2, <1>4, <2>1 DEF p
<1> HIDE DEF p
<1>6. \A m \in DOMAIN p : m \in DOMAIN f.pages \/ m = Len(f.pages) + 1
  <2>1. DOMAIN p = 1..(Len(f.pages) + 1)
    BY <1>5, PagesCard
  <2> QED BY <1>2, <2>1
<1>7. After(f.pages) = Len(f.pages) * PageSize
  BY <1>1, AfterLen
<1>8. After(p) = After(f.pages) + PageSize
  <2>1. After(p) = (Len(f.pages) + 1) * PageSize
    BY <1>5, AfterLen
  <2> QED BY <1>2, <1>7, <2>1
<1>9. Tiled(f.list, f.pages) /\ DOMAIN f.reply.items = Slice(f.list, After(f.pages)) => Tiled(f.list, p)
  <2>1. (Len(f.pages) + 1) - 1 = Len(f.pages)
    BY <1>2
  <2> QED BY <1>2, <1>3, <1>5, <1>6, <1>7, <2>1 DEF Tiled
<1>10. \A u, w : AllRemembered(p, u, w) => Remembered(f.reply.items, u, w)
  <2>1. Len(f.pages) + 1 \in DOMAIN p
    BY <1>2, <1>5
  <2> QED BY <1>3, <1>5, <2>1 DEF AllRemembered
<1>11. p # <<>>
  BY <1>2, <1>5
<1> QED BY <1>5, <1>8, <1>9, <1>10, <1>11 DEF p

-----------------------------------------------------------------------------
(* Requests that start and requests that are aborted. *)

\* What the store holds has no hole, and nothing that is older than published.
StoreTiled(s) == \A k \in Lists \ Marks : s[k] # None => Tiled(k, s[k].pages) /\ Continues(s[k])
StoreFresh(s, u) == \A k \in Lists : s[k] # None => NotOlder(s[k].pages, u)

\* The requests of a generation that has just begun: none, or one that is not
\* answered yet.
Begun(fs, g, pages) ==
  \A f \in fs :
    /\ IF f.aborted THEN f.gen < g
       ELSE f.gen = g /\ f.reply = NoReply /\ f.pages = <<>> /\ \A h \in fs : h.aborted \/ h = f
    /\ ~f.aborted => f.known = published
    /\ f.list \notin Marks => TiledFlight(f, pages)

\* An aborted request keeps what it was asked for and what it got.
LEMMA AbortedFields ==
  ASSUME FlightInv, NEW h \in Aborted(flights)
  PROVE  \E f \in flights :
           /\ h.aborted /\ h.gen = f.gen /\ h.list = f.list /\ h.plan = f.plan
           /\ h.cursor = f.cursor /\ h.pages = f.pages /\ h.reply = f.reply
<1>1. PICK f \in flights : h = [f EXCEPT !.aborted = TRUE]
  BY DEF Aborted
<1>2. f \in FlightSet
  BY DEF FlightInv, FlightsOK, GoodFlight
<1> QED BY <1>1, <1>2 DEF FlightSet

\* When a generation begins, the requests of those before it are aborted.
LEMMA AbortedBegun ==
  ASSUME BrowseInv, ListInv, NEW g \in Nat, g > gen, NEW pages
  PROVE  \A h \in Aborted(flights) :
           h.aborted /\ h.gen < g /\ (h.list \notin Marks => TiledFlight(h, pages))
<1> SUFFICES ASSUME NEW h \in Aborted(flights)
             PROVE  h.aborted /\ h.gen < g /\ (h.list \notin Marks => TiledFlight(h, pages))
  OBVIOUS
<1>1. PICK f \in flights :
        /\ h.aborted /\ h.gen = f.gen /\ h.list = f.list /\ h.plan = f.plan
        /\ h.cursor = f.cursor /\ h.pages = f.pages /\ h.reply = f.reply
  BY AbortedFields DEF BrowseInv
<1>2. f.gen \in Nat /\ f.gen <= gen /\ gen \in Nat
  BY DEF BrowseInv, FlightInv, FlightsOK, GoodFlight, FlightSet, CountInv
<1>3. h.gen < g
  BY <1>1, <1>2
<1>4. f.list \notin Marks => TiledFlight(f, live.pages)
  BY DEF ListInv, TiledInv
<1>5. h.list \notin Marks => TiledFlight(h, pages)
  BY <1>1, <1>4 DEF TiledFlight, TiledAnswer
<1> QED BY <1>1, <1>3, <1>5

\* abortInflight.
LEMMA AbortBegins ==
  ASSUME BrowseInv, ListInv, AbortInflight(gen + 1), NEW pages
  PROVE  gen' = gen + 1 /\ inflight' = 0 /\ Begun(flights', gen', pages)
         /\ \A f \in flights' : f.aborted
<1>1. gen \in Nat /\ gen + 1 \in Nat /\ gen + 1 > gen
  BY DEF BrowseInv, CountInv
<1>2. gen' = gen + 1 /\ inflight' = 0 /\ flights' = Aborted(flights)
  BY DEF AbortInflight
<1>3. \A h \in Aborted(flights) :
        h.aborted /\ h.gen < gen + 1 /\ (h.list \notin Marks => TiledFlight(h, pages))
  BY <1>1, AbortedBegun
<1> QED BY <1>2, <1>3 DEF Begun

\* requestPages: the plan goes on at the end of the buffer, or begins the list.
LEMMA RequestBegins ==
  ASSUME BrowseInv, ListInv, NEW g \in Nat, g > gen, NEW k, NEW l, NEW plan \in PlanSet, NEW s,
         l \notin Marks => plan.cursor = IF plan.kind = "append" THEN After(s.pages) ELSE 0,
         Good(s), Whole(s), Request(g, k, l, plan, s)
  PROVE  /\ gen' = g /\ inflight' = g /\ Begun(flights', gen', live'.pages)
         /\ replay'.gen = g /\ \A i \in Items : replay'.updates[i] = 0
         /\ Good(live') /\ Whole(live') /\ live'.pages = s.pages /\ live'.gen = g
         /\ live'.status = "loading"
<1> DEFINE n == Flight(g, k, l, plan)
<1>1. /\ gen' = g /\ inflight' = g /\ replay' = [gen |-> g, updates |-> NoPatch]
      /\ flights' = Aborted(flights) \cup {n} /\ live' = Started(s, g)
  BY DEF Request
<1>2. /\ n.gen = g /\ n.list = l /\ n.plan = plan /\ n.cursor = plan.cursor /\ n.pages = <<>>
      /\ n.reply = NoReply /\ n.aborted = FALSE /\ n.known = published
  BY DEF Flight
<1> HIDE DEF n
<1>3. Good(live') /\ Whole(live') /\ live'.pages = s.pages /\ live'.gen = g /\ live'.status = "loading"
  BY <1>1, GoodStarted, StartedWhole
<1>4. l \notin Marks => TiledFlight(n, s.pages)
  BY <1>2, BareTiled DEF TiledFlight, TiledAnswer
<1>5. \A h \in Aborted(flights) :
        h.aborted /\ h.gen < g /\ (h.list \notin Marks => TiledFlight(h, s.pages))
  BY AbortedBegun
<1>6. Begun(flights', g, s.pages)
  BY <1>1, <1>2, <1>4, <1>5 DEF Begun
<1>7. replay'.gen = g /\ \A i \in Items : replay'.updates[i] = 0
  BY <1>1 DEF NoPatch
<1> QED BY <1>1, <1>3, <1>6, <1>7

\* A request that has just been sent knows what was published.
LEMMA BegunFresh ==
  ASSUME NEW fs, NEW g, NEW p, Begun(fs, g, p), NEW f \in fs, ~f.aborted
  PROVE  f.known = published
BY DEF Begun

\* What TiledInv and FreshInv say of the parts.
LEMMA ListParts ==
  ASSUME BrowseInv, ListInv
  PROVE  /\ Good(live) /\ Good(shown) /\ Whole(live) /\ Whole(shown)
         /\ live.list = key /\ shown.list = key /\ key \in Names
         /\ shown.status # "loading" => DOMAIN shown.pages = DOMAIN live.pages
         /\ shown.status # "loading" => After(shown.pages) = After(live.pages)
         /\ StoreTiled(store) /\ NotOlder(live.pages, published)
<1>1. Good(live) /\ Good(shown) /\ live.list = key /\ shown.list = key /\ key \in Names
  BY DEF BrowseInv, BufferInv, CountInv
<1>2. Whole(live) /\ Whole(shown) /\ (shown.status # "loading" => DOMAIN shown.pages = DOMAIN live.pages)
  BY DEF ListInv, TiledInv, Whole
<1>3. shown.status # "loading" => After(shown.pages) = After(live.pages)
  BY <1>2 DEF After
<1>4. StoreTiled(store)
  BY DEF ListInv, TiledInv, StoreTiled
<1>5. NotOlder(live.pages, published)
  BY DEF ListInv, FreshInv
<1> QED BY <1>1, <1>2, <1>3, <1>4, <1>5

-----------------------------------------------------------------------------
(* One lemma per kind of step. *)

\* loadMore, refresh and retry.
LEMMA SendList ==
  ASSUME BrowseInv, ListInv, NEW plan \in PlanSet, key \in Lists,
         key \notin Marks => plan.cursor = IF plan.kind = "append" THEN After(live.pages) ELSE 0,
         Request(gen + 1, shown.list, key, plan, live), UNCHANGED <<page, shown, saved, server>>
  PROVE  ListInv'
<1>1. gen \in Nat /\ gen + 1 \in Nat /\ gen + 1 > gen
  BY DEF BrowseInv, CountInv
<1>2. /\ Good(live) /\ Whole(live) /\ Whole(shown) /\ live.list = key /\ shown.list = key
      /\ StoreTiled(store) /\ NotOlder(live.pages, published)
      /\ shown.status # "loading" => DOMAIN shown.pages = DOMAIN live.pages
  BY ListParts
<1>3. /\ gen' = gen + 1 /\ inflight' = gen + 1 /\ Begun(flights', gen', live'.pages)
      /\ replay'.gen = gen + 1 /\ \A i \in Items : replay'.updates[i] = 0
      /\ Whole(live') /\ live'.pages = live.pages /\ live'.gen = gen + 1 /\ live'.status = "loading"
  BY <1>1, <1>2, RequestBegins
<1>4. /\ source' = source /\ key' = key /\ ready' = ready /\ shown' = shown /\ store' = store
      /\ version' = version /\ published' = published /\ toggle' = toggle
  BY DEF page, saved, server
<1>5. RequestInv'
  <2>1. shown.gen \in Nat /\ shown.gen <= gen
    BY DEF BrowseInv, BufferInv, Good, StateSet
  <2>2. shown'.gen # live'.gen
    BY <1>1, <1>3, <1>4, <2>1
  <2>3. key' # None
    BY <1>4
  <2>4. \A f \in flights' :
          IF f.aborted THEN f.gen < gen'
          ELSE f.gen = gen' /\ f.reply = NoReply /\ f.pages = <<>> /\ \A h \in flights' : h.aborted \/ h = f
    BY <1>3 DEF Begun
  <2> QED BY <1>3, <2>2, <2>3, <2>4 DEF RequestInv
<1>6. TiledInv'
  <2>1. \A f \in flights' : f.list \notin Marks => TiledFlight(f, live'.pages)
    BY <1>3 DEF Begun
  <2> QED BY <1>2, <1>3, <1>4, <2>1 DEF TiledInv, Whole, StoreTiled
<1>7. FreshInv'
  <2>1. \A f \in flights' : ~f.aborted => f.known = published
    BY <1>3, BegunFresh
  <2> QED BY <1>2, <1>3, <1>4, <2>1 DEF FreshInv, ListInv
<1> QED BY <1>5, <1>6, <1>7 DEF ListInv

\* The plan of a request goes on where the buffer ends.
LEMMA SendSteps == BrowseInv /\ ListInv /\ (LoadMore \/ Refresh \/ Retry) => ListInv'
<1> SUFFICES ASSUME BrowseInv, ListInv, LoadMore \/ Refresh \/ Retry PROVE ListInv'
  OBVIOUS
<1>1. /\ shown \in StateSet /\ shown.failed \in PlanSet /\ shown.cursor \in Nat
      /\ shown.pages \in Seq(Page) /\ Whole(shown) /\ shown.list = key /\ key \in Names
      /\ shown.status \in {"idle", "loading", "error"}
      /\ shown.status # "loading" => After(shown.pages) = After(live.pages)
  BY ListParts DEF Good, StateSet
<1>2. CASE LoadMore
  <2>1. key \in Lists
    BY <1>1, <1>2 DEF LoadMore, Open, Names
  <2> DEFINE plan == IF shown.status = "error" THEN shown.failed
                     ELSE IF Ids(shown.pages) = {} THEN Plan("initial", 0, 1)
                     ELSE Plan("append", shown.cursor, 1)
  <2>2. Request(gen + 1, shown.list, key, plan, live) /\ UNCHANGED <<page, shown, saved, server>>
    BY <1>2 DEF LoadMore
  <2>3. plan \in PlanSet
    BY <1>1 DEF Plan, PlanSet
  <2>4. key \notin Marks => plan.cursor = IF plan.kind = "append" THEN After(live.pages) ELSE 0
    <3>1. CASE shown.status = "error"
      BY <1>1, <1>2, <3>1 DEF Whole, TiledBuffer
    <3>2. CASE shown.status # "error" /\ Ids(shown.pages) = {}
      BY <3>2 DEF Plan
    <3>3. CASE shown.status # "error" /\ Ids(shown.pages) # {}
      <4>1. shown.status = "idle" /\ shown.more
        BY <1>1, <1>2, <3>3 DEF LoadMore
      <4>2. shown.pages # <<>>
        BY <3>3 DEF Ids
      <4>3. key \notin Marks => shown.cursor = After(live.pages)
        BY <1>1, <4>1, <4>2 DEF Whole, TiledBuffer, Continues
      <4> QED BY <3>3, <4>3 DEF Plan
    <3> QED BY <3>1, <3>2, <3>3
  <2> HIDE DEF plan
  <2> QED BY <2>1, <2>2, <2>3, <2>4, SendList
<1>3. CASE Refresh
  <2>1. key \in Lists
    BY <1>1, <1>3 DEF Refresh, Open, Names
  <2>2. LoadedDepth \in Nat \ {0}
    <3>1. shown.pages # <<>> => Len(shown.pages) # 0
      BY <1>1
    <3> QED BY <1>1, <3>1, PagesCard DEF LoadedDepth
  <2>3. PICK d \in Nat \ {0} : Request(gen + 1, shown.list, key, Plan("refresh", 0, d), live)
    BY <1>3, <2>2 DEF Refresh
  <2>4. /\ Plan("refresh", 0, d) \in PlanSet /\ Plan("refresh", 0, d).cursor = 0
        /\ Plan("refresh", 0, d).kind = "refresh"
    BY DEF Plan, PlanSet
  <2> QED BY <1>3, <2>1, <2>3, <2>4, SendList DEF Refresh
<1>4. CASE Retry
  <2>1. key \in Lists
    BY <1>1, <1>4 DEF Retry, Open, Names
  <2>2. shown.status = "error"
    BY <1>1, <1>4 DEF Retry, Whole
  <2>3. key \notin Marks =>
          shown.failed.cursor = IF shown.failed.kind = "append" THEN After(live.pages) ELSE 0
    BY <1>1, <2>2 DEF Whole, TiledBuffer
  <2> QED BY <1>1, <1>4, <2>1, <2>3, SendList DEF Retry
<1> QED BY <1>2, <1>3, <1>4

\* Where nothing can be published, nothing is older.
LEMMA NothingOlder ==
  ASSUME BrowseInv, FreshInv, source # "pixiv", NEW p \in Seq(Page)
  PROVE  NotOlder(p, published)
<1>1. DOMAIN p = 1..Len(p) /\ \A n \in DOMAIN p : p[n] \in Page
  BY PagesCard
<1>2. \A n \in DOMAIN p : DOMAIN p[n].items \subseteq Items
                          /\ \A i \in DOMAIN p[n].items : p[n].items[i] \in Versions
  BY <1>1, PageItems
<1>3. \A i \in Items : published[i] = 0
  BY DEF FreshInv
<1> QED BY <1>2, <1>3 DEF NotOlder, Versions

\* A save replaces the snapshot of its own list or drops it.
LEMMA SavesOwn ==
  ASSUME NEW s, NEW k \in Lists, NEW x, NEW t \in Saves(s, k, x), DOMAIN s = Lists
  PROVE  t[k] \in {None, x} /\ \A j \in Lists : j # k => t[j] \in {s[j], None}
<1>1. PICK n : t = Keep(s, Recent(s, k, n)) \/ t = [Keep(s, Recent(s, k, n)) EXCEPT ![k] = x]
  BY DEF Saves
<1>2. k \notin Recent(s, k, n)
  BY DEF Recent
<1> DEFINE m == Keep(s, Recent(s, k, n))
<1>3. m[k] = None /\ DOMAIN m = Lists /\ \A j \in Lists : m[j] \in {s[j], None}
  BY <1>2 DEF Keep
<1> HIDE DEF m
<1>4. t = m \/ t = [m EXCEPT ![k] = x]
  BY <1>1 DEF m
<1> QED BY <1>3, <1>4

\* A snapshot without holes is saved.
LEMMA SavesTiled ==
  ASSUME BrowseInv, ListInv, NEW k \in Lists, NEW x,
         k \notin Marks => Tiled(k, x.pages) /\ Continues(x),
         NEW t \in Saves(store, k, x)
  PROVE  StoreTiled(t)
<1>1. DOMAIN store = Lists
  BY DEF BrowseInv, StoreOK, GoodStore
<1>2. t[k] \in {None, x} /\ \A j \in Lists : j # k => t[j] \in {store[j], None}
  BY <1>1, SavesOwn
<1>3. StoreTiled(store)
  BY ListParts
<1> QED BY <1>2, <1>3 DEF StoreTiled

\* The committed buffer is saved.
LEMMA ShownSaved ==
  ASSUME BrowseInv, ListInv, key \in Lists, NEW t \in Saves(store, key, Snapshot(shown))
  PROVE  /\ StoreTiled(t) /\ t[key] \in {None, Snapshot(shown)}
         /\ \A k \in Lists : t[k] # None => NotOlder(t[k].pages, published) \/ k = key
<1>1. Good(shown) /\ Whole(shown) /\ shown.list = key
  BY ListParts
<1> DEFINE x == Snapshot(shown)
<1>2. x.pages = shown.pages /\ x.cursor = shown.cursor /\ x.more = shown.more
  BY DEF Snapshot
<1> HIDE DEF x
<1>3. key \notin Marks => Tiled(key, x.pages) /\ Continues(x)
  BY <1>1, <1>2 DEF Whole, TiledBuffer, Continues
<1>4. StoreTiled(t)
  BY <1>3, SavesTiled DEF x
<1>5. DOMAIN store = Lists
  BY DEF BrowseInv, StoreOK, GoodStore
<1>6. t[key] \in {None, Snapshot(shown)} /\ \A j \in Lists : j # key => t[j] \in {store[j], None}
  BY <1>5, SavesOwn
<1>7. \A k \in Lists : k # key /\ store[k] # None => NotOlder(store[k].pages, published)
  BY DEF ListInv, FreshInv
<1> QED BY <1>4, <1>6, <1>7

\* When a list is left no snapshot is older than what was published: the buffer that
\* is saved is the one the patches went to.
LEMMA LeftFresh ==
  ASSUME BrowseInv, ListInv, key \in Lists, Transition => live = shown,
         NEW t \in IF ready THEN SavesOf(shown, key) ELSE {store}
  PROVE  StoreTiled(t) /\ StoreFresh(t, published)
<1>1. StoreTiled(t)
  BY ListParts, ShownSaved DEF SavesOf
<1>2. GoodStore(t)
  <2>1. CASE ready
    BY <2>1, StoreLeft DEF Open, StoreOK
  <2>2. CASE ~ready
    BY <2>2 DEF BrowseInv, StoreOK
  <2> QED BY <2>1, <2>2 DEF BrowseInv, CountInv
<1>3. CASE source # "pixiv"
  <2>1. \A k \in Lists : t[k] # None => t[k].pages \in Seq(Page)
    BY <1>2 DEF GoodStore, GoodSnap, SnapSet
  <2> QED BY <1>1, <1>3, <2>1, NothingOlder DEF StoreFresh, ListInv
<1>4. CASE source = "pixiv"
  <2>1. live = shown /\ NotOlder(live.pages, published)
    BY <1>4, ListParts DEF Transition
  <2>2. CASE ready /\ shown.pages # <<>>
    <3>1. t \in Saves(store, key, Snapshot(shown))
      BY <2>2 DEF SavesOf
    <3>2. Snapshot(shown).pages = live.pages
      BY <2>1 DEF Snapshot
    <3> QED BY <1>1, <2>1, <3>1, <3>2, ShownSaved DEF StoreFresh
  <2>3. CASE ~(ready /\ shown.pages # <<>>)
    <3>1. t = store
      BY <2>3 DEF SavesOf
    <3> QED BY <1>1, <2>1, <2>3, <3>1 DEF StoreFresh, ListInv, FreshInv
  <2> QED BY <2>2, <2>3
<1> QED BY <1>3, <1>4

\* A list is entered: what it shows was saved without holes, or is loaded anew.
LEMMA EnterList ==
  ASSUME BrowseInv, ListInv, NEW k \in Lists, NEW s, StoreOK(s), StoreTiled(s),
         StoreFresh(s, published), NEW open \in BOOLEAN, NEW job \in BOOLEAN,
         Enter(k, s, open, job), UNCHANGED <<source, server>>
  PROVE  ListInv'
<1> DEFINE new == Empty(k, gen + 1)
           in  == IF ~open THEN new
                  ELSE IF Restorable(s, k) THEN Hydrated(new, s[k])
                  ELSE IF Dead(s, k) THEN Expired(new) ELSE new
           load == open /\ ~Restorable(s, k) /\ ~Dead(s, k) /\ AutoLoad
<1>0. gen \in Nat /\ gen + 1 \in Nat /\ gen + 2 \in Nat /\ k \in Names
  BY DEF BrowseInv, CountInv, Names
<1>1. key' = k /\ ready' = open /\ version' = version /\ published' = published /\ source' = source
      /\ toggle' = toggle
  BY DEF Enter, server
<1>2. StoreTiled(store') /\ StoreFresh(store', published)
  <2>1. store' = s \/ store' = [s EXCEPT ![k] = Tombstone]
    BY DEF Enter
  <2>2. Tombstone.pages = <<>> /\ Tombstone.more = FALSE
    BY DEF Tombstone
  <2>3. Tiled(k, Tombstone.pages) /\ Continues(Tombstone) /\ NotOlder(Tombstone.pages, published)
    BY <2>2, BareTiled DEF Continues, NotOlder
  <2>4. DOMAIN s = Lists
    BY DEF StoreOK, GoodStore
  <2>5. \A j \in Lists : store'[j] = s[j] \/ (j = k /\ store'[j] = Tombstone)
    BY <2>1, <2>4
  <2> QED BY <2>3, <2>5 DEF StoreTiled, StoreFresh
<1>3. Good(new) /\ new.list = k /\ new.pages = <<>> /\ Whole(new)
  BY <1>0, GoodEmpty, EmptyWhole
<1>4. s[k] # None => GoodSnap(s[k], k)
  BY DEF StoreOK, GoodStore
<1>5. /\ job => Request(gen + 2, shown.list, k, Plan("refresh", 0, LoadedDepth), in)
      /\ ~job /\ load => Request(gen + 2, k, k, Plan("initial", 0, 1), in)
      /\ ~job /\ ~load => live' = in /\ AbortInflight(gen + 1)
      /\ shown' = live'
  BY DEF Enter
<1>6. NotOlder(<<>>, published)
  BY DEF NotOlder
<1>7. Good(in) /\ Whole(in) /\ in.list = k /\ NotOlder(in.pages, published)
  <2> HIDE DEF new
  <2>1. CASE open /\ Restorable(s, k)
    <3>1. s[k] # None /\ (k \notin Marks => Tiled(k, s[k].pages) /\ Continues(s[k]))
          /\ NotOlder(s[k].pages, published)
      BY <2>1 DEF Restorable, StoreTiled, StoreFresh
    <3>2. Whole(Hydrated(new, s[k])) /\ Hydrated(new, s[k]).pages = s[k].pages
      BY <1>3, <1>4, <3>1, HydratedWhole
    <3>3. Good(Hydrated(new, s[k])) /\ Hydrated(new, s[k]).list = k
      BY <1>3, <1>4, <3>1, GoodHydrated
    <3> QED BY <2>1, <3>1, <3>2, <3>3
  <2>2. CASE open /\ ~Restorable(s, k) /\ Dead(s, k)
    <3>1. Whole(Expired(new)) /\ Expired(new).pages = <<>>
      BY <1>3, ExpiredWhole
    <3>2. Good(Expired(new)) /\ Expired(new).list = k
      BY <1>3, GoodExpired
    <3> QED BY <1>6, <2>2, <3>1, <3>2
  <2>3. CASE ~open \/ (~Restorable(s, k) /\ ~Dead(s, k))
    BY <1>3, <1>6, <2>3
  <2> QED BY <2>1, <2>2, <2>3
<1> HIDE DEF in, new, load
<1>8. /\ Begun(flights', gen', live'.pages) /\ Whole(live') /\ live'.pages = in.pages
      /\ \/ inflight' = 0 /\ \A f \in flights' : f.aborted
         \/ /\ inflight' = gen' /\ replay'.gen = gen' /\ \A i \in Items : replay'.updates[i] = 0
            /\ live'.gen = gen' /\ live'.status = "loading"
  <2>1. CASE job \/ load
    <3>1. PICK plan \in PlanSet :
            /\ plan.cursor = 0 /\ plan.kind # "append"
            /\ Request(gen + 2, shown.list, k, plan, in) \/ Request(gen + 2, k, k, plan, in)
      <4>1. LoadedDepth \in Nat \ {0}
        <5>1. shown.pages \in Seq(Page)
          BY DEF BrowseInv, BufferInv, Good, StateSet
        <5>2. shown.pages # <<>> => Len(shown.pages) # 0
          BY <5>1
        <5> QED BY <5>1, <5>2, PagesCard DEF LoadedDepth
      <4>2. /\ Plan("refresh", 0, LoadedDepth) \in PlanSet /\ Plan("refresh", 0, LoadedDepth).cursor = 0
            /\ Plan("refresh", 0, LoadedDepth).kind = "refresh"
        BY <4>1 DEF Plan, PlanSet
      <4>3. /\ Plan("initial", 0, 1) \in PlanSet /\ Plan("initial", 0, 1).cursor = 0
            /\ Plan("initial", 0, 1).kind = "initial"
        BY DEF Plan, PlanSet
      <4> QED BY <1>5, <2>1, <4>2, <4>3
    <3>2. gen + 2 > gen
      BY <1>0
    <3> QED BY <1>0, <1>7, <3>1, <3>2, RequestBegins
  <2>2. CASE ~job /\ ~load
    <3>1. live' = in /\ AbortInflight(gen + 1)
      BY <1>5, <2>2
    <3> QED BY <1>7, <3>1, AbortBegins
  <2> QED BY <2>1, <2>2
<1>9. shown' = live'
  BY <1>5
<1>10. RequestInv'
  <2>1. key' # None
    BY <1>1
  <2>2. \A f \in flights' :
          IF f.aborted THEN f.gen < gen'
          ELSE f.gen = gen' /\ f.reply = NoReply /\ f.pages = <<>> /\ \A h \in flights' : h.aborted \/ h = f
    BY <1>8 DEF Begun
  <2> QED BY <1>8, <1>9, <2>1, <2>2 DEF RequestInv
<1>11. TiledInv'
  <2>1. \A f \in flights' : f.list \notin Marks => TiledFlight(f, live'.pages)
    BY <1>8 DEF Begun
  <2> QED BY <1>2, <1>8, <1>9, <2>1 DEF TiledInv, Whole, StoreTiled
<1>12. FreshInv'
  <2>1. \A f \in flights' : ~f.aborted => f.known = published
    BY <1>8, BegunFresh
  <2> QED BY <1>1, <1>2, <1>7, <1>8, <1>9, <2>1 DEF FreshInv, ListInv, StoreFresh
<1> QED BY <1>10, <1>11, <1>12 DEF ListInv

\* The page unmounts or its scope is released.
LEMMA LeaveList ==
  ASSUME BrowseInv, ListInv, key \in Lists, NEW k \in Names, Leave(FALSE), key' = k,
         Transition => live = shown, AbortInflight(gen + 1),
         live' = Empty(k, gen + 1), shown' = live', UNCHANGED <<source, server>>
  PROVE  ListInv'
<1>1. gen \in Nat /\ gen + 1 \in Nat
  BY DEF BrowseInv, CountInv
<1>2. version' = version /\ published' = published /\ source' = source /\ toggle' = toggle
  BY DEF server
<1>3. StoreTiled(store') /\ StoreFresh(store', published)
  BY LeftFresh DEF Leave
<1>4. live'.pages = <<>> /\ live'.status = "idle" /\ Whole(live')
  BY <1>1, GoodEmpty, EmptyWhole
<1>5. inflight' = 0 /\ Begun(flights', gen', live'.pages) /\ \A f \in flights' : f.aborted
  BY AbortBegins
<1>6. RequestInv'
  BY <1>4, <1>5 DEF RequestInv, Begun
<1>7. TiledInv'
  <2>1. \A f \in flights' : f.list \notin Marks => TiledFlight(f, live'.pages)
    BY <1>5 DEF Begun
  <2> QED BY <1>3, <1>4, <2>1 DEF TiledInv, Whole, StoreTiled
<1>8. FreshInv'
  <2>1. NotOlder(live'.pages, published)
    BY <1>4 DEF NotOlder
  <2> QED BY <1>2, <1>3, <1>4, <1>5, <2>1 DEF FreshInv, ListInv, StoreFresh
<1> QED BY <1>6, <1>7, <1>8 DEF ListInv

\* A commit shows what was dispatched.
LEMMA CommitList == BrowseInv /\ ListInv /\ Commit => ListInv'
<1> SUFFICES ASSUME BrowseInv, ListInv, Commit PROVE ListInv'
  OBVIOUS
<1>1. /\ shown' = live /\ live' = live /\ gen' = gen /\ inflight' = inflight /\ replay' = replay
      /\ flights' = flights /\ store' = store /\ key' = key /\ ready' = ready /\ source' = source
      /\ version' = version /\ published' = published /\ toggle' = toggle
  BY DEF Commit, page, saved, server
<1>2. RequestInv'
  BY <1>1 DEF RequestInv, ListInv
<1>3. TiledInv'
  BY <1>1 DEF TiledInv, ListInv
<1>4. FreshInv'
  BY <1>1 DEF FreshInv, ListInv
<1> QED BY <1>2, <1>3, <1>4 DEF ListInv

\* React commits, the page mounts and unmounts, the scope is claimed and released.
LEMMA CommitListSteps ==
  ASSUME BrowseInv, ListInv,
         Commit \/ Mount \/ Unmount \/ ClaimScope \/ ReleaseScope
           \/ \E job \in BOOLEAN : IdentityCommit(job)
  PROVE  ListInv'
<1>1. CASE Commit
  BY <1>1, CommitList
<1>2. key = None \/ ~ready => StoreTiled(store) /\ StoreFresh(store, published) /\ StoreOK(store)
  BY ListParts DEF StoreFresh, ListInv, FreshInv, BrowseInv
<1>3. CASE Mount
  <2>1. wanted \in Lists
    BY <1>3 DEF Mount, BrowseInv, CountInv, Names
  <2> QED BY <1>2, <1>3, <2>1, EnterList DEF Mount
<1>4. CASE ClaimScope
  <2>1. key \in Lists
    BY <1>4 DEF ClaimScope, BrowseInv, CountInv, Names
  <2> QED BY <1>2, <1>4, <2>1, EnterList DEF ClaimScope
<1>5. ASSUME NEW job \in BOOLEAN, IdentityCommit(job) PROVE ListInv'
  <2>1. wanted \in Lists /\ key \in Lists /\ key # None /\ ready \in BOOLEAN
    BY <1>5 DEF IdentityCommit, BrowseInv, CountInv, Names
  <2>2. PICK s \in IF ready THEN SavesOf(shown, key) ELSE {store} : Enter(wanted, s, ready, job)
    BY <1>5 DEF IdentityCommit
  <2>3. StoreOK(s)
    <3>1. CASE ready
      BY <2>1, <2>2, <3>1, StoreLeft DEF Open
    <3>2. CASE ~ready
      BY <2>2, <3>2 DEF BrowseInv
    <3> QED BY <3>1, <3>2
  <2>4. StoreTiled(s) /\ StoreFresh(s, published)
    BY <1>5, <2>1, <2>2, LeftFresh DEF IdentityCommit
  <2>5. UNCHANGED <<source, server>>
    BY <1>5 DEF IdentityCommit
  <2> QED BY <2>1, <2>2, <2>3, <2>4, <2>5, EnterList
<1>6. CASE Unmount
  <2>1. key \in Lists /\ None \in Names
    BY <1>6 DEF Unmount, BrowseInv, CountInv, Names
  <2> QED BY <1>6, <2>1, LeaveList DEF Unmount
<1>7. CASE ReleaseScope
  <2>1. key \in Lists /\ key \in Names
    BY <1>7 DEF ReleaseScope, Open, BrowseInv, CountInv, Names
  <2> QED BY <1>7, <2>1, LeaveList DEF ReleaseScope
<1> QED BY <1>1, <1>3, <1>4, <1>5, <1>6, <1>7

\* The store changes, or the server, and the requests may be aborted.
LEMMA StoreList ==
  ASSUME BrowseInv, ListInv, StoreTiled(store'),
         \A k \in Lists : store'[k] # None =>
           NotOlder(store'[k].pages, published) \/ (k = key /\ ready /\ live.pages # <<>>),
         \A i \in Items : published[i] <= version'[i] /\ (source # "pixiv" => toggle'[i] = "idle"),
         UNCHANGED <<source, key, ready, published>>,
         UNCHANGED buffer \/ (AbortInflight(gen + 1) /\ UNCHANGED <<live, shown>>)
  PROVE  ListInv'
<1>1. key' = key /\ ready' = ready /\ source' = source /\ published' = published
      /\ live' = live /\ shown' = shown
  BY DEF buffer
<1>2. CASE UNCHANGED buffer
  <2>1. gen' = gen /\ inflight' = inflight /\ replay' = replay /\ flights' = flights
    BY <1>2 DEF buffer
  <2>2. RequestInv'
    BY <1>1, <2>1 DEF RequestInv, ListInv
  <2>3. TiledInv'
    BY <1>1, <2>1 DEF TiledInv, StoreTiled, ListInv
  <2>4. FreshInv'
    BY <1>1, <2>1 DEF FreshInv, ListInv
  <2> QED BY <2>2, <2>3, <2>4 DEF ListInv
<1>3. CASE AbortInflight(gen + 1)
  <2>1. inflight' = 0 /\ Begun(flights', gen', live.pages) /\ \A f \in flights' : f.aborted
    BY <1>3, AbortBegins
  <2>2. RequestInv'
    BY <1>1, <2>1 DEF RequestInv, ListInv, Begun
  <2>3. TiledInv'
    <3>1. \A f \in flights' : f.list \notin Marks => TiledFlight(f, live.pages)
      BY <2>1 DEF Begun
    <3> QED BY <1>1, <3>1 DEF TiledInv, StoreTiled, ListInv
  <2>4. FreshInv'
    BY <1>1, <2>1 DEF FreshInv, ListInv
  <2> QED BY <2>2, <2>3, <2>4 DEF ListInv
<1> QED BY <1>2, <1>3

\* What the server answers: the page at the offset, as of some versions.
LEMMA AnswerFields ==
  ASSUME NEW k \in Lists, NEW c \in Nat, NEW w
  PROVE  LET a == Answer(k, c, w)
         IN  /\ \A i \in DOMAIN a.items : a.items[i] = w[i]
             /\ k \notin Marks => DOMAIN a.items = Slice(k, c) /\ (a.more => a.cursor = c + PageSize)
<1> DEFINE got == [i \in PageIds(k, c, w) |-> w[i]]
           a == Answer(k, c, w)
<1>1. a.items = got /\ (a.more => a.cursor = c + PageSize)
  BY DEF Answer
<1>2. DOMAIN got = PageIds(k, c, w) /\ \A i \in PageIds(k, c, w) : got[i] = w[i]
  OBVIOUS
<1> HIDE DEF a, got
<1>3. k \notin Marks => DOMAIN a.items = Slice(k, c)
  BY <1>1, <1>2, SliceShown
<1> QED BY <1>1, <1>2, <1>3 DEF a


\* Checkpoints, navigation, lookup results and the expiry of snapshots.
LEMMA SaveSteps ==
  ASSUME BrowseInv, ListInv,
         \/ Checkpoint
         \/ \E k \in Lists \cup {None} : Navigate(k)
         \/ \E k \in Lists : ShowExternal(k) \/ Lapse(k)
  PROVE  ListInv'
<1>0. /\ shown.list = key /\ StoreTiled(store) /\ DOMAIN store = Lists
      /\ \A i \in Items : published[i] <= version[i] /\ (source # "pixiv" => toggle[i] = "idle")
      /\ \A k \in Lists : store[k] # None =>
           NotOlder(store[k].pages, published) \/ (k = key /\ ready /\ live.pages # <<>>)
  BY ListParts DEF ListInv, FreshInv, BrowseInv, StoreOK, GoodStore
<1>1. ASSUME Open, shown.pages # <<>>, store' \in Saves(store, key, Snapshot(shown))
      PROVE  /\ StoreTiled(store')
             /\ \A k \in Lists : store'[k] # None =>
                  NotOlder(store'[k].pages, published) \/ (k = key /\ ready /\ live.pages # <<>>)
  <2>1. key \in Lists /\ ready /\ live.pages # <<>>
    BY <1>1 DEF Open, BrowseInv, CountInv, Names, ListInv, FreshInv
  <2> QED BY <1>1, <2>1, ShownSaved
<1>2. CASE Checkpoint
  BY <1>0, <1>1, <1>2, StoreList DEF Checkpoint, page, server
<1>3. ASSUME NEW k \in Lists \cup {None}, Navigate(k) PROVE ListInv'
  <2>1. /\ StoreTiled(store')
        /\ \A j \in Lists : store'[j] # None =>
             NotOlder(store'[j].pages, published) \/ (j = key /\ ready /\ live.pages # <<>>)
    BY <1>0, <1>1, <1>3 DEF Navigate, saved
  <2> QED BY <1>0, <1>3, <2>1, StoreList DEF Navigate, server
<1>4. ASSUME NEW k \in Lists, ShowExternal(k) PROVE ListInv'
  <2> DEFINE x == [pages |-> <<PageOf(Answer(k, 0, version))>>, cursor |-> 0, more |-> FALSE, lapsed |-> FALSE]
  <2>1. PICK q : /\ q = PageOf(Answer(k, 0, version)) /\ \A i \in DOMAIN q.items : q.items[i] = version[i]
                 /\ k \notin Marks => DOMAIN q.items = Slice(k, 0)
    <3>1. PageOf(Answer(k, 0, version)).items = Answer(k, 0, version).items
      BY DEF PageOf
    <3>2. /\ \A i \in DOMAIN Answer(k, 0, version).items : Answer(k, 0, version).items[i] = version[i]
          /\ k \notin Marks => DOMAIN Answer(k, 0, version).items = Slice(k, 0)
      BY AnswerFields
    <3> QED BY <3>1, <3>2
  <2>2. q \in Page
    BY <2>1, AnswerGood, PageOfAnswer, VersionType DEF BrowseInv
  <2>3. x.pages = <<q>> /\ DOMAIN <<q>> = {1} /\ <<q>>[1] = q /\ x.more = FALSE
    BY <2>1
  <2>4. store' \in Saves(store, k, x)
    BY <1>4 DEF ShowExternal
  <2> HIDE DEF x
  <2>5. k \notin Marks => Tiled(k, x.pages) /\ Continues(x)
    <3>1. (1 - 1) * PageSize = 0
      OBVIOUS
    <3> QED BY <2>1, <2>3, <3>1 DEF Tiled, Continues
  <2>6. NotOlder(x.pages, published)
    <3>1. \A i \in DOMAIN q.items : q.items[i] >= published[i]
      <4> SUFFICES ASSUME NEW i \in DOMAIN q.items PROVE q.items[i] >= published[i]
        OBVIOUS
      <4>1. i \in Items
        BY <2>2, PageItems
      <4>2. published[i] <= version[i] /\ published[i] \in Nat /\ version[i] \in Nat
        BY <1>0, <4>1 DEF BrowseInv, CountInv, Versions
      <4> QED BY <2>1, <4>1, <4>2
    <3> QED BY <2>3, <3>1 DEF NotOlder
  <2>7. StoreTiled(store')
    BY <2>4, <2>5, SavesTiled
  <2>8. store'[k] \in {None, x} /\ \A j \in Lists : j # k => store'[j] \in {store[j], None}
    BY <1>0, <2>4, SavesOwn
  <2>9. \A j \in Lists : store'[j] # None =>
          NotOlder(store'[j].pages, published) \/ (j = key /\ ready /\ live.pages # <<>>)
    BY <1>0, <2>6, <2>8
  <2> QED BY <1>0, <1>4, <2>7, <2>9, StoreList DEF ShowExternal, server
<1>5. ASSUME NEW k \in Lists, Lapse(k) PROVE ListInv'
  <2>1. store[k] # None /\ store' = [store EXCEPT ![k].lapsed = TRUE]
    BY <1>5 DEF Lapse
  <2>2. PICK x \in SnapSet : x = store[k]
    BY <2>1 DEF BrowseInv, StoreOK, GoodStore, GoodSnap
  <2> DEFINE y == [x EXCEPT !.lapsed = TRUE]
  <2>3. y.pages = x.pages /\ y.more = x.more /\ y.cursor = x.cursor
    BY DEF SnapSet
  <2>4. store' = [store EXCEPT ![k] = y]
    BY <2>1, <2>2
  <2> HIDE DEF y
  <2>5. \A j \in Lists : store'[j] = store[j] \/ (j = k /\ store'[j] = y)
    BY <1>0, <2>4
  <2>6. StoreTiled(store')
    BY <1>0, <2>1, <2>2, <2>3, <2>5 DEF StoreTiled, Continues
  <2>7. \A j \in Lists : store'[j] # None =>
          NotOlder(store'[j].pages, published) \/ (j = key /\ ready /\ live.pages # <<>>)
    BY <1>0, <2>1, <2>2, <2>3, <2>5
  <2> QED BY <1>0, <1>5, <2>6, <2>7, StoreList DEF Lapse, page, server
<1> QED BY <1>2, <1>3, <1>4, <1>5

-----------------------------------------------------------------------------
(* Patches. *)

\* The items of a patched page.
LEMMA PatchedItems ==
  ASSUME NEW p \in Seq(Page), NEW w, NEW n \in DOMAIN p
  PROVE  PatchPages(p, w)[n].items =
           [i \in DOMAIN p[n].items |-> IF w[i] > 0 THEN w[i] ELSE p[n].items[i]]
<1>1. DOMAIN p = 1..Len(p) /\ p[n] \in Page
  BY PagesCard
<1> DEFINE new == [i \in DOMAIN p[n].items |-> IF w[i] > 0 THEN w[i] ELSE p[n].items[i]]
<1>2. PatchPages(p, w)[n] = [p[n] EXCEPT !.items = new]
  BY DEF PatchPages
<1> HIDE DEF new
<1>3. [p[n] EXCEPT !.items = new].items = new
  BY <1>1 DEF Page
<1> QED BY <1>2, <1>3 DEF new

\* A patch of published versions makes up for what it remembers.
LEMMA PatchFresh ==
  ASSUME NEW p \in Seq(Page), NEW u \in [Items -> Versions], NEW w \in [Items -> Versions],
         \A i \in Items : w[i] = 0 \/ w[i] >= u[i], AllRemembered(p, u, w)
  PROVE  NotOlder(PatchPages(p, w), u)
<1>1. DOMAIN PatchPages(p, w) = DOMAIN p
  BY DEF PatchPages
<1> SUFFICES ASSUME NEW n \in DOMAIN p, NEW i \in DOMAIN PatchPages(p, w)[n].items
             PROVE  PatchPages(p, w)[n].items[i] >= u[i]
  BY <1>1 DEF NotOlder
<1>2. p[n] \in Page
  BY PagesCard
<1>3. DOMAIN p[n].items \subseteq Items /\ \A j \in DOMAIN p[n].items : p[n].items[j] \in Versions
  BY <1>2, PageItems
<1> DEFINE new == [j \in DOMAIN p[n].items |-> IF w[j] > 0 THEN w[j] ELSE p[n].items[j]]
<1>4. PatchPages(p, w)[n].items = new
  BY PatchedItems
<1>5. i \in DOMAIN p[n].items /\ i \in Items
  BY <1>3, <1>4
<1>6. PatchPages(p, w)[n].items[i] = IF w[i] > 0 THEN w[i] ELSE p[n].items[i]
  BY <1>4, <1>5
<1>7. p[n].items[i] >= u[i] \/ w[i] >= u[i]
  BY <1>5 DEF AllRemembered, Remembered
<1>8. u[i] \in Nat /\ w[i] \in Nat /\ (w[i] = 0 \/ w[i] >= u[i]) /\ p[n].items[i] \in Nat
  BY <1>3, <1>5 DEF Versions
<1> QED BY <1>6, <1>7, <1>8

\* A version that is published is remembered by its own patch.
LEMMA PublishFresh ==
  ASSUME NEW p \in Seq(Page), NEW u \in [Items -> Versions], NEW i \in Items, NEW v \in Versions,
         NotOlder(p, u)
  PROVE  NotOlder(PatchPages(p, PatchOf(i, v)), [u EXCEPT ![i] = v])
<1> DEFINE w == PatchOf(i, v)
           x == [u EXCEPT ![i] = v]
<1>1. w \in [Items -> Versions] /\ w[i] = v /\ \A j \in Items : j # i => w[j] = 0
  BY DEF PatchOf, NoPatch, Versions
<1>2. x \in [Items -> Versions] /\ x[i] = v /\ \A j \in Items : j # i => x[j] = u[j]
  OBVIOUS
<1> HIDE DEF w, x
<1>3. AllRemembered(p, x, w)
  <2> SUFFICES ASSUME NEW n \in DOMAIN p, NEW j \in DOMAIN p[n].items
               PROVE  p[n].items[j] >= x[j] \/ w[j] >= x[j]
    BY DEF AllRemembered, Remembered
  <2>1. p[n] \in Page
    BY PagesCard
  <2>2. j \in Items
    BY <2>1, PageItems
  <2>3. p[n].items[j] >= u[j]
    BY DEF NotOlder
  <2> QED BY <1>1, <1>2, <2>2, <2>3 DEF Versions
<1>4. \A j \in Items : w[j] = 0 \/ w[j] >= x[j]
  BY <1>1, <1>2 DEF Versions
<1> QED BY <1>1, <1>2, <1>3, <1>4, PatchFresh DEF w, x

\* What is not older stays so when less is published.
LEMMA LowerFresh ==
  ASSUME NEW p \in Seq(Page), NEW u, NEW x, \A i \in Items : x[i] \in {0, u[i]}, NotOlder(p, u)
  PROVE  NotOlder(p, x)
<1> SUFFICES ASSUME NEW n \in DOMAIN p, NEW i \in DOMAIN p[n].items PROVE p[n].items[i] >= x[i]
  BY DEF NotOlder
<1>1. p[n] \in Page
  BY PagesCard
<1>2. i \in Items /\ p[n].items[i] \in Nat
  BY <1>1, PageItems DEF Versions
<1>3. p[n].items[i] >= u[i]
  BY DEF NotOlder
<1> QED BY <1>2, <1>3

\* Nothing changes in pages that do not hold the item.
LEMMA UnheldFresh ==
  ASSUME NEW p \in Seq(Page), NEW u \in [Items -> Versions], NEW i \in Items, NEW v,
         NotOlder(p, u), i \notin Ids(p)
  PROVE  NotOlder(p, [u EXCEPT ![i] = v])
<1> DEFINE x == [u EXCEPT ![i] = v]
<1>1. \A j \in Items : j # i => x[j] = u[j]
  OBVIOUS
<1> HIDE DEF x
<1>2. \A n \in DOMAIN p : i \notin DOMAIN p[n].items /\ p[n] \in Page
  BY PagesCard DEF Ids
<1>3. \A n \in DOMAIN p : \A j \in DOMAIN p[n].items : j # i /\ j \in Items
  BY <1>2, PageItems
<1>4. NotOlder(p, x)
  BY <1>1, <1>3 DEF NotOlder
<1> QED BY <1>4 DEF x

\* A bookmark is published to the snapshots: each is patched, dropped, or does not
\* hold the item.
LEMMA PatchesList ==
  ASSUME BrowseInv, ListInv, NEW i \in Items, NEW v \in Versions, NEW t \in Patches(i, v)
  PROVE  /\ StoreTiled(t)
         /\ \A k \in Lists : t[k] # None =>
              NotOlder(t[k].pages, [published EXCEPT ![i] = v]) \/ (k = key /\ ready /\ live.pages # <<>>)
<1> DEFINE w == PatchOf(i, v)
           u == [published EXCEPT ![i] = v]
<1>1. w \in [Items -> Versions] /\ published \in [Items -> Versions]
  BY DEF PatchOf, NoPatch, Versions, BrowseInv, CountInv
<1>2. \A k \in Lists : store[k] # None =>
        /\ store[k] \in SnapSet /\ store[k].pages \in Seq(Page)
        /\ NotOlder(store[k].pages, published) \/ (k = key /\ ready /\ live.pages # <<>>)
        /\ k \notin Marks => Tiled(k, store[k].pages) /\ Continues(store[k])
  BY ListParts DEF ListInv, FreshInv, StoreTiled, BrowseInv, StoreOK, GoodStore, GoodSnap, SnapSet
<1> DEFINE new(k) == [store[k] EXCEPT !.pages = PatchPages(store[k].pages, w)]
<1>3. ASSUME NEW k \in Lists, store[k] # None
      PROVE  /\ NotOlder(store[k].pages, published) => NotOlder(new(k).pages, u)
             /\ k \notin Marks => Tiled(k, new(k).pages) /\ Continues(new(k))
  <2>1. PICK x \in SnapSet : x = store[k] /\ x.pages \in Seq(Page)
    BY <1>2, <1>3
  <2> DEFINE p == PatchPages(x.pages, w)
             y == [x EXCEPT !.pages = p]
  <2>2. y.pages = p /\ y.cursor = x.cursor /\ y.more = x.more
    BY DEF SnapSet
  <2>3. new(k) = y
    BY <2>1
  <2>4. NotOlder(x.pages, published) => NotOlder(p, u)
    BY <1>1, <2>1, PublishFresh
  <2>5. DOMAIN p = DOMAIN x.pages /\ (Tiled(k, x.pages) => Tiled(k, p))
    <3>1. DOMAIN p = DOMAIN x.pages
      BY DEF PatchPages
    <3>2. Tiled(k, x.pages) => Tiled(k, p)
      BY <1>1, <2>1, PatchTiled
    <3> QED BY <3>1, <3>2
  <2> HIDE DEF p, y, new, u
  <2>6. After(p) = After(x.pages) /\ (p # <<>> => x.pages # <<>>)
    BY <2>1, <2>5, NoPages, BareTiled DEF After
  <2>7. k \notin Marks => Tiled(k, p) /\ Continues(y)
    BY <1>2, <1>3, <2>1, <2>2, <2>5, <2>6 DEF Continues
  <2> QED BY <2>1, <2>2, <2>3, <2>4, <2>7
<1>4. ASSUME NEW kept \in SUBSET {k \in Lists : store[k] # None},
             t = [k \in Lists |-> IF k \notin kept THEN None ELSE new(k)]
      PROVE  /\ StoreTiled(t)
             /\ \A k \in Lists : t[k] # None =>
                  NotOlder(t[k].pages, u) \/ (k = key /\ ready /\ live.pages # <<>>)
  <2> HIDE DEF new, u
  <2>1. \A k \in Lists : t[k] # None => k \in kept /\ t[k] = new(k)
    BY <1>4
  <2>2. StoreTiled(t)
    BY <1>3, <1>4, <2>1 DEF StoreTiled
  <2> QED BY <1>2, <1>3, <1>4, <2>1, <2>2
<1>5. ASSUME NEW kept \in SUBSET {k \in Lists : store[k] # None},
             \A k \in kept : i \notin Ids(store[k].pages), t = Keep(store, kept)
      PROVE  /\ StoreTiled(t)
             /\ \A k \in Lists : t[k] # None =>
                  NotOlder(t[k].pages, u) \/ (k = key /\ ready /\ live.pages # <<>>)
  <2>1. \A k \in Lists : t[k] # None => k \in kept /\ t[k] = store[k]
    BY <1>5 DEF Keep
  <2>2. StoreTiled(t)
    BY <1>2, <1>5, <2>1 DEF StoreTiled
  <2>3. \A k \in kept : NotOlder(store[k].pages, published) => NotOlder(store[k].pages, u)
    BY <1>1, <1>2, <1>5, UnheldFresh
  <2> HIDE DEF u
  <2> QED BY <1>2, <1>5, <2>1, <2>2, <2>3
<1>6. \/ \E kept \in SUBSET {k \in Lists : store[k] # None} :
           t = [k \in Lists |-> IF k \notin kept THEN None ELSE new(k)]
      \/ \E kept \in SUBSET {k \in Lists : store[k] # None} :
           (\A k \in kept : i \notin Ids(store[k].pages)) /\ t = Keep(store, kept)
  <2> DEFINE held == {k \in Lists : store[k] # None} \ Discarded(i, v)
  <2>1. held \in SUBSET {k \in Lists : store[k] # None}
        /\ held \ Rewritten(i, v) \in SUBSET {k \in Lists : store[k] # None}
        /\ {} \in SUBSET {k \in Lists : store[k] # None}
    OBVIOUS
  <2>2. \A k \in held \ Rewritten(i, v) : i \notin Ids(store[k].pages)
    BY DEF Rewritten
  <2>3. \/ t = [k \in Lists |-> IF k \notin held THEN None ELSE new(k)]
        \/ t = Keep(store, held \ Rewritten(i, v)) \/ t = Keep(store, {})
    BY DEF Patches
  <2> HIDE DEF held, new
  <2> QED BY <2>1, <2>2, <2>3
<1> QED BY <1>4, <1>5, <1>6

\* A bookmark is published.
LEMMA PublishList == ASSUME BrowseInv, ListInv, NEW i \in Items, Publish(i) PROVE ListInv'
<1> DEFINE v == version[i]
           u == [published EXCEPT ![i] = v]
           w == PatchOf(i, v)
<1>1. v \in Versions /\ published \in [Items -> Versions] /\ version \in [Items -> Versions]
  BY VersionType DEF BrowseInv, CountInv
<1>2. /\ source' = source /\ key' = key /\ ready' = ready /\ shown' = shown /\ gen' = gen
      /\ inflight' = inflight /\ flights' = flights /\ version' = version /\ published' = u
      /\ store' \in Patches(i, v)
      /\ live' = IF key = None THEN live ELSE Patched(live, key, w)
      /\ replay' = IF key # None /\ inflight # 0 THEN [replay EXCEPT !.updates[i] = v] ELSE replay
  BY DEF Publish, page
<1>3. w \in [Items -> Versions]
  BY <1>1 DEF PatchOf, NoPatch, Versions
<1>4. /\ Good(live) /\ Whole(live) /\ Whole(shown) /\ live.list = key
      /\ live.pages \in Seq(Page) /\ NotOlder(live.pages, published)
      /\ shown.status # "loading" => DOMAIN shown.pages = DOMAIN live.pages
  BY ListParts DEF Good, StateSet
<1>5. /\ StoreTiled(store')
      /\ \A k \in Lists : store'[k] # None =>
           NotOlder(store'[k].pages, u) \/ (k = key /\ ready /\ live.pages # <<>>)
  BY <1>1, <1>2, PatchesList
<1>6. /\ Whole(live') /\ DOMAIN live'.pages = DOMAIN live.pages /\ live'.pages \in Seq(Page)
      /\ live'.gen = live.gen /\ live'.status = live.status /\ NotOlder(live'.pages, u)
  <2>1. CASE key = None
    <3>1. live.pages = <<>>
      <4>1. live.pages # <<>> => Len(live.pages) \in Nat /\ Len(live.pages) # 0
        BY <1>4
      <4>2. ASSUME Len(live.pages) \in Nat, Len(live.pages) # 0 PROVE FALSE
        <5>1. live.pages[1] \in Page /\ live.pages[1].list = None
          BY <1>4, <2>1, <4>2 DEF Good, Own
        <5> QED BY <5>1, PageItems
      <4> QED BY <4>1, <4>2
    <3>2. NotOlder(live.pages, u)
      BY <3>1 DEF NotOlder
    <3> QED BY <1>2, <1>4, <2>1, <3>2
  <2>2. CASE key # None
    <3>1. live' = Patched(live, key, w)
      BY <1>2, <2>2
    <3>2. live'.pages = PatchPages(live.pages, w) /\ live'.gen = live.gen /\ live'.status = live.status
      BY <1>3, <1>4, <3>1, PatchedFields
    <3>3. Whole(live') /\ DOMAIN live'.pages = DOMAIN live.pages
      BY <1>3, <1>4, <3>1, PatchedWhole
    <3>4. live'.pages \in Seq(Page)
      BY <1>3, <1>4, <3>2, PatchedPages
    <3>5. NotOlder(live'.pages, u)
      <4>1. NotOlder(PatchPages(live.pages, w), u)
        BY <1>1, <1>4, PublishFresh
      <4> QED BY <3>2, <4>1
    <3> QED BY <3>2, <3>3, <3>4, <3>5
  <2> QED BY <2>1, <2>2
<1>7. After(live'.pages) = After(live.pages) /\ (live'.pages # <<>> <=> live.pages # <<>>)
  BY <1>4, <1>6, NoPages DEF After
<1>8. source = "pixiv" /\ \A j \in Items : u[j] <= version[j]
  <2>1. toggle[i] = "answered" /\ \A j \in Items : published[j] <= version[j]
    BY DEF Publish, ListInv, FreshInv
  <2>2. source = "pixiv"
    BY <2>1 DEF ListInv, FreshInv
  <2> QED BY <1>1, <2>1, <2>2 DEF Versions
<1>9. inflight # 0 => key # None /\ replay'.gen = replay.gen
                      /\ \A j \in Items : replay'.updates[j] = IF j = i THEN v ELSE replay.updates[j]
  BY <1>2 DEF ListInv, RequestInv, BrowseInv, CountInv
<1> HIDE DEF u, v, w
<1>10. RequestInv'
  BY <1>2, <1>6 DEF RequestInv, ListInv
<1>11. TiledInv'
  <2>1. \A f \in flights : f.list \notin Marks => TiledFlight(f, live'.pages)
    BY <1>7 DEF ListInv, TiledInv, TiledFlight
  <2> QED BY <1>2, <1>4, <1>5, <1>6, <2>1 DEF TiledInv, Whole, StoreTiled
<1>12. FreshInv'
  <2>1. inflight' # 0 => replay'.gen = gen' /\ \A j \in Items : replay'.updates[j] \in {0, u[j]}
    BY <1>1, <1>2, <1>9 DEF ListInv, FreshInv, u
  <2>2. ASSUME NEW f \in flights, ~f.aborted
        PROVE  \A j \in Items : f.known[j] = u[j] \/ replay'.updates[j] = u[j]
    <3>1. inflight # 0
      BY <2>2 DEF ListInv, RequestInv, BrowseInv, FlightInv, FlightsOK, GoodFlight
    <3>2. \A j \in Items : f.known[j] = published[j] \/ replay.updates[j] = published[j]
      BY <2>2 DEF ListInv, FreshInv
    <3> QED BY <1>1, <1>9, <3>1, <3>2 DEF u
  <2> QED BY <1>2, <1>5, <1>6, <1>7, <1>8, <2>1, <2>2 DEF FreshInv, ListInv
<1> QED BY <1>10, <1>11, <1>12 DEF ListInv

-----------------------------------------------------------------------------
(* Answers. *)

\* One request is answered, or asks for its next page; nothing else changes.
LEMMA SwapFlight ==
  ASSUME BrowseInv, ListInv, NEW f \in flights, NEW h,
         h.gen = f.gen, h.key = f.key, h.list = f.list, h.aborted = f.aborted,
         flights' = (flights \ {f}) \cup {h},
         h.list \notin Marks => TiledFlight(h, live.pages),
         ~h.aborted /\ h.key = key => shown.gen = gen,
         h.known = f.known,
         UNCHANGED <<page, live, shown, gen, inflight, replay, saved, server>>
  PROVE  ListInv'
<1>1. /\ source' = source /\ key' = key /\ ready' = ready /\ live' = live /\ shown' = shown
      /\ gen' = gen /\ inflight' = inflight /\ replay' = replay /\ store' = store
      /\ version' = version /\ published' = published /\ toggle' = toggle
  BY DEF page, saved, server
<1>2. RequestInv'
  <2>1. ASSUME NEW x \in flights'
        PROVE  IF x.aborted THEN x.gen < gen
               ELSE /\ x.gen = gen /\ inflight = gen /\ live.gen = gen /\ live.status = "loading"
                    /\ x.key = key /\ ~(x.reply = NoReply /\ x.pages = <<>>) => shown.gen = gen
                    /\ \A y \in flights' : y.aborted \/ y = x
    <3>1. CASE x = h
      BY <3>1 DEF ListInv, RequestInv
    <3>2. CASE x # h
      BY <2>1, <3>2 DEF ListInv, RequestInv
    <3> QED BY <3>1, <3>2
  <2>2. live.status = "loading" /\ shown.gen = live.gen => shown.status = "loading"
    BY DEF ListInv, RequestInv
  <2>3. key = None => inflight = 0
    BY DEF ListInv, RequestInv
  <2> QED BY <1>1, <2>1, <2>2, <2>3 DEF RequestInv
<1>3. TiledInv'
  BY <1>1 DEF TiledInv, ListInv
<1>4. FreshInv'
  <2>1. \A x \in flights' : ~x.aborted =>
          \A i \in Items : x.known[i] = published[i] \/ replay.updates[i] = published[i]
    BY DEF FreshInv, ListInv
  <2> QED BY <1>1, <2>1 DEF FreshInv, ListInv
<1> QED BY <1>2, <1>3, <1>4 DEF ListInv

\* What an answer that is not stale finds: the list that is waiting for it.
LEMMA Awaited ==
  ASSUME BrowseInv, ListInv, NEW f \in flights, ~Stale(f)
  PROVE  /\ ~f.aborted /\ f.gen = gen /\ f.key = key /\ f.list = key /\ key \in Lists
         /\ inflight = gen /\ gen # 0 /\ Accepts(live, f) /\ live.status = "loading"
         /\ f.reply # NoReply => shown.status = "loading" /\ shown.gen = gen
         /\ replay.gen = f.gen /\ replay.updates \in [Items -> Versions]
         /\ \A i \in Items : replay.updates[i] \in {0, published[i]}
         /\ \A i \in Items : f.known[i] = published[i] \/ replay.updates[i] = published[i]
<1>1. ~f.aborted /\ f.gen = gen /\ f.key = key
  BY DEF Stale
<1>2. f.list = key /\ key \in Lists /\ gen # 0
  BY <1>1 DEF BrowseInv, FlightInv, FlightsOK, GoodFlight, FlightSet
<1>3. /\ inflight = gen /\ live.gen = gen /\ live.status = "loading"
      /\ f.reply # NoReply => shown.gen = gen /\ shown.status = "loading"
  BY <1>1 DEF ListInv, RequestInv
<1>4. Accepts(live, f)
  BY <1>1, <1>3, ListParts DEF Accepts
<1>5. replay.gen = gen /\ \A i \in Items : replay.updates[i] \in {0, published[i]}
  BY <1>2, <1>3 DEF ListInv, FreshInv
<1>6. replay.updates \in [Items -> Versions]
  BY DEF BrowseInv, CountInv
<1>7. \A i \in Items : f.known[i] = published[i] \/ replay.updates[i] = published[i]
  BY <1>1 DEF ListInv, FreshInv
<1> QED BY <1>1, <1>2, <1>3, <1>4, <1>5, <1>6, <1>7

\* The server answers, or the network gives up.
LEMMA ReplyList == ASSUME BrowseInv, ListInv, NEW f \in flights, Reply(f) PROVE ListInv'
<1>1. f \in FlightSet /\ f.list \in Lists /\ f.cursor \in Nat /\ f.pages \in Seq(Page)
  BY DEF BrowseInv, FlightInv, FlightsOK, GoodFlight, FlightSet
<1>2. PICK a \in {Answer(f.list, f.cursor, w) : w \in Earlier} \cup {Failure} :
        flights' = (flights \ {f}) \cup {[f EXCEPT !.reply = a]}
  BY DEF Reply
<1> DEFINE h == [f EXCEPT !.reply = a]
<1>3. /\ h.gen = f.gen /\ h.key = f.key /\ h.list = f.list /\ h.plan = f.plan /\ h.cursor = f.cursor
      /\ h.pages = f.pages /\ h.aborted = f.aborted /\ h.reply = a /\ h.known = f.known
  BY <1>1 DEF FlightSet
<1>4. flights' = (flights \ {f}) \cup {h}
  BY <1>2
<1> HIDE DEF h
<1>5. f.list \notin Marks /\ a # Failure =>
        DOMAIN a.items = Slice(f.list, f.cursor) /\ (a.more => a.cursor = f.cursor + PageSize)
  BY <1>1, <1>2, AnswerFields
<1>6. h.list \notin Marks => TiledFlight(h, live.pages)
  BY <1>3, <1>5 DEF TiledFlight, TiledAnswer, ListInv, TiledInv
<1>7. ~h.aborted /\ h.key = key => shown.gen = gen
  <2>1. ~f.aborted => f.gen = gen
    BY DEF ListInv, RequestInv
  <2> QED BY <1>3, <2>1 DEF Reply, Stale
<1>8. UNCHANGED <<page, live, shown, gen, inflight, replay, saved, server>>
  BY DEF Reply
<1> QED BY <1>3, <1>4, <1>6, <1>7, <1>8, SwapFlight

\* A refresh asks for its next page.
LEMMA NextPageList ==
  ASSUME BrowseInv, ListInv, NEW f \in flights, f.reply \notin {NoReply, Failure}, ~Stale(f), NextPage(f)
  PROVE  ListInv'
<1>1. GoodFlight(f) /\ f \in FlightSet /\ f.cursor \in Nat /\ f.pages \in Seq(Page)
  BY DEF BrowseInv, FlightInv, FlightsOK, GoodFlight, FlightSet
<1> DEFINE h == [f EXCEPT !.pages = Grown(f), !.cursor = f.reply.cursor, !.reply = NoReply]
<1>2. /\ h.gen = f.gen /\ h.key = f.key /\ h.list = f.list /\ h.plan = f.plan
      /\ h.cursor = f.reply.cursor /\ h.pages = Grown(f) /\ h.aborted = f.aborted /\ h.reply = NoReply
      /\ h.known = f.known
  BY <1>1 DEF FlightSet
<1>3. flights' = (flights \ {f}) \cup {h} /\ f.plan.kind = "refresh" /\ f.reply.more
  BY DEF NextPage, LastPage
<1> HIDE DEF h
<1>4. /\ After(Grown(f)) = After(f.pages) + PageSize
      /\ Tiled(f.list, f.pages) /\ DOMAIN f.reply.items = Slice(f.list, After(f.pages)) =>
           Tiled(f.list, Grown(f))
  BY <1>1, GrownTiled
<1>5. h.list \notin Marks => TiledFlight(h, live.pages)
  BY <1>2, <1>3, <1>4 DEF TiledFlight, TiledAnswer, ListInv, TiledInv
<1>6. shown.gen = gen
  BY Awaited
<1>7. UNCHANGED <<page, live, shown, gen, inflight, replay, saved, server>>
  BY DEF NextPage
<1> QED BY <1>2, <1>3, <1>5, <1>6, <1>7, SwapFlight

\* A request ends: its answer is dropped, or settles the list that waits for it.
LEMMA EndList ==
  ASSUME BrowseInv, ListInv, NEW f \in flights, End(f),
         Whole(live'), NotOlder(live'.pages, published'), live.pages # <<>> => live'.pages # <<>>,
         published' = published \/ ~f.aborted,
         \A i \in Items : published'[i] \in {0, published[i]},
         live' = live \/ (~f.aborted /\ shown.status = "loading" /\ live'.status # "loading")
  PROVE  ListInv'
<1>1. /\ source' = source /\ key' = key /\ ready' = ready /\ shown' = shown
      /\ gen' = gen /\ replay' = replay /\ store' = store /\ flights' = flights \ {f}
      /\ inflight' = (IF inflight = f.gen THEN 0 ELSE inflight)
      /\ version' = version /\ toggle' = toggle
  BY DEF End, page, saved
<1>2. RequestInv'
  <2>1. ASSUME NEW x \in flights'
        PROVE  IF x.aborted THEN x.gen < gen
               ELSE /\ x.gen = gen /\ inflight' = gen /\ live'.gen = gen /\ live'.status = "loading"
                    /\ x.key = key /\ ~(x.reply = NoReply /\ x.pages = <<>>) => shown.gen = gen
                    /\ \A y \in flights' : y.aborted \/ y = x
    <3>1. x \in flights /\ x # f
      BY <1>1, <2>1
    <3>2. CASE x.aborted
      BY <3>1, <3>2 DEF ListInv, RequestInv
    <3>3. CASE ~x.aborted
      <4>1. f.aborted /\ f.gen < gen
        BY <3>1, <3>3 DEF ListInv, RequestInv
      <4>2. f.gen # gen
        BY <4>1 DEF BrowseInv, CountInv
      <4>3. live' = live
        BY <4>1
      <4> QED BY <1>1, <3>1, <3>3, <4>2, <4>3 DEF ListInv, RequestInv
    <3> QED BY <3>2, <3>3
  <2>2. live'.status = "loading" /\ shown.gen = live'.gen => shown.status = "loading"
    BY DEF ListInv, RequestInv
  <2>3. key = None => inflight' = 0
    BY <1>1 DEF ListInv, RequestInv
  <2> QED BY <1>1, <2>1, <2>2, <2>3 DEF RequestInv
<1>3. TiledInv'
  <2>1. \A x \in flights' : x.list \notin Marks => TiledFlight(x, live'.pages)
    <3> SUFFICES ASSUME NEW x \in flights, x # f, x.list \notin Marks
                 PROVE  TiledFlight(x, live'.pages)
      BY <1>1
    <3>1. TiledFlight(x, live.pages)
      BY DEF ListInv, TiledInv
    <3>2. x.aborted \/ live' = live
      BY DEF ListInv, RequestInv
    <3> QED BY <3>1, <3>2 DEF TiledFlight
  <2>2. shown.status # "loading" => DOMAIN shown.pages = DOMAIN live'.pages
    BY DEF ListInv, TiledInv
  <2>3. Whole(shown) /\ StoreTiled(store)
    BY ListParts
  <2> QED BY <1>1, <2>1, <2>2, <2>3 DEF TiledInv, Whole, StoreTiled
<1>4. FreshInv'
  <2>1. \A i \in Items : /\ published[i] <= version[i] /\ published[i] \in Nat /\ version[i] \in Nat
                         /\ (source # "pixiv" => published[i] = 0 /\ toggle[i] = "idle")
    BY DEF ListInv, FreshInv, BrowseInv, CountInv, Versions
  <2>2. \A i \in Items : published'[i] <= version[i] /\ (source # "pixiv" => published'[i] = 0)
    BY <2>1
  <2>3. \A k \in Lists : store[k] # None =>
          NotOlder(store[k].pages, published') \/ (k = key /\ ready /\ live'.pages # <<>>)
    <3> SUFFICES ASSUME NEW k \in Lists, store[k] # None, NotOlder(store[k].pages, published)
                 PROVE  NotOlder(store[k].pages, published')
      BY DEF ListInv, FreshInv
    <3>1. store[k].pages \in Seq(Page)
      BY DEF BrowseInv, StoreOK, GoodStore, GoodSnap, SnapSet
    <3> QED BY <3>1, LowerFresh
  <2>4. CASE published' = published
    BY <1>1, <2>1, <2>3, <2>4 DEF FreshInv, ListInv
  <2>5. CASE ~f.aborted
    <3>1. inflight = f.gen /\ \A h \in flights : h.aborted \/ h = f
      BY <2>5 DEF ListInv, RequestInv
    <3>2. inflight' = 0 /\ \A h \in flights' : h.aborted
      BY <1>1, <3>1
    <3> QED BY <1>1, <2>1, <2>2, <2>3, <3>2 DEF FreshInv, ListInv
  <2> QED BY <2>4, <2>5
<1> QED BY <1>2, <1>3, <1>4 DEF ListInv

\* An answer that is older than what the request remembers was published before it.
LEMMA GrownRemembered ==
  ASSUME BrowseInv, ListInv, NEW f \in flights, f.reply \notin {NoReply, Failure}, ~Stale(f), NEW u,
         u = [i \in Items |-> IF i \in Outdated(f) THEN 0 ELSE published[i]]
  PROVE  /\ AllRemembered(Grown(f), u, replay.updates) /\ Remembered(f.reply.items, u, replay.updates)
         /\ u \in [Items -> Versions] /\ \A i \in Items : u[i] \in {0, published[i]}
<1>1. GoodFlight(f)
  BY DEF BrowseInv, FlightInv, FlightsOK
<1>2. Grown(f) \in Seq(Page)
  BY <1>1, GoodGrown
<1>3. published \in [Items -> Versions] /\ replay.updates \in [Items -> Versions]
  BY DEF BrowseInv, CountInv
<1>4. u \in [Items -> Versions] /\ \A i \in Items : u[i] \in {0, published[i]}
  BY <1>3 DEF Versions
<1>5. AllRemembered(Grown(f), u, replay.updates)
  <2> SUFFICES ASSUME NEW n \in DOMAIN Grown(f), NEW i \in DOMAIN Grown(f)[n].items
               PROVE  Grown(f)[n].items[i] >= u[i] \/ replay.updates[i] >= u[i]
    BY DEF AllRemembered, Remembered
  <2>1. Grown(f)[n] \in Page
    BY <1>2, PagesCard
  <2>2. i \in Items /\ Grown(f)[n].items[i] \in Nat
    BY <2>1, PageItems DEF Versions
  <2>3. published[i] \in Nat /\ replay.updates[i] \in Nat
    BY <1>3, <2>2 DEF Versions
  <2>4. CASE replay.updates[i] = published[i]
    BY <1>4, <2>2, <2>3, <2>4
  <2>5. CASE f.known[i] = published[i] /\ Grown(f)[n].items[i] < published[i]
    <3>1. i \in Outdated(f)
      BY <2>2, <2>5 DEF Outdated
    <3> QED BY <2>2, <3>1
  <2>6. CASE ~(Grown(f)[n].items[i] < published[i])
    BY <1>4, <2>2, <2>3, <2>6
  <2> QED BY <2>2, <2>4, <2>5, <2>6, Awaited
<1> QED BY <1>1, <1>4, <1>5, GrownTiled

\* What is replayed makes up for the patches the answer missed.
LEMMA ReplayList ==
  ASSUME BrowseInv, ListInv, NEW f \in flights, ~Stale(f), NEW s, Good(s), Whole(s), s.list = key,
         s.status = "idle", s.pages # <<>>, NEW u \in [Items -> Versions],
         \A i \in Items : u[i] \in {0, published[i]}, AllRemembered(s.pages, u, replay.updates)
  PROVE  /\ Whole(ReplayOn(s, f)) /\ NotOlder(ReplayOn(s, f).pages, u)
         /\ ReplayOn(s, f).pages # <<>> /\ ReplayOn(s, f).status = "idle"
<1> DEFINE w == replay.updates
           t == Patched(s, key, w)
<1>1. f.key = key /\ replay.gen = f.gen /\ w \in [Items -> Versions]
      /\ \A i \in Items : w[i] \in {0, published[i]}
  BY Awaited
<1>2. ReplayOn(s, f) = t
  BY <1>1 DEF ReplayOn
<1> HIDE DEF w, t
<1>3. t.pages = PatchPages(s.pages, w) /\ t.status = s.status
  BY <1>1, PatchedFields DEF t
<1>4. Whole(t) /\ DOMAIN t.pages = DOMAIN s.pages
  BY <1>1, PatchedWhole DEF t
<1>5. s.pages \in Seq(Page)
  BY DEF Good, StateSet
<1>6. NotOlder(PatchPages(s.pages, w), u)
  <2>1. \A i \in Items : w[i] = 0 \/ w[i] >= u[i]
    BY <1>1 DEF Versions
  <2> QED BY <1>1, <1>5, <2>1, PatchFresh DEF w
<1>7. t.pages # <<>>
  BY <1>4, <1>5, NoPages, BareTiled
<1> QED BY <1>2, <1>3, <1>4, <1>6, <1>7

\* PAGE_SUCCEEDED and BUFFER_SUCCEEDED.
LEMMA SucceedList ==
  ASSUME BrowseInv, ListInv, NEW f \in flights, f.reply \notin {NoReply, Failure}, ~Stale(f),
         Succeed(f), End(f)
  PROVE  ListInv'
<1> DEFINE a == f.reply
<1>1. /\ ~f.aborted /\ f.list = key /\ key \in Lists /\ Accepts(live, f) /\ shown.status = "loading"
  BY Awaited
<1>2. GoodFlight(f) /\ f \in FlightSet /\ a \in AnswerSet /\ a.list = key
      /\ Grown(f) \in Seq(Page) /\ Own(Grown(f), key)
  BY <1>1, GoodGrown DEF BrowseInv, FlightInv, FlightsOK, GoodFlight, FlightSet
<1>3. Good(live) /\ Whole(live) /\ live.list = key /\ NotOlder(live.pages, published)
  BY ListParts
<1>4. f.list \notin Marks => TiledFlight(f, live.pages)
  BY DEF ListInv, TiledInv
<1> DEFINE u == published'
<1>5. /\ AllRemembered(Grown(f), u, replay.updates) /\ Remembered(a.items, u, replay.updates)
      /\ u \in [Items -> Versions] /\ \A i \in Items : u[i] \in {0, published[i]}
  BY GrownRemembered DEF Succeed
<1>9. AllRemembered(live.pages, u, replay.updates)
  <2>1. NotOlder(live.pages, u)
    BY <1>3, <1>5, LowerFresh DEF Good, StateSet
  <2> QED BY <2>1 DEF AllRemembered, Remembered, NotOlder
<1>6. CASE f.plan.kind = "refresh"
  <2>1. /\ Grown(f) # <<>> /\ AllRemembered(Grown(f), u, replay.updates)
        /\ After(Grown(f)) = After(f.pages) + PageSize
        /\ Tiled(f.list, f.pages) /\ DOMAIN a.items = Slice(f.list, After(f.pages)) =>
             Tiled(f.list, Grown(f))
    BY <1>2, <1>5, GrownTiled
  <2>2. key \notin Marks => Tiled(key, Grown(f)) /\ (a.more => a.cursor = After(Grown(f)))
    BY <1>1, <1>4, <1>6, <2>1 DEF TiledFlight, TiledAnswer
  <2> DEFINE s == Buffered(live, Grown(f), a)
  <2>3. Whole(s) /\ s.pages # <<>> /\ AllRemembered(s.pages, u, replay.updates)
    BY <1>1, <1>2, <1>3, <2>1, <2>2, BufferedWhole
  <2>4. Good(s) /\ s.list = key /\ s.status = "idle"
    BY <1>2, <1>3, GoodBuffered
  <2>5. live' = ReplayOn(s, f)
    BY <1>1, <1>6 DEF Succeed
  <2> HIDE DEF s
  <2> QED BY <1>1, <2>3, <2>4, <2>5, <1>5, ReplayList, EndList
<1>7. CASE f.plan.kind = "append"
  <2>1. key \notin Marks => /\ DOMAIN a.items = Slice(key, After(live.pages))
                            /\ a.more => a.cursor = After(live.pages) + PageSize
    BY <1>1, <1>4, <1>7 DEF TiledFlight, TiledAnswer
  <2> DEFINE s == Appended(live, a)
  <2>2. Whole(s) /\ s.pages # <<>> /\ AllRemembered(s.pages, u, replay.updates)
    BY <1>1, <1>2, <1>3, <1>5, <1>9, <2>1, AppendedWhole
  <2>3. Good(s) /\ s.list = key /\ s.status = "idle"
    BY <1>2, <1>3, GoodAppended
  <2>4. live' = ReplayOn(s, f)
    BY <1>1, <1>7 DEF Succeed
  <2> HIDE DEF s
  <2> QED BY <1>1, <2>2, <2>3, <2>4, <1>5, ReplayList, EndList
<1>8. CASE f.plan.kind \notin {"refresh", "append"}
  <2>1. key \notin Marks => f.cursor = 0
    BY <1>1, <1>4, <1>8 DEF TiledFlight
  <2>2. key \notin Marks => DOMAIN a.items = Slice(key, 0) /\ (a.more => a.cursor = PageSize)
    BY <1>1, <1>4, <2>1 DEF TiledFlight, TiledAnswer
  <2> DEFINE s == Replaced(live, a)
  <2>3. Whole(s) /\ s.pages # <<>> /\ AllRemembered(s.pages, u, replay.updates)
    BY <1>2, <1>3, <1>5, <2>2, ReplacedWhole
  <2>4. Good(s) /\ s.list = key /\ s.status = "idle"
    BY <1>2, <1>3, GoodReplaced
  <2>5. live' = ReplayOn(s, f)
    BY <1>1, <1>8 DEF Succeed
  <2> HIDE DEF s
  <2> QED BY <1>1, <2>3, <2>4, <2>5, <1>5, ReplayList, EndList
<1> QED BY <1>6, <1>7, <1>8

\* PAGE_FAILED.
LEMMA FailList ==
  ASSUME BrowseInv, ListInv, NEW f \in flights, f.reply = Failure, ~Stale(f), Fail(f), End(f)
  PROVE  ListInv'
<1>1. ~f.aborted /\ f.list = key /\ Accepts(live, f) /\ (f.reply # NoReply => shown.status = "loading")
  BY Awaited
<1>2. f.reply # NoReply
  <2>1. Failure.more = TRUE /\ NoReply.more = FALSE
    BY DEF Failure, NoReply
  <2> QED BY <2>1
<1>3. Good(live) /\ Whole(live) /\ live.list = key /\ NotOlder(live.pages, published)
  BY ListParts
<1>4. f.plan \in PlanSet
  BY DEF BrowseInv, FlightInv, FlightsOK, GoodFlight, FlightSet
<1>5. key \notin Marks => f.plan.cursor = IF f.plan.kind = "append" THEN After(live.pages) ELSE 0
  BY <1>1 DEF ListInv, TiledInv, TiledFlight
<1>6. live' = Failed(live, f.plan)
  BY <1>1 DEF Fail
<1>7. Whole(live') /\ live'.pages = live.pages
  BY <1>3, <1>4, <1>5, <1>6, FailedWhole
<1>8. live'.status = "error"
  BY <1>3, <1>4, <1>6, GoodFailed
<1>9. published' = published
  BY DEF Fail
<1> QED BY <1>1, <1>2, <1>3, <1>7, <1>8, <1>9, EndList

\* An answer is dropped, is one page of several, ends the request, or is a failure.
LEMMA ReceiveList == ASSUME BrowseInv, ListInv, NEW f \in flights, Receive(f) PROVE ListInv'
<1>1. CASE DropAnswer(f) /\ End(f)
  BY <1>1, ListParts, EndList DEF DropAnswer
<1> QED BY <1>1, NextPageList, SucceedList, FailList DEF Receive

-----------------------------------------------------------------------------
(* The theorems. *)

\* The initial state.
LEMMA InitList == Init => ListInv
<1> SUFFICES ASSUME Init PROVE ListInv
  OBVIOUS
<1>1. /\ live = Empty(None, 0) /\ shown = live /\ inflight = 0 /\ flights = {} /\ key = None
      /\ store = [k \in Lists |-> None]
  BY DEF Init
<1>2. live.pages = <<>> /\ live.status = "idle" /\ Whole(live)
  BY <1>1, GoodEmpty, EmptyWhole DEF Names
<1>3. RequestInv
  BY <1>1, <1>2 DEF RequestInv
<1>4. TiledInv
  BY <1>1, <1>2 DEF TiledInv, Whole
<1>5. FreshInv
  <2>1. \A i \in Items : published[i] = 0 /\ version[i] = 0 /\ toggle[i] = "idle"
    BY DEF Init
  <2> QED BY <1>1, <1>2, <2>1 DEF FreshInv, NotOlder
<1> QED BY <1>3, <1>4, <1>5 DEF ListInv

\* Every step keeps the invariant.
LEMMA ListStep == BrowseInv /\ ListInv /\ [Next]_vars => ListInv'
<1> SUFFICES ASSUME BrowseInv, ListInv, [Next]_vars PROVE ListInv'
  OBVIOUS
<1>1. ASSUME \/ \E i \in Items : Toggle(i) \/ ServerToggle(i) \/ LosePatch(i)
             \/ UNCHANGED vars
      PROVE  ListInv'
  <2>1. /\ UNCHANGED <<source, key, ready, published>> /\ UNCHANGED buffer /\ store' = store
        /\ \A i \in Items : published[i] <= version'[i] /\ (source # "pixiv" => toggle'[i] = "idle")
    <3>1. \A i \in Items : /\ published[i] <= version[i] /\ (source # "pixiv" => toggle[i] = "idle")
                           /\ published[i] \in Nat /\ version[i] \in Nat
      BY DEF ListInv, FreshInv, BrowseInv, CountInv, Versions
    <3>2. toggle \in [Items -> {"idle", "sent", "answered"}] /\ version \in [Items -> Nat]
      BY DEF BrowseInv, CountInv
    <3>3. CASE UNCHANGED vars
      BY <3>1, <3>3 DEF vars, buffer
    <3>4. ASSUME NEW i \in Items, Toggle(i) \/ ServerToggle(i) \/ LosePatch(i)
          PROVE  /\ UNCHANGED <<source, key, ready, published>> /\ UNCHANGED buffer /\ store' = store
                 /\ \A j \in Items : published[j] <= version'[j] /\ (source # "pixiv" => toggle'[j] = "idle")
      BY <3>1, <3>2, <3>4 DEF Toggle, ServerToggle, LosePatch, page, saved, buffer
    <3> QED BY <1>1, <3>3, <3>4
  <2> QED BY <2>1, ListParts, StoreList DEF ListInv, FreshInv
<1>2. CASE User
  BY <1>1, <1>2, SendSteps, SaveSteps DEF User
<1>3. CASE Environment
  BY <1>3, CommitListSteps, SaveSteps DEF Environment
<1>4. CASE Progress
  BY <1>1, <1>4, CommitListSteps, ReplyList, ReceiveList, PublishList DEF Progress
<1> QED BY <1>1, <1>2, <1>3, <1>4 DEF Next

\* Every buffer and every snapshot is whole and at least as new as the changes that
\* were published and that no later answer contradicts, whatever is in flight (hooks/useBrowseSession.ts:195-377,
\* lib/browse/reducer.ts:93-200, lib/browse/snapshotStore.ts:212-340).
THEOREM ListCorrect == Spec => []ListInv
<1>1. Init => BrowseInv /\ ListInv
  BY InitBrowse, InitList
<1>2. BrowseInv /\ ListInv /\ [Next]_vars => BrowseInv' /\ ListInv'
  BY BrowseStep, ListStep
<1> QED BY <1>1, <1>2, PTL DEF Spec

\* What the invariants say of the pages and of their items.
LEMMA ListFacts == BrowseInv /\ ListInv => NoGaps /\ NeverOlder
<1> SUFFICES ASSUME BrowseInv, ListInv PROVE NoGaps /\ NeverOlder
  OBVIOUS
<1>1. Whole(live) /\ NotOlder(live.pages, published)
  BY ListParts
<1>2. NoGaps
  <2> SUFFICES ASSUME live.list \in Lists \ Marks
               PROVE  /\ \A n \in DOMAIN live.pages :
                           DOMAIN live.pages[n].items = PageIds(live.list, (n - 1) * PageSize, version)
                      /\ live.more /\ live.pages # <<>> =>
                           live.cursor = Cardinality(DOMAIN live.pages) * PageSize
    BY DEF NoGaps
  <2>1. Tiled(live.list, live.pages) /\ Continues(live)
    BY <1>1 DEF Whole, TiledBuffer
  <2> QED BY <2>1, SliceShown DEF Tiled, Continues, After
<1>3. NeverOlder
  BY <1>1 DEF NeverOlder, NotOlder
<1> QED BY <1>2, <1>3

\* The pages of a list that does not shift follow each other without a hole, and its
\* cursor is where they end, however requests, restores and refreshes interleave
\* (hooks/useBrowseSession.ts:262-377, lib/browse/reducer.ts:93-200).
THEOREM BufferHasNoGaps == Spec => []NoGaps
BY BrowseCorrect, ListCorrect, ListFacts, PTL

\* A bookmark the user changed is not shown as it was before by an answer that was in
\* flight at the change, nor by a snapshot; only a request sent after the change can
\* bring a page, from the cache of the server, that undoes it
\* (hooks/useBrowseSession.ts:264-398, lib/browse/listPatches.ts:47-59).
THEOREM ChangesAreNotUndone == Spec => []NeverOlder
BY BrowseCorrect, ListCorrect, ListFacts, PTL
=============================================================================
