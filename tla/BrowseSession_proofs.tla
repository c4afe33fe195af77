------------------------- MODULE BrowseSession_proofs -------------------------
(* Proofs about BrowseSession, for any lists, items, page size, quota and      *)
(* number of steps.  TLC checks that the list comes to rest.                   *)
EXTENDS BrowseSession, Sequences, FiniteSetTheorems, TLAPS

USE ListsAssumption, RankAssumption, BoundsAssumption

-----------------------------------------------------------------------------
(* Well-formed buffers, snapshots and requests: typed, of their own list, and *)
(* without repetition.                                                        *)

Contents == UNION {[S -> Versions] : S \in SUBSET Items}
Page  == [list : Lists, items : Contents]
Names == Lists \cup {None}

StateSet ==
  [list : Names, pages : Seq(Page), cursor : Nat, more : BOOLEAN, gen : Nat,
   status : {"idle", "loading", "error"}, failed : PlanSet, terminal : BOOLEAN]
SnapSet   == [pages : Seq(Page), cursor : Nat, more : BOOLEAN, lapsed : BOOLEAN]
AnswerSet == [list : Lists, items : Contents, cursor : Nat, more : BOOLEAN]
FlightSet ==
  [gen : Nat, key : Lists, list : Lists, plan : PlanSet, cursor : Nat, pages : Seq(Page),
   reply : AnswerSet \cup {NoReply, Failure}, aborted : BOOLEAN, known : [Items -> Versions]]

Own(pages, k) == \A n \in 1..Len(pages) : pages[n].list = k
Distinct(pages) ==
  \A m, n \in 1..Len(pages) :
    m # n => DOMAIN pages[m].items \cap DOMAIN pages[n].items = {}

Good(s) == s \in StateSet /\ Own(s.pages, s.list) /\ Distinct(s.pages)
GoodSnap(x, k) == x \in SnapSet /\ Own(x.pages, k) /\ Distinct(x.pages)
GoodStore(s) ==
  /\ s \in [Lists -> SnapSet \cup {None}]
  /\ \A k \in Lists : s[k] # None => GoodSnap(s[k], k)
GoodFlight(f) ==
  /\ f \in FlightSet /\ f.gen > 0 /\ Own(f.pages, f.list)
  /\ f.reply \notin {NoReply, Failure} => f.reply.list = f.list

-----------------------------------------------------------------------------
(* Pages. *)

\* The length of a buffer is the number of its pages.
LEMMA PagesCard ==
  ASSUME NEW p \in Seq(Page)
  PROVE  Len(p) \in Nat /\ DOMAIN p = 1..Len(p) /\ Cardinality(DOMAIN p) = Len(p)
<1>1. Len(p) \in Nat /\ DOMAIN p = 1..Len(p)
  OBVIOUS
<1>2. Cardinality(1..Len(p)) = Len(p)
  BY <1>1, FS_Interval, SMTT(30)
<1> QED BY <1>1, <1>2

\* A page has a list and items with versions.
LEMMA PageItems ==
  ASSUME NEW q \in Page
  PROVE  q.list \in Lists /\ DOMAIN q.items \subseteq Items
         /\ \A i \in DOMAIN q.items : q.items[i] \in Versions
<1>1. q.list \in Lists /\ q.items \in Contents
  BY DEF Page
<1>2. PICK S \in SUBSET Items : q.items \in [S -> Versions]
  BY <1>1 DEF Contents
<1> QED BY <1>1, <1>2

\* A page without the items that were seen before.
LEMMA FreshPage ==
  ASSUME NEW q \in Page, NEW seen
  PROVE  /\ Fresh(q, seen) \in Page /\ Fresh(q, seen).list = q.list
         /\ DOMAIN Fresh(q, seen).items = DOMAIN q.items \ seen
<1>1. DOMAIN q.items \subseteq Items /\ \A i \in DOMAIN q.items : q.items[i] \in Versions
  BY PageItems
<1> DEFINE left == [i \in DOMAIN q.items \ seen |-> q.items[i]]
<1>2. left \in [DOMAIN q.items \ seen -> Versions]
  BY <1>1
<1>3. left \in Contents
  BY <1>1, <1>2 DEF Contents
<1>4. Fresh(q, seen) = [q EXCEPT !.items = left]
  BY DEF Fresh
<1> HIDE DEF left
<1>5. Fresh(q, seen) \in Page /\ Fresh(q, seen).list = q.list /\ Fresh(q, seen).items = left
  BY <1>3, <1>4 DEF Page
<1>6. DOMAIN left = DOMAIN q.items \ seen
  BY DEF left
<1> QED BY <1>5, <1>6

\* An answer of the server is a page of the list it was asked for.
LEMMA AnswerGood ==
  ASSUME NEW k \in Lists, NEW c \in Nat, NEW w \in [Items -> Versions]
  PROVE  Answer(k, c, w) \in AnswerSet /\ Answer(k, c, w).list = k
<1>1. PageIds(k, c, w) \subseteq Items
  BY DEF PageIds, Visible
<1> DEFINE got == [i \in PageIds(k, c, w) |-> w[i]]
<1>2. got \in [PageIds(k, c, w) -> Versions]
  BY <1>1
<1>3. got \in Contents
  BY <1>1, <1>2 DEF Contents
<1>4. c + PageSize \in Nat
  OBVIOUS
<1> QED BY <1>3, <1>4 DEF Answer, AnswerSet

\* The page of an answer.
LEMMA PageOfAnswer ==
  ASSUME NEW a \in AnswerSet
  PROVE  PageOf(a) \in Page /\ PageOf(a).list = a.list
BY DEF PageOf, AnswerSet, Page

\* Keeping the first occurrences leaves pages of the same lists, without repetition.
LEMMA UniquePages ==
  ASSUME NEW p \in Seq(Page)
  PROVE  /\ Unique(p) \in Seq(Page) /\ Len(Unique(p)) = Len(p)
         /\ \A n \in 1..Len(p) : Unique(p)[n].list = p[n].list
         /\ Distinct(Unique(p))
<1>1. Len(p) \in Nat /\ DOMAIN p = 1..Len(p) /\ \A n \in 1..Len(p) : p[n] \in Page
  BY PagesCard
<1> DEFINE before(n) == Ids([m \in 1..(n - 1) |-> p[m]])
           u == [n \in 1..Len(p) |-> Fresh(p[n], before(n))]
<1>2. Unique(p) = u
  BY <1>1 DEF Unique
<1>3. \A n \in 1..Len(p) : /\ Fresh(p[n], before(n)) \in Page
                           /\ Fresh(p[n], before(n)).list = p[n].list
                           /\ DOMAIN Fresh(p[n], before(n)).items = DOMAIN p[n].items \ before(n)
  <2> TAKE n \in 1..Len(p)
  <2> HIDE DEF before
  <2> QED BY <1>1, FreshPage
<1>4. \A n \in 1..Len(p), m \in 1..Len(p) : m < n => DOMAIN p[m].items \subseteq before(n)
  <2> TAKE n \in 1..Len(p), m \in 1..Len(p)
  <2> SUFFICES ASSUME m < n PROVE DOMAIN p[m].items \subseteq before(n)
    OBVIOUS
  <2> DEFINE first == [j \in 1..(n - 1) |-> p[j]]
  <2>1. m \in 1..(n - 1)
    BY <1>1
  <2>2. m \in DOMAIN first /\ first[m] = p[m]
    BY <2>1
  <2>3. DOMAIN first[m].items \subseteq Ids(first)
    <3> HIDE DEF first
    <3> QED BY <2>2 DEF Ids
  <2> QED BY <2>2, <2>3
<1> HIDE DEF before
<1>5. u \in Seq(Page) /\ Len(u) = Len(p)
  BY <1>1, <1>3
<1>6. \A n \in 1..Len(p) : u[n].list = p[n].list /\ DOMAIN u[n].items = DOMAIN p[n].items \ before(n)
  BY <1>3
<1> HIDE DEF u
<1>7. ASSUME NEW m \in 1..Len(p), NEW n \in 1..Len(p), m < n
      PROVE  DOMAIN u[m].items \cap DOMAIN u[n].items = {}
  BY <1>4, <1>6, <1>7
<1>8. Distinct(u)
  <2> SUFFICES ASSUME NEW m \in 1..Len(p), NEW n \in 1..Len(p), m # n
               PROVE  DOMAIN u[m].items \cap DOMAIN u[n].items = {}
    BY <1>5 DEF Distinct
  <2>1. m < n \/ n < m
    BY <1>1
  <2> QED BY <1>7, <2>1
<1> QED BY <1>2, <1>5, <1>6, <1>8

\* A patch changes versions and nothing else.
LEMMA PatchedPages ==
  ASSUME NEW p \in Seq(Page), NEW w \in [Items -> Versions]
  PROVE  /\ PatchPages(p, w) \in Seq(Page) /\ Len(PatchPages(p, w)) = Len(p)
         /\ \A n \in 1..Len(p) : /\ PatchPages(p, w)[n].list = p[n].list
                                 /\ DOMAIN PatchPages(p, w)[n].items = DOMAIN p[n].items
<1>1. Len(p) \in Nat /\ DOMAIN p = 1..Len(p) /\ \A n \in 1..Len(p) : p[n] \in Page
  BY PagesCard
<1> DEFINE new(n) == [i \in DOMAIN p[n].items |-> IF w[i] > 0 THEN w[i] ELSE p[n].items[i]]
           r == [n \in 1..Len(p) |-> [p[n] EXCEPT !.items = new(n)]]
<1>2. PatchPages(p, w) = r
  BY <1>1 DEF PatchPages
<1>3. \A n \in 1..Len(p) : new(n) \in Contents
  <2> TAKE n \in 1..Len(p)
  <2>1. /\ DOMAIN p[n].items \subseteq Items
        /\ \A i \in DOMAIN p[n].items : p[n].items[i] \in Versions
    BY <1>1, PageItems
  <2>2. new(n) \in [DOMAIN p[n].items -> Versions]
    BY <2>1
  <2> QED BY <2>1, <2>2 DEF Contents
<1>4. \A n \in 1..Len(p) : DOMAIN new(n) = DOMAIN p[n].items
  OBVIOUS
<1> HIDE DEF new
<1> DEFINE onePage(n) == [p[n] EXCEPT !.items = new(n)]
<1>5. \A n \in 1..Len(p) : onePage(n) \in Page /\ onePage(n).list = p[n].list /\ onePage(n).items = new(n)
  BY <1>1, <1>3 DEF Page
<1>6. r = [n \in 1..Len(p) |-> onePage(n)]
  OBVIOUS
<1> HIDE DEF onePage, r
<1>7. r \in Seq(Page) /\ Len(r) = Len(p)
  BY <1>1, <1>5, <1>6
<1>8. \A n \in 1..Len(p) : r[n].list = p[n].list /\ DOMAIN r[n].items = DOMAIN p[n].items
  BY <1>4, <1>5, <1>6
<1> QED BY <1>2, <1>7, <1>8

-----------------------------------------------------------------------------
(* The reducer. *)

\* A list that was just entered.
LEMMA GoodEmpty ==
  ASSUME NEW k \in Names, NEW g \in Nat
  PROVE  /\ Good(Empty(k, g)) /\ Empty(k, g).list = k /\ Empty(k, g).gen = g
         /\ Empty(k, g).status = "idle" /\ Empty(k, g).pages = <<>>
<1>1. NoPlan \in PlanSet
  BY DEF NoPlan, PlanSet
<1>2. << >> \in Seq(Page) /\ Len(<< >>) = 0
  OBVIOUS
<1> QED BY <1>1, <1>2 DEF Good, Empty, StateSet, Own, Distinct

\* What a settled state keeps.
LEMMA GoodSettled ==
  ASSUME NEW s \in StateSet
  PROVE  /\ Settled(s) \in StateSet /\ Settled(s).status = "idle"
         /\ Settled(s).list = s.list /\ Settled(s).gen = s.gen
         /\ Settled(s).pages = s.pages /\ Settled(s).more = s.more
<1>1. NoPlan \in PlanSet
  BY DEF NoPlan, PlanSet
<1> QED BY <1>1 DEF Settled, StateSet

\* A buffer whose pages were replaced by others of its list.
LEMMA GoodBuffer ==
  ASSUME NEW x \in StateSet, Own(x.pages, x.list), Distinct(x.pages)
  PROVE  /\ Good(Settled(x)) /\ Settled(x).list = x.list /\ Settled(x).gen = x.gen
         /\ Settled(x).status = "idle" /\ Settled(x).more = x.more
BY GoodSettled DEF Good

\* A restored list holds the pages of its snapshot.
LEMMA GoodHydrated ==
  ASSUME NEW s, Good(s), NEW x, GoodSnap(x, s.list)
  PROVE  /\ Good(Hydrated(s, x)) /\ Hydrated(s, x).list = s.list
         /\ Hydrated(s, x).gen = s.gen /\ Hydrated(s, x).status = "idle"
         /\ Hydrated(s, x).more = x.more
<1>1. x.pages \in Seq(Page) /\ x.cursor \in Nat /\ x.more \in BOOLEAN /\ s \in StateSet
  BY DEF GoodSnap, SnapSet, Good
<1>2. Own(x.pages, s.list) /\ Distinct(x.pages)
  BY DEF GoodSnap
<1> DEFINE t == [s EXCEPT !.pages = x.pages, !.cursor = x.cursor, !.more = x.more]
<1>3. t \in StateSet /\ t.list = s.list /\ t.gen = s.gen /\ t.more = x.more /\ t.pages = x.pages
  BY <1>1 DEF StateSet
<1>4. Hydrated(s, x) = Settled(t)
  BY DEF Hydrated
<1> HIDE DEF t
<1> QED BY <1>2, <1>3, <1>4, GoodBuffer

\* A list whose snapshot cannot be loaded again is empty and at its end.
LEMMA GoodExpired ==
  ASSUME NEW s, Good(s)
  PROVE  /\ Good(Expired(s)) /\ Expired(s).list = s.list /\ Expired(s).gen = s.gen
         /\ Expired(s).status = "idle" /\ Expired(s).more = FALSE
<1>1. PICK t \in StateSet : /\ t = Settled(s) /\ t.list = s.list /\ t.gen = s.gen
                            /\ t.status = "idle"
  BY GoodSettled DEF Good
<1>0. PICK p \in Seq(Page) : p = << >>
  <2>1. << >> \in Seq(Page)
    OBVIOUS
  <2> QED BY <2>1, Zenon
<1> DEFINE e == [t EXCEPT !.pages = p, !.cursor = 0, !.more = FALSE, !.terminal = TRUE]
<1>2. e \in StateSet
  BY DEF StateSet
<1>3. /\ e.pages = p /\ e.list = t.list /\ e.gen = t.gen
      /\ e.status = t.status /\ e.more = FALSE
  BY DEF StateSet
<1>4. Expired(s) = e
  BY <1>0, <1>1 DEF Expired
<1> HIDE DEF e
<1>5. Own(e.pages, e.list) /\ Distinct(e.pages)
  BY <1>0, <1>3 DEF Own, Distinct
<1> QED BY <1>1, <1>2, <1>3, <1>4, <1>5 DEF Good

\* A request that starts keeps the buffer.
LEMMA GoodStarted ==
  ASSUME NEW s, Good(s), NEW g \in Nat
  PROVE  /\ Good(Started(s, g)) /\ Started(s, g).list = s.list
         /\ Started(s, g).gen = g /\ Started(s, g).status = "loading"
<1>1. NoPlan \in PlanSet
  BY DEF NoPlan, PlanSet
<1> QED BY <1>1 DEF Started, StateSet, Good

\* A request that failed keeps the buffer.
LEMMA GoodFailed ==
  ASSUME NEW s, Good(s), NEW plan \in PlanSet
  PROVE  /\ Good(Failed(s, plan)) /\ Failed(s, plan).list = s.list
         /\ Failed(s, plan).gen = s.gen /\ Failed(s, plan).status = "error"
BY DEF Failed, StateSet, Good

\* A patch keeps the list, its pages and its state.
LEMMA GoodPatched ==
  ASSUME NEW s, Good(s), NEW k, NEW w \in [Items -> Versions]
  PROVE  /\ Good(Patched(s, k, w)) /\ Patched(s, k, w).list = s.list
         /\ Patched(s, k, w).gen = s.gen /\ Patched(s, k, w).status = s.status
         /\ Patched(s, k, w).more = s.more
<1>1. CASE s.list # k
  BY <1>1 DEF Patched
<1>2. CASE s.list = k
  <2>1. s \in StateSet /\ s.pages \in Seq(Page) /\ Own(s.pages, s.list) /\ Distinct(s.pages)
    BY DEF Good, StateSet
  <2> DEFINE p == PatchPages(s.pages, w)
  <2>2. /\ p \in Seq(Page) /\ Len(p) = Len(s.pages)
        /\ \A n \in 1..Len(s.pages) : /\ p[n].list = s.pages[n].list
                                      /\ DOMAIN p[n].items = DOMAIN s.pages[n].items
    BY <2>1, PatchedPages
  <2> HIDE DEF p
  <2>3. Own(p, s.list) /\ Distinct(p)
    BY <2>1, <2>2 DEF Own, Distinct
  <2>4. Patched(s, k, w) = [s EXCEPT !.pages = p]
    BY <1>2 DEF Patched, p
  <2>5. /\ [s EXCEPT !.pages = p] \in StateSet /\ [s EXCEPT !.pages = p].pages = p
        /\ [s EXCEPT !.pages = p].list = s.list /\ [s EXCEPT !.pages = p].gen = s.gen
        /\ [s EXCEPT !.pages = p].status = s.status /\ [s EXCEPT !.pages = p].more = s.more
    BY <2>1, <2>2 DEF StateSet
  <2> QED BY <2>3, <2>4, <2>5 DEF Good
<1> QED BY <1>1, <1>2

\* PAGE_SUCCEEDED of a first page.
LEMMA GoodReplaced ==
  ASSUME NEW s, Good(s), NEW a \in AnswerSet, a.list = s.list
  PROVE  /\ Good(Replaced(s, a)) /\ Replaced(s, a).list = s.list
         /\ Replaced(s, a).gen = s.gen /\ Replaced(s, a).status = "idle"
<1>1. a.cursor \in Nat /\ a.more \in BOOLEAN /\ s \in StateSet
  BY DEF AnswerSet, Good
<1>2. PICK q \in Page : q = PageOf(a) /\ q.list = s.list
  BY PageOfAnswer
<1>3. PICK p \in Seq(Page) : p = <<q>> /\ Len(p) = 1 /\ p[1] = q
  <2>1. <<q>> \in Seq(Page) /\ Len(<<q>>) = 1 /\ <<q>>[1] = q
    OBVIOUS
  <2> QED BY <2>1, Zenon
<1>4. Own(p, s.list) /\ Distinct(p)
  BY <1>2, <1>3 DEF Own, Distinct
<1> DEFINE t == [s EXCEPT !.pages = p, !.cursor = a.cursor, !.more = a.more]
<1>5. t \in StateSet /\ t.list = s.list /\ t.gen = s.gen /\ t.pages = p
  BY <1>1 DEF StateSet
<1>6. Replaced(s, a) = Settled(t)
  BY <1>2, <1>3 DEF Replaced
<1> HIDE DEF t
<1> QED BY <1>4, <1>5, <1>6, GoodBuffer

\* PAGE_SUCCEEDED of an append: the new page comes without what is listed already.
LEMMA GoodAppended ==
  ASSUME NEW s, Good(s), NEW a \in AnswerSet, a.list = s.list
  PROVE  /\ Good(Appended(s, a)) /\ Appended(s, a).list = s.list
         /\ Appended(s, a).gen = s.gen /\ Appended(s, a).status = "idle"
<1>1. a.cursor \in Nat /\ s \in StateSet /\ s.pages \in Seq(Page)
      /\ Own(s.pages, s.list) /\ Distinct(s.pages)
  BY DEF AnswerSet, Good, StateSet
<1>2. Len(s.pages) \in Nat /\ DOMAIN s.pages = 1..Len(s.pages)
      /\ Cardinality(DOMAIN s.pages) = Len(s.pages)
  BY <1>1, PagesCard
<1>3. PICK q \in Page : /\ q = Fresh(PageOf(a), Ids(s.pages)) /\ q.list = s.list
                        /\ DOMAIN q.items \cap Ids(s.pages) = {}
  <2>1. PageOf(a) \in Page /\ PageOf(a).list = s.list
    BY PageOfAnswer
  <2> QED BY <2>1, FreshPage
<1>4. PICK b \in BOOLEAN : b = (a.more /\ (DOMAIN q.items # {} \/ a.cursor # s.cursor))
  <2>1. (a.more /\ (DOMAIN q.items # {} \/ a.cursor # s.cursor)) \in BOOLEAN
    OBVIOUS
  <2> QED BY <2>1
<1> DEFINE p == [m \in 1..(Cardinality(DOMAIN s.pages) + 1) |->
                  IF m <= Cardinality(DOMAIN s.pages) THEN s.pages[m] ELSE q]
<1>5. /\ p \in Seq(Page) /\ Len(p) = Len(s.pages) + 1 /\ p[Len(s.pages) + 1] = q
      /\ \A m \in 1..Len(s.pages) : p[m] = s.pages[m]
  <2>1. p = [m \in 1..(Len(s.pages) + 1) |-> IF m <= Len(s.pages) THEN s.pages[m] ELSE q]
    BY <1>2
  <2>2. \A m \in 1..(Len(s.pages) + 1) : (IF m <= Len(s.pages) THEN s.pages[m] ELSE q) \in Page
    BY <1>1, <1>2
  <2> HIDE DEF p
  <2> QED BY <1>2, <2>1, <2>2
<1> DEFINE t == [s EXCEPT !.pages = p, !.cursor = a.cursor, !.more = b]
<1>6. Appended(s, a) = Settled(t)
  BY <1>3, <1>4 DEF Appended
<1> HIDE DEF p
<1>7. \A m \in 1..Len(s.pages) : DOMAIN p[m].items \subseteq Ids(s.pages)
  BY <1>2, <1>5 DEF Ids
<1>8. \A m \in 1..Len(p) : m \in 1..Len(s.pages) \/ m = Len(s.pages) + 1
  BY <1>2, <1>5
<1>9. Own(p, s.list)
  BY <1>1, <1>3, <1>5, <1>8 DEF Own
<1>10. Distinct(p)
  BY <1>1, <1>3, <1>5, <1>7, <1>8 DEF Distinct
<1>11. t \in StateSet /\ t.list = s.list /\ t.gen = s.gen /\ t.pages = p
  BY <1>1, <1>5 DEF StateSet
<1> HIDE DEF t
<1> QED BY <1>6, <1>9, <1>10, <1>11, GoodBuffer

\* BUFFER_SUCCEEDED: the pages of a refresh.
LEMMA GoodBuffered ==
  ASSUME NEW s, Good(s), NEW p \in Seq(Page), Own(p, s.list), NEW a \in AnswerSet
  PROVE  /\ Good(Buffered(s, p, a)) /\ Buffered(s, p, a).list = s.list
         /\ Buffered(s, p, a).gen = s.gen /\ Buffered(s, p, a).status = "idle"
<1>1. a.cursor \in Nat /\ a.more \in BOOLEAN /\ s \in StateSet
  BY DEF AnswerSet, Good
<1>2. PICK u \in Seq(Page) : u = Unique(p) /\ Own(u, s.list) /\ Distinct(u)
  <2>1. Unique(p) \in Seq(Page) /\ Own(Unique(p), s.list) /\ Distinct(Unique(p))
    BY UniquePages DEF Own
  <2> QED BY <2>1, Zenon
<1> DEFINE t == [s EXCEPT !.pages = u, !.cursor = a.cursor, !.more = a.more]
<1>3. t \in StateSet /\ t.list = s.list /\ t.gen = s.gen /\ t.pages = u
  BY <1>1 DEF StateSet
<1>4. Buffered(s, p, a) = Settled(t)
  BY <1>2 DEF Buffered
<1> HIDE DEF t
<1> QED BY <1>2, <1>3, <1>4, GoodBuffer

-----------------------------------------------------------------------------
(* The snapshot store. *)

\* The snapshot of a well-formed buffer.
LEMMA GoodSnapshot ==
  ASSUME NEW s, Good(s)
  PROVE  GoodSnap(Snapshot(s), s.list) /\ Snapshot(s).more = s.more
BY DEF Good, StateSet, Snapshot, GoodSnap, SnapSet

\* What a save leaves is well-formed, whatever is evicted or refused.
LEMMA GoodSaves ==
  ASSUME NEW s, GoodStore(s), NEW k \in Lists, NEW x, GoodSnap(x, k), NEW t \in Saves(s, k, x)
  PROVE  GoodStore(t) /\ \A j \in Lists : t[j] \in {s[j], None} \/ (j = k /\ t[j] = x)
<1>1. PICK kept : t = Keep(s, kept) \/ t = [Keep(s, kept) EXCEPT ![k] = x]
  BY DEF Saves
<1>2. t \in [Lists -> SnapSet \cup {None}]
  BY <1>1 DEF Keep, GoodStore, GoodSnap
<1>3. \A j \in Lists : t[j] \in {s[j], None} \/ (j = k /\ t[j] = x)
  BY <1>1 DEF Keep
<1> QED BY <1>2, <1>3 DEF GoodStore

\* What a patch leaves in the store.
LEMMA GoodPatches ==
  ASSUME GoodStore(store), NEW i \in Items, NEW v \in Versions, NEW t \in Patches(i, v)
  PROVE  GoodStore(t) /\ \A j \in Lists : t[j] # None => store[j] # None /\ t[j].more = store[j].more
<1> DEFINE w == PatchOf(i, v)
<1>1. w \in [Items -> Versions]
  BY DEF PatchOf, NoPatch, Versions
<1> HIDE DEF w
<1>2. ASSUME NEW kept, t = Keep(store, kept)
      PROVE  GoodStore(t) /\ \A j \in Lists : t[j] # None => store[j] # None /\ t[j].more = store[j].more
  BY <1>2 DEF Keep, GoodStore
<1>3. ASSUME NEW kept \in SUBSET {k \in Lists : store[k] # None},
             t = [k \in Lists |-> IF k \notin kept THEN None
                     ELSE [store[k] EXCEPT !.pages = PatchPages(store[k].pages, w)]]
      PROVE  GoodStore(t) /\ \A j \in Lists : t[j] # None => store[j] # None /\ t[j].more = store[j].more
  <2>1. ASSUME NEW k \in kept
        PROVE  /\ GoodSnap([store[k] EXCEPT !.pages = PatchPages(store[k].pages, w)], k)
               /\ [store[k] EXCEPT !.pages = PatchPages(store[k].pages, w)].more = store[k].more
    <3>1. PICK x \in SnapSet : x = store[k] /\ x.pages \in Seq(Page) /\ Own(x.pages, k) /\ Distinct(x.pages)
      BY DEF GoodStore, GoodSnap, SnapSet
    <3>2. PICK p \in Seq(Page) : p = PatchPages(x.pages, w) /\ Own(p, k) /\ Distinct(p)
      <4> DEFINE p == PatchPages(x.pages, w)
      <4>1. /\ p \in Seq(Page) /\ Len(p) = Len(x.pages)
            /\ \A n \in 1..Len(x.pages) : /\ p[n].list = x.pages[n].list
                                          /\ DOMAIN p[n].items = DOMAIN x.pages[n].items
        BY <1>1, <3>1, PatchedPages
      <4> HIDE DEF p
      <4>2. Own(p, k) /\ Distinct(p)
        BY <3>1, <4>1 DEF Own, Distinct
      <4> QED BY <4>1, <4>2 DEF p
    <3>3. /\ [x EXCEPT !.pages = p] \in SnapSet /\ [x EXCEPT !.pages = p].pages = p
          /\ [x EXCEPT !.pages = p].more = x.more
      BY DEF SnapSet
    <3> QED BY <3>1, <3>2, <3>3 DEF GoodSnap
  <2> DEFINE new(k) == [store[k] EXCEPT !.pages = PatchPages(store[k].pages, w)]
  <2>2. \A k \in kept : GoodSnap(new(k), k) /\ new(k).more = store[k].more
    BY <2>1
  <2>3. t = [k \in Lists |-> IF k \notin kept THEN None ELSE new(k)]
    BY <1>3
  <2> HIDE DEF new
  <2> QED BY <2>2, <2>3 DEF GoodStore, GoodSnap
<1>4. \/ \E kept \in SUBSET {k \in Lists : store[k] # None} :
           t = [k \in Lists |-> IF k \notin kept THEN None
                  ELSE [store[k] EXCEPT !.pages = PatchPages(store[k].pages, w)]]
      \/ \E kept : t = Keep(store, kept)
  BY DEF Patches, w
<1> QED BY <1>2, <1>3, <1>4

\* What a cleanup or a checkpoint of a mounted list leaves.
LEMMA GoodSavesOf ==
  ASSUME GoodStore(store), NEW s, Good(s), NEW k \in Lists, s.list = k, NEW t \in SavesOf(s, k)
  PROVE  /\ GoodStore(t)
         /\ \A j \in Lists : t[j] \in {store[j], None} \/ (j = k /\ t[j].more = s.more)
<1>1. CASE s.pages = <<>>
  BY <1>1 DEF SavesOf
<1>2. CASE s.pages # <<>>
  BY <1>2, GoodSaves, GoodSnapshot DEF SavesOf
<1> QED BY <1>1, <1>2

\* Ages are natural numbers.
LEMMA TouchedType ==
  ASSUME NEW a \in [Lists -> Nat], NEW k \in Lists
  PROVE  Touched(a, k) \in [Lists -> Nat]
BY DEF Touched

-----------------------------------------------------------------------------
(* The inductive invariant. *)

\* Types of what is neither a buffer nor a request.  A call under way counts as a
\* toggle, so versions stay below the bound on steps.
CountInv ==
  /\ source \in Sources /\ wanted \in Names /\ key \in Names /\ ready \in BOOLEAN
  /\ gen \in Nat /\ inflight \in {0, gen}
  /\ replay \in [gen : Nat, updates : [Items -> Versions]] /\ replay.gen <= gen
  /\ age \in [Lists -> Nat] /\ version \in [Items -> Nat] /\ published \in [Items -> Versions]
  /\ toggle \in [Items -> {"idle", "sent", "answered"}] /\ steps \in 0..MaxSteps
  /\ \A i \in Items : version[i] + (IF toggle[i] = "sent" THEN 1 ELSE 0) <= steps

\* The buffer is that of the list of the last commit.
BufferInv ==
  \A s \in {live, shown} : Good(s) /\ s.list = key /\ s.gen <= gen

\* A request of the current generation is for the list of the last commit, even if
\* a job event sent it in the name of the list that was left.
FlightsOK(fs, g, k) ==
  \A f \in fs : /\ GoodFlight(f) /\ f.gen <= g /\ f.list \notin Ephemeral
                /\ f.gen = g => f.list = k
FlightInv == FlightsOK(flights, gen, key)

\* The snapshot of a list that cannot be fetched again says that there is no more.
StoreOK(s) == GoodStore(s) /\ \A k \in Ephemeral : s[k] # None => ~s[k].more

\* And so does its buffer, in which nothing is loading and nothing has failed.
EphemeralInv ==
  key \in Ephemeral /\ ready => \A s \in {live, shown} : ~s.more /\ s.status = "idle"

\* A list that is loading waits for the request of the current generation.  A list
\* that does not load by itself gives it up when it is left.
LoadInv ==
  /\ key = None => live.status # "loading"
  /\ live.status = "loading" /\ (wanted = key \/ AutoLoad) =>
       \E f \in flights : f.gen = gen /\ live.gen = gen /\ f.key = key /\ ~f.aborted

BrowseInv == CountInv /\ BufferInv /\ FlightInv /\ StoreOK(store) /\ EphemeralInv

\* A version fits the type of an item.
LEMMA VersionType == CountInv => version \in [Items -> Versions]
BY DEF CountInv, Versions

-----------------------------------------------------------------------------
(* Requests that start and requests that are aborted. *)

\* An aborted request stays what it is.
LEMMA GoodAborted ==
  ASSUME \A f \in flights : GoodFlight(f), NEW h \in Aborted(flights)
  PROVE  /\ GoodFlight(h) /\ h.aborted
         /\ \E f \in flights : h.gen = f.gen /\ h.key = f.key /\ h.list = f.list
<1>1. PICK f \in flights : h = [f EXCEPT !.aborted = TRUE]
  BY DEF Aborted
<1>2. f \in FlightSet /\ f.gen > 0 /\ Own(f.pages, f.list)
      /\ (f.reply \notin {NoReply, Failure} => f.reply.list = f.list)
  BY DEF GoodFlight
<1>3. /\ h \in FlightSet /\ h.gen = f.gen /\ h.key = f.key /\ h.list = f.list
      /\ h.pages = f.pages /\ h.reply = f.reply /\ h.aborted
  BY <1>1, <1>2 DEF FlightSet
<1> QED BY <1>2, <1>3 DEF GoodFlight

\* A new request has no page and no reply yet.
LEMMA GoodNew ==
  ASSUME CountInv, NEW g \in Nat, g > 0, NEW k \in Lists, NEW l \in Lists, NEW plan \in PlanSet
  PROVE  LET f == Flight(g, k, l, plan)
         IN  GoodFlight(f) /\ f.gen = g /\ f.key = k /\ f.list = l /\ ~f.aborted
<1>1. plan.cursor \in Nat
  BY DEF PlanSet
<1>2. << >> \in Seq(Page) /\ Len(<< >>) = 0
  OBVIOUS
<1>3. published \in [Items -> Versions]
  BY DEF CountInv
<1> QED BY <1>1, <1>2, <1>3 DEF Flight, FlightSet, GoodFlight, Own

\* A request is sent and the one before it aborted.
LEMMA RequestStep ==
  ASSUME CountInv, FlightInv, NEW g \in Nat, g > gen, NEW k \in Lists, NEW l \in Lists \ Ephemeral,
         NEW plan \in PlanSet, NEW s, Good(s), Request(g, k, l, plan, s)
  PROVE  /\ FlightsOK(flights', gen', l)
         /\ gen' = g /\ inflight' = gen'
         /\ replay' \in [gen : Nat, updates : [Items -> Versions]] /\ replay'.gen <= gen'
         /\ Good(live') /\ live'.list = s.list /\ live'.gen = gen' /\ live'.status = "loading"
         /\ \E f \in flights' : f.gen = gen' /\ f.key = k /\ ~f.aborted
<1> DEFINE n == Flight(g, k, l, plan)
<1>1. gen' = g /\ inflight' = g /\ replay' = [gen |-> g, updates |-> NoPatch]
      /\ flights' = Aborted(flights) \cup {n} /\ live' = Started(s, g)
  BY DEF Request
<1>2. gen \in Nat /\ g > 0
  BY DEF CountInv
<1>3. GoodFlight(n) /\ n.gen = g /\ n.key = k /\ n.list = l /\ ~n.aborted
  BY <1>2, GoodNew
<1> HIDE DEF n
<1>4. \A f \in flights : GoodFlight(f) /\ f.gen <= gen /\ f.gen \in Nat /\ f.list \notin Ephemeral
  BY DEF FlightInv, FlightsOK, GoodFlight, FlightSet
<1>5. \A h \in Aborted(flights) :
        GoodFlight(h) /\ h.gen <= gen /\ h.gen \in Nat /\ h.list \notin Ephemeral
  BY <1>4, GoodAborted
<1>6. FlightsOK(flights', gen', l)
  BY <1>1, <1>2, <1>3, <1>5 DEF FlightsOK
<1>7. NoPatch \in [Items -> Versions]
  BY DEF NoPatch, Versions
<1>8. Good(live') /\ live'.list = s.list /\ live'.gen = g /\ live'.status = "loading"
  BY <1>1, GoodStarted
<1> QED BY <1>1, <1>3, <1>6, <1>7, <1>8

\* All requests are aborted and belong to an earlier generation.
LEMMA AbortStep ==
  ASSUME CountInv, FlightInv, NEW g \in Nat, g > gen, AbortInflight(g), NEW k
  PROVE  /\ FlightsOK(flights', gen', k)
         /\ gen' = g /\ inflight' = 0 /\ replay' = replay
<1>1. gen' = g /\ inflight' = 0 /\ flights' = Aborted(flights) /\ replay' = replay
  BY DEF AbortInflight
<1>2. \A f \in flights : GoodFlight(f) /\ f.gen <= gen /\ f.gen \in Nat /\ f.list \notin Ephemeral
  BY DEF FlightInv, FlightsOK, GoodFlight, FlightSet
<1>3. \A h \in Aborted(flights) :
        GoodFlight(h) /\ h.gen <= gen /\ h.gen \in Nat /\ h.list \notin Ephemeral
  BY <1>2, GoodAborted
<1> QED BY <1>1, <1>3 DEF CountInv, FlightsOK

-----------------------------------------------------------------------------
(* One lemma per kind of step. *)

\* The tombstone of an expired snapshot.
LEMMA GoodTombstone == \A k : GoodSnap(Tombstone, k) /\ ~Tombstone.more
<1>1. << >> \in Seq(Page) /\ Len(<< >>) = 0
  OBVIOUS
<1> QED BY <1>1 DEF Tombstone, GoodSnap, SnapSet, Own, Distinct

\* A list is entered: restored, expired, loaded, or refreshed by a job event.
LEMMA EnterStep ==
  ASSUME BrowseInv, NEW k \in Lists, NEW s, StoreOK(s), NEW open \in BOOLEAN, NEW job \in BOOLEAN,
         job => open /\ k \notin Ephemeral /\ key \in Lists,
         Enter(k, s, open, job)
  PROVE  /\ key' = k /\ ready' = open /\ age' \in [Lists -> Nat]
         /\ gen' \in Nat /\ inflight' \in {0, gen'}
         /\ replay' \in [gen : Nat, updates : [Items -> Versions]] /\ replay'.gen <= gen'
         /\ BufferInv' /\ FlightInv' /\ StoreOK(store') /\ EphemeralInv'
         /\ ~job => LoadInv'
<1> DEFINE new == Empty(k, gen + 1)
           in  == IF ~open THEN new
                  ELSE IF Restorable(s, k) THEN Hydrated(new, s[k])
                  ELSE IF Dead(s, k) THEN Expired(new) ELSE new
           load == open /\ ~Restorable(s, k) /\ ~Dead(s, k) /\ AutoLoad
<1>0. gen \in Nat /\ gen + 1 \in Nat /\ gen + 2 \in Nat /\ k \in Names
  BY DEF BrowseInv, CountInv, Names
<1>1. key' = k /\ ready' = open
  BY DEF Enter
<1>2. age' \in [Lists -> Nat]
  <2>1. age \in [Lists -> Nat]
    BY DEF BrowseInv, CountInv
  <2>2. age' = age \/ age' = Touched(age, k)
    BY DEF Enter
  <2> QED BY <2>1, <2>2, TouchedType
<1>3. StoreOK(store')
  <2>1. store' = s \/ (s[k] # None /\ store' = [s EXCEPT ![k] = Tombstone])
    BY DEF Enter
  <2>2. CASE s[k] # None /\ store' = [s EXCEPT ![k] = Tombstone]
    BY <2>2, GoodTombstone DEF StoreOK, GoodStore, GoodSnap
  <2> QED BY <2>1, <2>2
<1>4. Good(new) /\ new.list = k /\ new.gen = gen + 1 /\ new.status = "idle"
  BY <1>0, GoodEmpty
<1>5. s[k] # None => GoodSnap(s[k], k) /\ (k \in Ephemeral => ~s[k].more)
  BY DEF StoreOK, GoodStore
<1>6. s[k] # None => s[k].lapsed \in BOOLEAN
  BY <1>5 DEF GoodSnap, SnapSet
<1>7. open => Restorable(s, k) \/ Dead(s, k) \/ k \notin Ephemeral
  BY <1>6 DEF Restorable, Dead
<1>8. /\ job => Request(gen + 2, shown.list, k, Plan("refresh", 0, LoadedDepth), in)
      /\ ~job /\ load => Request(gen + 2, k, k, Plan("initial", 0, 1), in)
      /\ ~job /\ ~load => live' = in /\ AbortInflight(gen + 1)
      /\ shown' = live'
  BY DEF Enter
<1>9. /\ Good(in) /\ in.list = k /\ in.gen = gen + 1 /\ in.status = "idle"
      /\ open /\ k \in Ephemeral => ~in.more
  <2> HIDE DEF new
  <2>1. CASE ~open
    BY <1>4, <2>1
  <2>2. CASE open /\ Restorable(s, k)
    <3>1. /\ Good(Hydrated(new, s[k])) /\ Hydrated(new, s[k]).list = k
          /\ Hydrated(new, s[k]).gen = gen + 1 /\ Hydrated(new, s[k]).status = "idle"
          /\ Hydrated(new, s[k]).more = s[k].more
      BY <1>4, <1>5, <2>2, GoodHydrated DEF Restorable
    <3>2. k \in Ephemeral => ~s[k].more
      BY <1>5, <2>2 DEF Restorable
    <3> QED BY <2>2, <3>1, <3>2
  <2>3. CASE open /\ ~Restorable(s, k) /\ Dead(s, k)
    <3>1. /\ Good(Expired(new)) /\ Expired(new).list = k /\ Expired(new).gen = gen + 1
          /\ Expired(new).status = "idle" /\ Expired(new).more = FALSE
      BY <1>4, GoodExpired
    <3> QED BY <2>3, <3>1
  <2>4. CASE open /\ ~Restorable(s, k) /\ ~Dead(s, k)
    BY <1>4, <1>7, <2>4
  <2> QED BY <2>1, <2>2, <2>3, <2>4
<1> HIDE DEF in, new, load
<1>10. CASE ~job /\ ~load
  <2>1. live' = in /\ shown' = in /\ AbortInflight(gen + 1)
    BY <1>8, <1>9, <1>10
  <2>2. FlightsOK(flights', gen', k) /\ gen' = gen + 1 /\ inflight' = 0 /\ replay' = replay
    BY <1>0, <2>1, AbortStep DEF BrowseInv
  <2>3. replay \in [gen : Nat, updates : [Items -> Versions]] /\ replay.gen <= gen /\ replay.gen \in Nat
    BY DEF BrowseInv, CountInv
  <2>4. BufferInv'
    BY <1>0, <1>1, <1>9, <2>1, <2>2 DEF BufferInv
  <2>5. EphemeralInv'
    BY <1>1, <1>9, <2>1 DEF EphemeralInv
  <2>6. FlightInv'
    BY <1>1, <2>2 DEF FlightInv
  <2>7. LoadInv'
    BY <1>9, <2>1 DEF LoadInv
  <2> QED BY <1>0, <1>1, <1>2, <1>3, <2>2, <2>3, <2>4, <2>5, <2>6, <2>7
<1>11. CASE job \/ load
  <2>1. PICK i \in Lists, plan \in PlanSet : Request(gen + 2, i, k, plan, in) /\ (~job => i = k)
    <3>1. CASE job
      <4>1. LoadedDepth \in Nat \ {0}
        <5>1. shown.pages \in Seq(Page)
          BY DEF BrowseInv, BufferInv, Good, StateSet
        <5>2. shown.pages # <<>> => Len(shown.pages) # 0
          BY <5>1
        <5> QED BY <5>1, <5>2, PagesCard DEF LoadedDepth
      <4>2. Plan("refresh", 0, LoadedDepth) \in PlanSet
        BY <4>1 DEF Plan, PlanSet
      <4>3. shown.list \in Lists
        BY <3>1 DEF BrowseInv, BufferInv
      <4> QED BY <1>8, <1>9, <3>1, <4>2, <4>3
    <3>2. CASE ~job /\ load
      <4>1. Plan("initial", 0, 1) \in PlanSet
        BY DEF Plan, PlanSet
      <4> QED BY <1>8, <1>9, <3>2, <4>1
    <3> QED BY <1>11, <3>1, <3>2
  <2>2. k \notin Ephemeral
    BY <1>7, <1>11 DEF load
  <2>3. /\ FlightsOK(flights', gen', k) /\ gen' = gen + 2 /\ inflight' = gen'
        /\ replay' \in [gen : Nat, updates : [Items -> Versions]] /\ replay'.gen <= gen'
        /\ Good(live') /\ live'.list = k /\ live'.gen = gen'
        /\ \E f \in flights' : f.gen = gen' /\ f.key = i /\ ~f.aborted
    BY <1>0, <1>9, <2>1, <2>2, RequestStep DEF BrowseInv
  <2>4. BufferInv'
    BY <1>0, <1>1, <1>8, <2>3 DEF BufferInv
  <2>5. EphemeralInv'
    BY <1>1, <2>2 DEF EphemeralInv
  <2>6. FlightInv'
    BY <1>1, <2>3 DEF FlightInv
  <2>7. ~job => LoadInv'
    BY <1>1, <2>1, <2>3 DEF LoadInv
  <2> QED BY <1>0, <1>1, <1>2, <1>3, <2>3, <2>4, <2>5, <2>6, <2>7
<1> QED BY <1>10, <1>11

\* What a save leaves says of the lists that cannot be fetched again what it should.
LEMMA StoreSaves ==
  ASSUME StoreOK(store), NEW k \in Lists, NEW x, GoodSnap(x, k), k \in Ephemeral => ~x.more,
         NEW t \in Saves(store, k, x)
  PROVE  StoreOK(t)
<1>1. GoodStore(t) /\ \A j \in Lists : t[j] \in {store[j], None} \/ (j = k /\ t[j] = x)
  BY GoodSaves DEF StoreOK
<1> QED BY <1>1 DEF StoreOK

\* The mounted list is saved.
LEMMA StoreShown ==
  ASSUME BrowseInv, Open, NEW t \in Saves(store, key, Snapshot(shown))
  PROVE  StoreOK(t)
<1>1. key \in Lists /\ Good(shown) /\ shown.list = key /\ (key \in Ephemeral => ~shown.more)
  BY DEF BrowseInv, CountInv, BufferInv, EphemeralInv, Open, Names
<1>2. GoodSnap(Snapshot(shown), key) /\ Snapshot(shown).more = shown.more
  BY <1>1, GoodSnapshot
<1> QED BY <1>1, <1>2, StoreSaves DEF BrowseInv

\* The cleanup of a list that is left.
LEMMA StoreLeft ==
  ASSUME BrowseInv, Open, NEW t \in SavesOf(shown, key)
  PROVE  StoreOK(t)
BY StoreShown DEF SavesOf, BrowseInv

\* The cleanup of a page or a tab that goes away.
LEMMA LeaveStep ==
  ASSUME BrowseInv, key \in Lists, NEW open \in BOOLEAN, Leave(open)
  PROVE  StoreOK(store') /\ age' \in [Lists -> Nat] /\ ready' = open
<1>1. StoreOK(store')
  <2>1. CASE ready
    BY <2>1, StoreLeft DEF Leave, Open
  <2>2. CASE ~ready
    BY <2>2 DEF Leave, BrowseInv
  <2> QED BY <2>1, <2>2
<1>2. age' \in [Lists -> Nat]
  BY TouchedType DEF Leave, BrowseInv, CountInv
<1> QED BY <1>1, <1>2 DEF Leave

\* What the server has does not change: neither do its types.
LEMMA ServerStep ==
  ASSUME CountInv, UNCHANGED <<version, toggle>>, UNCHANGED published \/ published' \in [Items -> Versions],
         UNCHANGED steps \/ Step
  PROVE  /\ version' \in [Items -> Nat] /\ published' \in [Items -> Versions]
         /\ toggle' \in [Items -> {"idle", "sent", "answered"}] /\ steps' \in 0..MaxSteps
         /\ \A i \in Items : version'[i] + (IF toggle'[i] = "sent" THEN 1 ELSE 0) <= steps'
BY DEF CountInv, Step

\* loadMore, refresh and retry.
LEMMA SendStep ==
  ASSUME BrowseInv, Open, Step, key \notin Ephemeral, NEW plan \in PlanSet,
         Request(gen + 1, shown.list, key, plan, live), UNCHANGED <<page, shown, saved, server>>
  PROVE  BrowseInv'
<1>1. key \in Lists /\ gen \in Nat /\ Good(live) /\ live.list = key /\ shown.list = key
  BY DEF BrowseInv, CountInv, BufferInv, Open, Names
<1>2. /\ FlightsOK(flights', gen', key) /\ gen' = gen + 1 /\ inflight' = gen'
      /\ replay' \in [gen : Nat, updates : [Items -> Versions]] /\ replay'.gen <= gen'
      /\ Good(live') /\ live'.list = key /\ live'.gen = gen'
  BY <1>1, RequestStep DEF BrowseInv
<1>3. CountInv'
  BY <1>1, <1>2, ServerStep DEF server, BrowseInv, CountInv, page, saved
<1>4. BufferInv'
  <2>1. Good(shown) /\ shown.list = key /\ shown.gen <= gen /\ shown.gen \in Nat
    BY DEF BrowseInv, BufferInv, Good, StateSet
  <2>2. shown' = shown /\ key' = key
    BY DEF page
  <2> QED BY <1>1, <1>2, <2>1, <2>2 DEF BufferInv
<1>5. FlightInv' /\ EphemeralInv'
  BY <1>2 DEF FlightInv, EphemeralInv, page
<1>6. StoreOK(store)'
  BY DEF BrowseInv, StoreOK, GoodStore, saved
<1> QED BY <1>3, <1>4, <1>5, <1>6 DEF BrowseInv

\* An ephemeral list is neither loaded nor refreshed nor retried.
LEMMA UserRequests == BrowseInv /\ (LoadMore \/ Refresh \/ Retry) => BrowseInv'
<1> SUFFICES ASSUME BrowseInv, LoadMore \/ Refresh \/ Retry PROVE BrowseInv'
  OBVIOUS
<1>1. shown \in StateSet /\ shown.failed \in PlanSet /\ shown.cursor \in Nat /\ shown.pages \in Seq(Page)
  BY DEF BrowseInv, BufferInv, Good, StateSet
<1>2. CASE LoadMore
  <2>1. key \notin Ephemeral
    BY <1>2 DEF LoadMore, Open, BrowseInv, EphemeralInv
  <2>2. Plan("initial", 0, 1) \in PlanSet /\ Plan("append", shown.cursor, 1) \in PlanSet
    BY <1>1 DEF Plan, PlanSet
  <2>3. PICK plan \in PlanSet : Request(gen + 1, shown.list, key, plan, live)
    BY <1>1, <1>2, <2>2 DEF LoadMore
  <2> QED BY <1>2, <2>1, <2>3, SendStep DEF LoadMore
<1>3. CASE Refresh
  <2>1. LoadedDepth \in Nat \ {0}
    <3>1. shown.pages # <<>> => Len(shown.pages) # 0
      BY <1>1
    <3> QED BY <1>1, <3>1, PagesCard DEF LoadedDepth
  <2>2. PICK plan \in PlanSet : Request(gen + 1, shown.list, key, plan, live)
    <3>1. Plan("refresh", 0, LoadedDepth) \in PlanSet /\ Plan("refresh", 0, 1) \in PlanSet
      BY <2>1 DEF Plan, PlanSet
    <3>2. \/ Request(gen + 1, shown.list, key, Plan("refresh", 0, LoadedDepth), live)
          \/ Request(gen + 1, shown.list, key, Plan("refresh", 0, 1), live)
      BY <1>3 DEF Refresh
    <3> QED BY <3>1, <3>2
  <2> QED BY <1>3, <2>2, SendStep DEF Refresh
<1>4. CASE Retry
  BY <1>1, <1>4, SendStep DEF Retry
<1> QED BY <1>2, <1>3, <1>4

\* The store is saved, touched or lapses; nothing else changes.
LEMMA StoreStep ==
  ASSUME BrowseInv, StoreOK(store'), age' \in [Lists -> Nat],
         UNCHANGED <<page, buffer, server>>, UNCHANGED steps \/ Step
  PROVE  BrowseInv'
<1>1. CountInv'
  BY ServerStep DEF server, BrowseInv, CountInv, page, buffer
<1>2. BufferInv' /\ FlightInv' /\ EphemeralInv'
  BY DEF BrowseInv, BufferInv, FlightInv, EphemeralInv, page, buffer
<1> QED BY <1>1, <1>2 DEF BrowseInv

\* Another list is asked for; the request in flight may be aborted.
LEMMA AskStep ==
  ASSUME BrowseInv, wanted' \in Names, StoreOK(store'), age' \in [Lists -> Nat], Step,
         UNCHANGED buffer \/ (AbortInflight(gen + 1) /\ UNCHANGED <<live, shown>>),
         UNCHANGED <<source, key, ready, server>>
  PROVE  BrowseInv'
<1>1. CASE UNCHANGED buffer
  <2>1. CountInv'
    BY <1>1, ServerStep DEF server, BrowseInv, CountInv, buffer
  <2>2. BufferInv' /\ FlightInv' /\ EphemeralInv'
    BY <1>1 DEF BrowseInv, BufferInv, FlightInv, EphemeralInv, buffer
  <2> QED BY <2>1, <2>2 DEF BrowseInv
<1>2. CASE AbortInflight(gen + 1) /\ UNCHANGED <<live, shown>>
  <2>1. gen \in Nat /\ gen + 1 > gen /\ gen + 1 \in Nat
    BY DEF BrowseInv, CountInv
  <2>2. FlightsOK(flights', gen', key) /\ gen' = gen + 1 /\ inflight' = 0 /\ replay' = replay
    BY <1>2, <2>1, AbortStep DEF BrowseInv
  <2>3. CountInv'
    BY <2>1, <2>2, ServerStep DEF server, BrowseInv, CountInv
  <2>4. BufferInv'
    <3>1. \A s \in {live, shown} : Good(s) /\ s.list = key /\ s.gen \in Nat /\ s.gen <= gen
      BY DEF BrowseInv, BufferInv, Good, StateSet
    <3> QED BY <1>2, <2>1, <2>2, <3>1 DEF BufferInv
  <2>5. FlightInv' /\ EphemeralInv'
    BY <1>2, <2>2 DEF BrowseInv, FlightInv, EphemeralInv
  <2> QED BY <2>3, <2>4, <2>5 DEF BrowseInv
<1> QED BY <1>1, <1>2

\* Checkpoints, navigation, lookup results and the expiry of snapshots.
LEMMA UserSaves ==
  ASSUME BrowseInv,
         \/ Checkpoint
         \/ \E k \in Lists \cup {None} : Navigate(k)
         \/ \E k \in Lists : ShowExternal(k) \/ Lapse(k)
  PROVE  BrowseInv'
<1>0. StoreOK(store) /\ age \in [Lists -> Nat]
  BY DEF BrowseInv, CountInv
<1>1. CASE Checkpoint
  <2>1. Open /\ shown.list = key /\ key \in Lists
    BY <1>1 DEF Checkpoint, Open, BrowseInv, BufferInv, CountInv, Names
  <2>2. StoreOK(store') /\ age' \in [Lists -> Nat]
    BY <1>0, <1>1, <2>1, StoreShown, TouchedType DEF Checkpoint
  <2> QED BY <1>1, <2>2, StoreStep DEF Checkpoint
<1>2. ASSUME NEW k \in Lists \cup {None}, Navigate(k) PROVE BrowseInv'
  <2>1. StoreOK(store') /\ age' \in [Lists -> Nat]
    <3>1. CASE UNCHANGED saved
      BY <1>0, <3>1 DEF saved
    <3>2. CASE /\ Open /\ store' \in Saves(store, key, Snapshot(shown)) /\ age' = Touched(age, key)
      <4>1. key \in Lists
        BY <3>2 DEF Open, BrowseInv, CountInv, Names
      <4> QED BY <1>0, <3>2, <4>1, StoreShown, TouchedType
    <3> QED BY <1>2, <3>1, <3>2 DEF Navigate
  <2> QED BY <1>2, <2>1, AskStep DEF Navigate, Names
<1>3. ASSUME NEW k \in Lists, ShowExternal(k) PROVE BrowseInv'
  <2> DEFINE x == [pages |-> <<PageOf(Answer(k, 0, version))>>, cursor |-> 0, more |-> FALSE, lapsed |-> FALSE]
  <2>1. PICK q \in Page : q = PageOf(Answer(k, 0, version)) /\ q.list = k
    <3>1. Answer(k, 0, version) \in AnswerSet /\ Answer(k, 0, version).list = k
      BY AnswerGood, VersionType DEF BrowseInv
    <3> QED BY <3>1, PageOfAnswer
  <2>2. <<q>> \in Seq(Page) /\ Len(<<q>>) = 1 /\ <<q>>[1] = q
    OBVIOUS
  <2>3. GoodSnap(x, k) /\ ~x.more
    BY <2>1, <2>2 DEF GoodSnap, SnapSet, Own, Distinct
  <2>4. store' \in Saves(store, k, x)
    BY <1>3 DEF ShowExternal
  <2> HIDE DEF x
  <2>5. StoreOK(store')
    BY <1>0, <2>3, <2>4, StoreSaves
  <2>6. age' \in [Lists -> Nat]
    BY <1>0, <1>3, TouchedType DEF ShowExternal
  <2> QED BY <1>3, <2>5, <2>6, AskStep DEF ShowExternal, Names
<1>4. ASSUME NEW k \in Lists, Lapse(k) PROVE BrowseInv'
  <2>1. store[k] # None /\ store' = [store EXCEPT ![k].lapsed = TRUE]
    BY <1>4 DEF Lapse
  <2>2. PICK x \in SnapSet : x = store[k] /\ GoodSnap(x, k) /\ (k \in Ephemeral => ~x.more)
    BY <1>0, <2>1 DEF StoreOK, GoodStore, GoodSnap
  <2> DEFINE y == [x EXCEPT !.lapsed = TRUE]
  <2>3. y \in SnapSet /\ y.pages = x.pages /\ y.more = x.more
    BY DEF SnapSet
  <2>4. store' = [store EXCEPT ![k] = y]
    BY <2>1, <2>2
  <2> HIDE DEF y
  <2>5. GoodSnap(y, k)
    BY <2>2, <2>3 DEF GoodSnap
  <2>6. StoreOK(store')
    BY <1>0, <2>2, <2>3, <2>4, <2>5 DEF StoreOK, GoodStore
  <2>7. age' \in [Lists -> Nat]
    BY <1>0, <1>4 DEF Lapse
  <2> QED BY <1>4, <2>6, <2>7, StoreStep DEF Lapse
<1> QED BY <1>1, <1>2, <1>3, <1>4

\* React commits, the page mounts and unmounts, the scope is claimed and released.
LEMMA CommitSteps ==
  ASSUME BrowseInv,
         Commit \/ Mount \/ Unmount \/ ClaimScope \/ ReleaseScope
           \/ \E job \in BOOLEAN : IdentityCommit(job)
  PROVE  BrowseInv'
<1>1. CASE Commit
  <2>1. CountInv'
    BY <1>1, ServerStep DEF server, Commit, BrowseInv, CountInv, page, saved
  <2>2. BufferInv' /\ FlightInv' /\ EphemeralInv' /\ StoreOK(store)'
    BY <1>1 DEF Commit, BrowseInv, BufferInv, FlightInv, EphemeralInv, StoreOK, GoodStore, page, saved
  <2> QED BY <2>1, <2>2 DEF BrowseInv
<1>2. ASSUME NEW k \in Lists, NEW s, StoreOK(s), NEW open \in BOOLEAN, NEW job \in BOOLEAN,
             job => open /\ k \notin Ephemeral /\ key \in Lists,
             Enter(k, s, open, job), UNCHANGED <<source, wanted, server>>, UNCHANGED steps \/ Step
      PROVE  BrowseInv'
  <2>1. /\ key' = k /\ ready' = open /\ age' \in [Lists -> Nat]
        /\ gen' \in Nat /\ inflight' \in {0, gen'}
        /\ replay' \in [gen : Nat, updates : [Items -> Versions]] /\ replay'.gen <= gen'
        /\ BufferInv' /\ FlightInv' /\ StoreOK(store') /\ EphemeralInv'
    BY <1>2, EnterStep
  <2>2. CountInv'
    BY <1>2, <2>1, ServerStep DEF server, BrowseInv, CountInv, Names
  <2> QED BY <2>1, <2>2 DEF BrowseInv
<1>3. CASE Mount
  <2>1. wanted \in Lists /\ StoreOK(store)
    BY <1>3 DEF Mount, BrowseInv, CountInv, Names
  <2> QED BY <1>2, <1>3, <2>1 DEF Mount
<1>4. CASE ClaimScope
  <2>1. key \in Lists /\ StoreOK(store)
    BY <1>4 DEF ClaimScope, BrowseInv, CountInv, Names
  <2> QED BY <1>2, <1>4, <2>1 DEF ClaimScope
<1>5. ASSUME NEW job \in BOOLEAN, IdentityCommit(job) PROVE BrowseInv'
  <2>1. wanted \in Lists /\ key \in Lists /\ key # None /\ ready \in BOOLEAN
    BY <1>5 DEF IdentityCommit, BrowseInv, CountInv, Names
  <2>2. PICK s \in IF ready THEN SavesOf(shown, key) ELSE {store} : Enter(wanted, s, ready, job)
    BY <1>5 DEF IdentityCommit
  <2>3. StoreOK(s)
    <3>1. CASE ready
      BY <2>1, <2>2, <3>1, StoreLeft DEF Open
    <3>2. CASE ~ready
      BY <2>2, <3>2 DEF BrowseInv
    <3> QED BY <3>1, <3>2
  <2>4. job => ready /\ wanted \notin Ephemeral
    BY <1>5 DEF IdentityCommit
  <2>5. UNCHANGED <<source, wanted, server>> /\ (UNCHANGED steps \/ Step)
    BY <1>5 DEF IdentityCommit
  <2> QED BY <1>2, <2>1, <2>2, <2>3, <2>4, <2>5
<1>6. ASSUME NEW k \in Names, key \in Lists, Leave(FALSE), key' = k, AbortInflight(gen + 1),
             live' = Empty(k, gen + 1), shown' = live',
             UNCHANGED <<source, wanted, server>>, UNCHANGED steps \/ Step
      PROVE  BrowseInv'
  <2>1. gen \in Nat /\ gen + 1 > gen /\ gen + 1 \in Nat
    BY DEF BrowseInv, CountInv
  <2>2. StoreOK(store') /\ age' \in [Lists -> Nat] /\ ready' = FALSE
    BY <1>6, LeaveStep
  <2>3. FlightsOK(flights', gen', k) /\ gen' = gen + 1 /\ inflight' = 0 /\ replay' = replay
    BY <1>6, <2>1, AbortStep DEF BrowseInv
  <2>4. CountInv'
    <3>1. /\ version' \in [Items -> Nat] /\ published' \in [Items -> Versions]
          /\ toggle' \in [Items -> {"idle", "sent", "answered"}] /\ steps' \in 0..MaxSteps
          /\ \A i \in Items : version'[i] + (IF toggle'[i] = "sent" THEN 1 ELSE 0) <= steps'
      BY <1>6, ServerStep DEF server, BrowseInv
    <3>2. /\ source' \in Sources /\ wanted' \in Names /\ key' \in Names /\ ready' \in BOOLEAN
      BY <1>6, <2>2 DEF BrowseInv, CountInv
    <3>3. /\ gen' \in Nat /\ inflight' \in {0, gen'} /\ replay'.gen <= gen'
          /\ replay' \in [gen : Nat, updates : [Items -> Versions]]
      BY <2>1, <2>3 DEF BrowseInv, CountInv
    <3> QED BY <2>2, <3>1, <3>2, <3>3 DEF CountInv
  <2>5. BufferInv'
    BY <1>6, <2>1, <2>3, GoodEmpty DEF BufferInv
  <2>6. FlightInv' /\ EphemeralInv'
    BY <1>6, <2>2, <2>3 DEF FlightInv, EphemeralInv
  <2> QED BY <2>2, <2>4, <2>5, <2>6 DEF BrowseInv
<1>7. CASE Unmount
  <2>1. key \in Lists /\ None \in Names
    BY <1>7 DEF Unmount, BrowseInv, CountInv, Names
  <2> QED BY <1>6, <1>7, <2>1 DEF Unmount
<1>8. CASE ReleaseScope
  <2>1. key \in Lists /\ key \in Names
    BY <1>8 DEF ReleaseScope, Open, BrowseInv, CountInv, Names
  <2> QED BY <1>6, <1>8, <2>1 DEF ReleaseScope
<1> QED BY <1>1, <1>3, <1>4, <1>5, <1>7, <1>8

\* The flights change, the rest of the page does not.
LEMMA FlightStep ==
  ASSUME BrowseInv, NEW f \in flights, NEW h, GoodFlight(h), h.gen = f.gen, h.list = f.list,
         flights' = (flights \ {f}) \cup {h},
         UNCHANGED <<page, live, shown, gen, inflight, replay, saved, server, steps>>
  PROVE  BrowseInv'
<1>1. FlightsOK(flights', gen, key)
  BY DEF BrowseInv, FlightInv, FlightsOK
<1>2. CountInv'
  BY ServerStep DEF server, BrowseInv, CountInv, page, saved
<1>3. FlightInv'
  BY <1>1 DEF FlightInv, page
<1>4. BufferInv' /\ EphemeralInv' /\ StoreOK(store)'
  BY DEF BrowseInv, BufferInv, EphemeralInv, StoreOK, GoodStore, page, saved
<1> QED BY <1>2, <1>3, <1>4 DEF BrowseInv

\* The server answers, or the network gives up.
LEMMA ReplyStep == ASSUME BrowseInv, NEW f \in flights, Reply(f) PROVE BrowseInv'
<1>1. GoodFlight(f) /\ f \in FlightSet /\ f.list \in Lists /\ f.cursor \in Nat
  BY DEF BrowseInv, FlightInv, FlightsOK, GoodFlight, FlightSet
<1>2. PICK a \in {Answer(f.list, f.cursor, w) : w \in Earlier} \cup {Failure} :
        flights' = (flights \ {f}) \cup {[f EXCEPT !.reply = a]}
  BY DEF Reply
<1>3. a \in AnswerSet \cup {NoReply, Failure} /\ (a \notin {NoReply, Failure} => a.list = f.list)
  BY <1>1, <1>2, AnswerGood DEF Earlier
<1> DEFINE h == [f EXCEPT !.reply = a]
<1>4. /\ h \in FlightSet /\ h.gen = f.gen /\ h.list = f.list /\ h.pages = f.pages /\ h.reply = a
  BY <1>1, <1>3 DEF FlightSet
<1>5. flights' = (flights \ {f}) \cup {h}
  BY <1>2
<1> HIDE DEF h
<1>6. GoodFlight(h)
  BY <1>1, <1>3, <1>4 DEF GoodFlight
<1> QED BY <1>4, <1>5, <1>6, FlightStep DEF Reply

\* The pages a refresh has so far, with the one that came.
LEMMA GoodGrown ==
  ASSUME NEW f, GoodFlight(f), f.reply \notin {NoReply, Failure}
  PROVE  Grown(f) \in Seq(Page) /\ Own(Grown(f), f.list)
<1>1. /\ f.pages \in Seq(Page) /\ Own(f.pages, f.list)
      /\ f.reply \in AnswerSet /\ f.reply.list = f.list
  BY DEF GoodFlight, FlightSet
<1>2. PICK q \in Page : q = PageOf(f.reply) /\ q.list = f.list
  BY <1>1, PageOfAnswer
<1>3. Len(f.pages) \in Nat /\ Cardinality(DOMAIN f.pages) = Len(f.pages)
  BY <1>1, PagesCard
<1>4. Grown(f) = [m \in 1..(Len(f.pages) + 1) |-> IF m <= Len(f.pages) THEN f.pages[m] ELSE q]
  BY <1>2, <1>3 DEF Grown
<1>5. \A m \in 1..(Len(f.pages) + 1) :
        /\ (IF m <= Len(f.pages) THEN f.pages[m] ELSE q) \in Page
        /\ (IF m <= Len(f.pages) THEN f.pages[m] ELSE q).list = f.list
  BY <1>1, <1>2, <1>3 DEF Own
<1> DEFINE g == Grown(f)
<1>6. g \in Seq(Page) /\ Len(g) = Len(f.pages) + 1
  BY <1>3, <1>4, <1>5
<1>7. \A m \in 1..(Len(f.pages) + 1) : g[m].list = f.list
  BY <1>4, <1>5
<1> QED BY <1>6, <1>7 DEF Own

\* An answer is dropped, is one page of several, ends the request, or is a failure.
LEMMA ReceiveStep == ASSUME BrowseInv, NEW f \in flights, Receive(f) PROVE BrowseInv'
<1>1. /\ GoodFlight(f) /\ f \in FlightSet /\ f.gen \in Nat /\ f.gen <= gen /\ f.list \notin Ephemeral
      /\ f.gen = gen => f.list = key
  BY DEF BrowseInv, FlightInv, FlightsOK, GoodFlight, FlightSet
<1>2. Good(live) /\ live.list = key /\ live.gen <= gen
  BY DEF BrowseInv, BufferInv
<1>3. ASSUME Good(live'), live'.list = key, live'.gen <= gen, live' = live \/ key \notin Ephemeral, End(f),
             published' = published \/ published' \in [Items -> Versions]
      PROVE  BrowseInv'
  <2>1. UNCHANGED <<page, shown, gen, replay, saved, version, toggle, steps>> /\ flights' = flights \ {f}
        /\ inflight' \in {0, inflight}
    BY <1>3 DEF End
  <2>2. CountInv'
    BY <1>3, <2>1, ServerStep DEF server, BrowseInv, CountInv, page, saved
  <2>3. BufferInv'
    BY <1>3, <2>1 DEF BrowseInv, BufferInv, page
  <2>4. FlightInv' /\ StoreOK(store)'
    BY <2>1 DEF BrowseInv, FlightInv, FlightsOK, StoreOK, GoodStore, page, saved
  <2>5. EphemeralInv'
    BY <1>3, <2>1 DEF BrowseInv, EphemeralInv, page
  <2> QED BY <2>2, <2>3, <2>4, <2>5 DEF BrowseInv
<1>4. CASE DropAnswer(f) /\ End(f)
  BY <1>2, <1>3, <1>4 DEF DropAnswer
<1>5. CASE f.reply \notin {NoReply, Failure} /\ ~Stale(f) /\ NextPage(f)
  <2> DEFINE h == [f EXCEPT !.pages = Grown(f), !.cursor = f.reply.cursor, !.reply = NoReply]
  <2>1. Grown(f) \in Seq(Page) /\ Own(Grown(f), f.list)
    BY <1>1, <1>5, GoodGrown
  <2>2. f.reply.cursor \in Nat
    BY <1>1, <1>5 DEF FlightSet, AnswerSet
  <2>3. /\ h \in FlightSet /\ h.gen = f.gen /\ h.list = f.list /\ h.pages = Grown(f) /\ h.reply = NoReply
    BY <1>1, <2>1, <2>2 DEF FlightSet
  <2>4. flights' = (flights \ {f}) \cup {h}
    BY <1>5 DEF NextPage
  <2> HIDE DEF h
  <2>5. GoodFlight(h)
    BY <1>1, <2>1, <2>3 DEF GoodFlight
  <2> QED BY <1>5, <2>3, <2>4, <2>5, FlightStep DEF NextPage
<1>6. CASE f.reply \notin {NoReply, Failure} /\ ~Stale(f) /\ Succeed(f) /\ End(f)
  <2>1. f.list = key /\ key \notin Ephemeral
    BY <1>1, <1>6 DEF Stale
  <2>2. f.reply \in AnswerSet /\ f.reply.list = live.list
    BY <1>1, <1>2, <1>6, <2>1 DEF GoodFlight, FlightSet
  <2>3. Grown(f) \in Seq(Page) /\ Own(Grown(f), live.list)
    BY <1>1, <1>2, <1>6, <2>1, GoodGrown
  <2>4. replay.updates \in [Items -> Versions]
    BY DEF BrowseInv, CountInv
  <2>5. ASSUME NEW s, Good(s), s.list = key, s.gen = live.gen
        PROVE  Good(ReplayOn(s, f)) /\ ReplayOn(s, f).list = key /\ ReplayOn(s, f).gen = live.gen
    BY <2>4, <2>5, GoodPatched DEF ReplayOn
  <2>6. \/ live' = live \/ live' = ReplayOn(Buffered(live, Grown(f), f.reply), f)
        \/ live' = ReplayOn(Appended(live, f.reply), f) \/ live' = ReplayOn(Replaced(live, f.reply), f)
    BY <1>6 DEF Succeed
  <2>7. /\ Good(Buffered(live, Grown(f), f.reply)) /\ Buffered(live, Grown(f), f.reply).list = key
        /\ Buffered(live, Grown(f), f.reply).gen = live.gen
    BY <1>2, <2>2, <2>3, GoodBuffered
  <2>8. /\ Good(Appended(live, f.reply)) /\ Appended(live, f.reply).list = key
        /\ Appended(live, f.reply).gen = live.gen
    BY <1>2, <2>2, GoodAppended
  <2>9. /\ Good(Replaced(live, f.reply)) /\ Replaced(live, f.reply).list = key
        /\ Replaced(live, f.reply).gen = live.gen
    BY <1>2, <2>2, GoodReplaced
  <2>10. Good(live') /\ live'.list = key /\ live'.gen = live.gen
    BY <1>2, <2>5, <2>6, <2>7, <2>8, <2>9
  <2>11. published' \in [Items -> Versions]
    BY <1>6 DEF Succeed, BrowseInv, CountInv, Versions
  <2> QED BY <1>2, <1>3, <1>6, <2>1, <2>10, <2>11
<1>7. CASE f.reply = Failure /\ ~Stale(f) /\ Fail(f) /\ End(f)
  <2>1. key \notin Ephemeral /\ f.plan \in PlanSet
    BY <1>1, <1>7 DEF Stale, FlightSet
  <2>2. Good(live') /\ live'.list = key /\ live'.gen = live.gen
    BY <1>2, <1>7, <2>1, GoodFailed DEF Fail
  <2>3. published' = published
    BY <1>7 DEF Fail
  <2> QED BY <1>2, <1>3, <1>7, <2>1, <2>2, <2>3
<1> QED BY <1>4, <1>5, <1>6, <1>7 DEF Receive

\* A bookmark is toggled, counted, published or lost.
LEMMA PatchSteps ==
  ASSUME BrowseInv, NEW i \in Items, Toggle(i) \/ ServerToggle(i) \/ Publish(i) \/ LosePatch(i)
  PROVE  BrowseInv'
<1>1. CASE Toggle(i) \/ ServerToggle(i) \/ LosePatch(i)
  <2>1. UNCHANGED <<page, buffer, saved>>
    BY <1>1 DEF Toggle, ServerToggle, LosePatch
  <2>2. CountInv'
    <3>1. /\ version' \in [Items -> Nat] /\ published' = published
          /\ toggle' \in [Items -> {"idle", "sent", "answered"}] /\ steps' \in 0..MaxSteps
      BY <1>1 DEF Toggle, ServerToggle, LosePatch, Step, BrowseInv, CountInv
    <3>2. \A j \in Items : version'[j] + (IF toggle'[j] = "sent" THEN 1 ELSE 0) <= steps'
      BY <1>1 DEF Toggle, ServerToggle, LosePatch, Step, BrowseInv, CountInv
    <3> QED BY <2>1, <3>1, <3>2 DEF BrowseInv, CountInv, page, buffer, saved
  <2>3. BufferInv' /\ FlightInv' /\ EphemeralInv' /\ StoreOK(store)'
    BY <2>1 DEF BrowseInv, BufferInv, FlightInv, EphemeralInv, StoreOK, GoodStore, page, buffer, saved
  <2> QED BY <2>2, <2>3 DEF BrowseInv
<1>2. CASE Publish(i)
  <2> DEFINE v == version[i]
  <2>1. v \in Versions
    BY VersionType DEF BrowseInv
  <2>2. /\ store' \in Patches(i, v)
        /\ live' = live \/ live' = Patched(live, key, PatchOf(i, v))
        /\ replay' = replay \/ replay' = [replay EXCEPT !.updates[i] = v]
        /\ published' = [published EXCEPT ![i] = v] /\ toggle' = [toggle EXCEPT ![i] = "idle"]
        /\ UNCHANGED <<page, shown, gen, inflight, flights, age, version, steps>>
    BY <1>2 DEF Publish
  <2>3. PatchOf(i, v) \in [Items -> Versions]
    BY <2>1 DEF PatchOf, NoPatch, Versions
  <2> HIDE DEF v
  <2>4. StoreOK(store')
    <3>1. /\ GoodStore(store')
          /\ \A j \in Lists : store'[j] # None => store[j] # None /\ store'[j].more = store[j].more
      BY <2>1, <2>2, GoodPatches DEF BrowseInv, StoreOK
    <3> QED BY <3>1 DEF BrowseInv, StoreOK
  <2>5. /\ Good(live') /\ live'.list = live.list /\ live'.gen = live.gen
        /\ live'.status = live.status /\ live'.more = live.more
    BY <2>2, <2>3, GoodPatched DEF BrowseInv, BufferInv
  <2>6. CountInv'
    <3>1. replay' \in [gen : Nat, updates : [Items -> Versions]] /\ replay'.gen = replay.gen
      BY <2>1, <2>2 DEF BrowseInv, CountInv
    <3>2. /\ published' \in [Items -> Versions] /\ toggle' \in [Items -> {"idle", "sent", "answered"}]
          /\ \A j \in Items : version[j] + (IF toggle'[j] = "sent" THEN 1 ELSE 0) <= steps
      BY <2>1, <2>2 DEF BrowseInv, CountInv
    <3> QED BY <2>2, <3>1, <3>2 DEF BrowseInv, CountInv, page
  <2>7. BufferInv' /\ FlightInv' /\ EphemeralInv'
    BY <2>2, <2>5 DEF BrowseInv, BufferInv, FlightInv, EphemeralInv, page
  <2> QED BY <2>4, <2>6, <2>7 DEF BrowseInv
<1> QED BY <1>1, <1>2

-----------------------------------------------------------------------------
(* Loading lists. *)

\* loadMore, refresh and retry wait for the request they send.
LEMMA SendLoads ==
  ASSUME BrowseInv, LoadMore \/ Refresh \/ Retry
  PROVE  LoadInv'
<1>1. BrowseInv'
  BY UserRequests
<1>2. PICK plan : Request(gen + 1, shown.list, key, plan, live)
  BY DEF LoadMore, Refresh, Retry
<1>3. key' = key /\ shown.list = key /\ key # None /\ gen \in Nat
  BY DEF LoadMore, Refresh, Retry, Open, page, BrowseInv, BufferInv, CountInv
<1> DEFINE n == Flight(gen + 1, shown.list, key, plan)
<1>4. gen' = gen + 1 /\ flights' = Aborted(flights) \cup {n} /\ live' = Started(live, gen + 1)
  BY <1>2 DEF Request
<1>5. n.gen = gen + 1 /\ n.key = key /\ n.aborted = FALSE
  BY <1>3 DEF Flight
<1>6. live'.gen = gen + 1
  <2>1. Good(live) /\ gen + 1 \in Nat
    BY <1>3 DEF BrowseInv, BufferInv
  <2> QED BY <1>4, <2>1, GoodStarted
<1> HIDE DEF n
<1> QED BY <1>3, <1>4, <1>5, <1>6 DEF LoadInv

\* A reply and a next page keep the request; an end settles the list.
LEMMA AnswerLoads ==
  ASSUME BrowseInv, LoadInv, NEW f \in flights, Reply(f) \/ Receive(f)
  PROVE  LoadInv'
<1>1. f \in FlightSet /\ f.key \in Lists /\ f.list = f.list
  BY DEF BrowseInv, FlightInv, FlightsOK, GoodFlight, FlightSet
<1>2. ASSUME NEW h, h.gen = f.gen, h.key = f.key, h.aborted = f.aborted,
             flights' = (flights \ {f}) \cup {h}, UNCHANGED <<page, live, gen>>
      PROVE  LoadInv'
  BY <1>2 DEF LoadInv, AutoLoad, page
<1>3. ASSUME flights' = flights \ {f}, UNCHANGED <<page, gen>>,
             \/ Stale(f) /\ live' = live
             \/ ~Stale(f) /\ live'.status # "loading"
             \/ ~Stale(f) /\ live' = live /\ ~Accepts(live, f)
      PROVE  LoadInv'
  <2>1. key = None => Stale(f)
    BY <1>1 DEF Stale
  <2>2. live.list = key
    BY DEF BrowseInv, BufferInv
  <2>3. CASE Stale(f)
    BY <1>3, <2>3 DEF LoadInv, AutoLoad, Stale, page
  <2>4. CASE ~Stale(f) /\ live'.status # "loading"
    BY <1>3, <2>4 DEF LoadInv
  <2>5. CASE ~Stale(f) /\ live' = live /\ ~Accepts(live, f)
    BY <1>3, <2>2, <2>5 DEF LoadInv, AutoLoad, Stale, Accepts, page
  <2> QED BY <1>3, <2>3, <2>4, <2>5
<1>4. CASE Reply(f)
  <2>1. PICK a : flights' = (flights \ {f}) \cup {[f EXCEPT !.reply = a]}
    BY <1>4 DEF Reply
  <2> DEFINE h == [f EXCEPT !.reply = a]
  <2>2. h.gen = f.gen /\ h.key = f.key /\ h.aborted = f.aborted
    BY <1>1 DEF FlightSet
  <2>3. flights' = (flights \ {f}) \cup {h}
    BY <2>1
  <2> HIDE DEF h
  <2> QED BY <1>2, <1>4, <2>2, <2>3 DEF Reply
<1>5. CASE NextPage(f)
  <2> DEFINE h == [f EXCEPT !.pages = Grown(f), !.cursor = f.reply.cursor, !.reply = NoReply]
  <2>1. h.gen = f.gen /\ h.key = f.key /\ h.aborted = f.aborted
    BY <1>1 DEF FlightSet
  <2>2. flights' = (flights \ {f}) \cup {h}
    BY <1>5 DEF NextPage
  <2> HIDE DEF h
  <2> QED BY <1>2, <1>5, <2>1, <2>2 DEF NextPage
<1>6. CASE DropAnswer(f) /\ End(f)
  BY <1>3, <1>6 DEF DropAnswer, End
<1>7. CASE f.reply \notin {NoReply, Failure} /\ ~Stale(f) /\ Succeed(f) /\ End(f)
  <2>1. GoodFlight(f) /\ Good(live) /\ live.list = key /\ f.list = key
    BY <1>7 DEF Stale, BrowseInv, FlightInv, FlightsOK, BufferInv
  <2>2. f.reply \in AnswerSet /\ f.reply.list = live.list /\ Grown(f) \in Seq(Page) /\ Own(Grown(f), live.list)
    BY <1>7, <2>1, GoodGrown DEF GoodFlight, FlightSet
  <2>3. /\ Good(Buffered(live, Grown(f), f.reply)) /\ Good(Appended(live, f.reply))
        /\ Good(Replaced(live, f.reply)) /\ Buffered(live, Grown(f), f.reply).status = "idle"
        /\ Appended(live, f.reply).status = "idle" /\ Replaced(live, f.reply).status = "idle"
    BY <2>1, <2>2, GoodBuffered, GoodAppended, GoodReplaced
  <2>4. ASSUME NEW s, Good(s), s.status = "idle" PROVE ReplayOn(s, f).status = "idle"
    BY <2>4, GoodPatched DEF ReplayOn, BrowseInv, CountInv
  <2>5. \/ live' = live /\ ~Accepts(live, f)
        \/ live' = ReplayOn(Buffered(live, Grown(f), f.reply), f)
        \/ live' = ReplayOn(Appended(live, f.reply), f) \/ live' = ReplayOn(Replaced(live, f.reply), f)
    BY <1>7 DEF Succeed
  <2>6. live'.status = "idle" \/ (live' = live /\ ~Accepts(live, f))
    BY <2>3, <2>4, <2>5
  <2> QED BY <1>3, <1>7, <2>6 DEF End
<1>8. CASE f.reply = Failure /\ ~Stale(f) /\ Fail(f) /\ End(f)
  <2>1. Failed(live, f.plan).status = "error"
    BY <1>1, GoodFailed DEF BrowseInv, BufferInv, FlightSet
  <2>2. live'.status = "error" \/ (live' = live /\ ~Accepts(live, f))
    BY <1>8, <2>1 DEF Fail
  <2> QED BY <1>3, <1>8, <2>2 DEF End
<1> QED BY <1>4, <1>5, <1>6, <1>7, <1>8 DEF Receive

\* Where no job event commits together with an identity change, a list that loads
\* is answered.
LEMMA LoadStep ==
  ASSUME ~Batched, BrowseInv, LoadInv, [Next]_vars
  PROVE  LoadInv'
<1>1. CASE LoadMore \/ Refresh \/ Retry
  BY <1>1, SendLoads
<1>2. ASSUME UNCHANGED <<source, wanted, key, live, gen, flights>> PROVE LoadInv'
  BY <1>2 DEF LoadInv, AutoLoad
<1>3. CASE Checkpoint \/ (\E k \in Lists : Lapse(k)) \/ Commit \/ UNCHANGED vars
  BY <1>2, <1>3 DEF Checkpoint, Lapse, Commit, page, buffer, vars
<1>4. ASSUME NEW i \in Items, Toggle(i) \/ ServerToggle(i) \/ LosePatch(i) PROVE LoadInv'
  BY <1>2, <1>4 DEF Toggle, ServerToggle, LosePatch, page, buffer
<1>5. ASSUME NEW i \in Items, Publish(i) PROVE LoadInv'
  <2>1. PatchOf(i, version[i]) \in [Items -> Versions]
    BY VersionType DEF PatchOf, NoPatch, BrowseInv, Versions
  <2>2. live'.status = live.status /\ live'.gen = live.gen
    BY <1>5, <2>1, GoodPatched DEF Publish, BrowseInv, BufferInv
  <2> QED BY <1>5, <2>2 DEF Publish, LoadInv, AutoLoad, page
<1>6. ASSUME NEW k \in Lists \cup {None}, Navigate(k) PROVE LoadInv'
  BY <1>6 DEF Navigate, LoadInv, AutoLoad, buffer
<1>7. ASSUME NEW k \in Lists, ShowExternal(k) PROVE LoadInv'
  BY <1>7 DEF ShowExternal, Open, LoadInv, AutoLoad
<1>8. CASE Mount
  <2>1. wanted \in Lists /\ StoreOK(store)
    BY <1>8 DEF Mount, BrowseInv, CountInv, Names
  <2> QED BY <1>8, <2>1, EnterStep DEF Mount
<1>9. CASE ClaimScope
  <2>1. key \in Lists /\ StoreOK(store)
    BY <1>9 DEF ClaimScope, BrowseInv, CountInv, Names
  <2> QED BY <1>9, <2>1, EnterStep DEF ClaimScope
<1>10. ASSUME NEW job \in BOOLEAN, IdentityCommit(job) PROVE LoadInv'
  <2>1. wanted \in Lists /\ key # None /\ ready \in BOOLEAN /\ ~job
    BY <1>10 DEF IdentityCommit, BrowseInv, CountInv, Names
  <2>2. PICK s \in IF ready THEN SavesOf(shown, key) ELSE {store} : Enter(wanted, s, ready, job)
    BY <1>10 DEF IdentityCommit
  <2>3. StoreOK(s)
    <3>1. CASE ready
      BY <2>1, <2>2, <3>1, StoreLeft DEF Open
    <3>2. CASE ~ready
      BY <2>2, <3>2 DEF BrowseInv
    <3> QED BY <3>1, <3>2
  <2> QED BY <2>1, <2>2, <2>3, EnterStep
<1>11. CASE Unmount \/ ReleaseScope
  <2>1. PICK k \in Names : live' = Empty(k, gen + 1)
    BY <1>11 DEF Unmount, ReleaseScope, BrowseInv, CountInv, Names
  <2>2. live'.status = "idle"
    BY <2>1, GoodEmpty DEF BrowseInv, CountInv
  <2> QED BY <2>2 DEF LoadInv
<1>12. ASSUME NEW f \in flights, Reply(f) \/ Receive(f) PROVE LoadInv'
  BY <1>12, AnswerLoads
<1> QED BY <1>1, <1>3, <1>4, <1>5, <1>6, <1>7, <1>8, <1>9, <1>10, <1>11, <1>12
        DEF Next, User, Environment, Progress

-----------------------------------------------------------------------------
(* The theorems. *)

\* The initial state.
LEMMA InitBrowse == Init => BrowseInv /\ LoadInv
<1> SUFFICES ASSUME Init PROVE BrowseInv /\ LoadInv
  OBVIOUS
<1>1. Good(Empty(None, 0)) /\ Empty(None, 0).list = None /\ Empty(None, 0).gen = 0
      /\ Empty(None, 0).status = "idle"
  BY GoodEmpty DEF Names
<1>2. BufferInv /\ LoadInv /\ FlightInv /\ EphemeralInv
  BY <1>1 DEF Init, BufferInv, LoadInv, FlightInv, FlightsOK, EphemeralInv
<1>3. StoreOK(store)
  BY DEF Init, StoreOK, GoodStore
<1>4. NoPatch \in [Items -> Versions] /\ 0 \in Versions
  BY DEF NoPatch, Versions
<1>5. CountInv
  <2>1. /\ source \in Sources /\ wanted \in Names /\ key \in Names /\ ready \in BOOLEAN
        /\ gen \in Nat /\ inflight \in {0, gen} /\ steps \in 0..MaxSteps
    <3>1. source \in Sources /\ wanted \in Names /\ key \in Names
      BY DEF Init, Names
    <3>2. ready = FALSE /\ gen = 0 /\ inflight = 0 /\ steps = 0
      BY DEF Init
    <3>3. 0 \in 0..MaxSteps
      BY BoundsAssumption
    <3> QED BY <3>1, <3>2, <3>3
  <2>2. replay \in [gen : Nat, updates : [Items -> Versions]] /\ replay.gen <= gen
    BY <1>4 DEF Init
  <2>3. /\ age \in [Lists -> Nat] /\ version \in [Items -> Nat] /\ published \in [Items -> Versions]
        /\ toggle \in [Items -> {"idle", "sent", "answered"}]
    BY <1>4 DEF Init
  <2>4. \A i \in Items : version[i] + (IF toggle[i] = "sent" THEN 1 ELSE 0) <= steps
    BY DEF Init
  <2> QED BY <2>1, <2>2, <2>3, <2>4 DEF CountInv
<1> QED BY <1>2, <1>3, <1>5 DEF BrowseInv

\* Every step keeps the invariant.
LEMMA BrowseStep == BrowseInv /\ [Next]_vars => BrowseInv'
<1> SUFFICES ASSUME BrowseInv, [Next]_vars PROVE BrowseInv'
  OBVIOUS
<1>1. CASE User
  BY <1>1, UserRequests, UserSaves, PatchSteps DEF User
<1>2. CASE Environment
  BY <1>2, CommitSteps, UserSaves DEF Environment
<1>3. CASE Progress
  BY <1>3, CommitSteps, ReplyStep, ReceiveStep, PatchSteps DEF Progress
<1>4. CASE UNCHANGED vars
  BY <1>4 DEF vars, BrowseInv, CountInv, BufferInv, FlightInv, StoreOK, GoodStore, EphemeralInv
<1> QED BY <1>1, <1>2, <1>3, <1>4 DEF Next

\* What the invariant says of a buffer.
LEMMA BufferFacts ==
  ASSUME BrowseInv, NEW s \in {live, shown}
  PROVE  BufferOK(s) /\ \A n \in DOMAIN s.pages : s.pages[n].list = s.list
<1>1. Good(s) /\ s \in StateSet /\ s.pages \in Seq(Page) /\ s.gen \in Nat /\ s.gen <= gen /\ gen \in Nat
  BY DEF BrowseInv, BufferInv, CountInv, Good, StateSet
<1>2. DOMAIN s.pages = 1..Len(s.pages) /\ \A n \in DOMAIN s.pages : s.pages[n] \in Page
  BY <1>1, PagesCard
<1>3. \A n \in DOMAIN s.pages : s.pages[n].list = s.list
  BY <1>1, <1>2 DEF Good, Own
<1>4. \A n \in DOMAIN s.pages :
        /\ s.pages[n].list \in Lists /\ DOMAIN s.pages[n].items \subseteq Items
        /\ \A i \in DOMAIN s.pages[n].items : s.pages[n].items[i] \in Versions
  BY <1>2, PageItems
<1>5. /\ s.list \in Names /\ s.cursor \in Nat /\ s.gen \in 0..gen
      /\ s.status \in {"idle", "loading", "error"} /\ s.failed \in PlanSet
      /\ s.more \in BOOLEAN /\ s.terminal \in BOOLEAN
  BY <1>1 DEF StateSet
<1> QED BY <1>3, <1>4, <1>5 DEF BufferOK, Names

\* What the invariant says of the types.
LEMMA BrowseTypes == BrowseInv => BrowseTypeOK
<1> SUFFICES ASSUME BrowseInv PROVE BrowseTypeOK
  OBVIOUS
<1>1. BufferOK(live) /\ BufferOK(shown)
  BY BufferFacts
<1>2. \A f \in flights : f.gen \in 1..gen /\ f.key \in Lists /\ f.list \in Lists /\ f.plan \in PlanSet
  BY DEF BrowseInv, CountInv, FlightInv, FlightsOK, GoodFlight, FlightSet
<1>3. \A k \in Lists : store[k] # None => store[k].lapsed \in BOOLEAN /\ store[k].cursor \in Nat
  BY DEF BrowseInv, StoreOK, GoodStore, GoodSnap, SnapSet
<1>4. replay.gen \in 0..gen /\ replay.updates \in [Items -> Versions]
  BY DEF BrowseInv, CountInv
<1>5. version \in [Items -> Versions]
  BY VersionType DEF BrowseInv
<1>6. /\ source \in Sources /\ wanted \in Lists \cup {None} /\ key \in Lists \cup {None}
      /\ ready \in BOOLEAN /\ gen \in Nat /\ inflight \in {0, gen} /\ age \in [Lists -> Nat]
      /\ published \in [Items -> Versions] /\ toggle \in [Items -> {"idle", "sent", "answered"}]
      /\ steps \in 0..MaxSteps
  BY DEF BrowseInv, CountInv, Names
<1> QED BY <1>1, <1>2, <1>3, <1>4, <1>5, <1>6 DEF BrowseTypeOK

\* What the invariant says of the items.
LEMMA BrowseItems == BrowseInv => OwnItems /\ NoDuplicates /\ EphemeralNeverFetched
<1> SUFFICES ASSUME BrowseInv PROVE OwnItems /\ NoDuplicates /\ EphemeralNeverFetched
  OBVIOUS
<1>1. OwnItems
  <2>1. \A k \in Lists : store[k] # None =>
          \A n \in DOMAIN store[k].pages : store[k].pages[n].list = k
    <3> SUFFICES ASSUME NEW k \in Lists, store[k] # None, NEW n \in DOMAIN store[k].pages
                 PROVE  store[k].pages[n].list = k
      OBVIOUS
    <3>1. store[k].pages \in Seq(Page) /\ Own(store[k].pages, k)
      BY DEF BrowseInv, StoreOK, GoodStore, GoodSnap, SnapSet
    <3> QED BY <3>1, PagesCard DEF Own
  <2> QED BY <2>1, BufferFacts DEF OwnItems
<1>2. NoDuplicates
  <2>1. live.pages \in Seq(Page) /\ Distinct(live.pages)
    BY DEF BrowseInv, BufferInv, Good, StateSet
  <2> QED BY <2>1, PagesCard DEF Distinct, NoDuplicates
<1>3. EphemeralNeverFetched
  BY DEF BrowseInv, FlightInv, FlightsOK, EphemeralNeverFetched
<1> QED BY <1>1, <1>2, <1>3

\* Types hold, and with them the invariant that all others follow from.
THEOREM BrowseCorrect == Spec => [](BrowseInv /\ BrowseTypeOK)
<1>1. Init => BrowseInv
  BY InitBrowse
<1>2. BrowseInv /\ [Next]_vars => BrowseInv'
  BY BrowseStep
<1> QED BY <1>1, <1>2, BrowseTypes, PTL DEF Spec

\* A list holds its own items, whatever answer comes when
\* (hooks/useBrowseSession.ts:298-331, lib/browse/reducer.ts:93-200).
THEOREM ItemsAreOwn == Spec => []OwnItems
BY BrowseCorrect, BrowseItems, PTL

\* No item is listed twice, whatever moves on the server between two pages
\* (lib/browse/reducer.ts:93-200).
THEOREM ItemsAreDistinct == Spec => []NoDuplicates
BY BrowseCorrect, BrowseItems, PTL

\* Results that cannot be fetched again are not asked for again, however their
\* snapshot ends (lib/browse/snapshotStore.ts:314-340).
THEOREM EphemeralIsNeverFetched == Spec => []EphemeralNeverFetched
BY BrowseCorrect, BrowseItems, PTL

\* Where no job event commits together with an identity change (browse_restore
\* shows what happens where one does), a list that says it is loading has a request
\* whose answer it will take (hooks/useBrowseSession.ts:262-377).
THEOREM LoadingIsServed == ASSUME ~Batched PROVE Spec => []LoadingIsAnswered
<1>1. Init => BrowseInv /\ LoadInv
  BY InitBrowse
<1>2. BrowseInv /\ LoadInv /\ [Next]_vars => BrowseInv' /\ LoadInv'
  BY BrowseStep, LoadStep
<1>3. BrowseInv /\ LoadInv => LoadingIsAnswered
  BY DEF BrowseInv, BufferInv, LoadInv, LoadingIsAnswered, Stale, Accepts
<1> QED BY <1>1, <1>2, <1>3, PTL DEF Spec
=============================================================================
