--------------------------- MODULE BrowseSession ---------------------------
(***************************************************************************)
(* The paged browse lists of the PWA: one mounted list, its requests and   *)
(* the snapshots it leaves behind (hooks/useBrowseSession.ts).             *)
(*                                                                         *)
(* A list is named by its identity (surface, query, filters).  The page    *)
(* shows one identity at a time; changing it saves the buffer as a         *)
(* snapshot, restores or loads the next one, and aborts what was in        *)
(* flight.  A bookmark the user toggles is published as a patch to every   *)
(* saved list and to the mounted one (lib/browse/listPatches.ts).          *)
(*                                                                         *)
(* React separates dispatching from committing.  live is the reducer state *)
(* with every dispatched action applied; shown is the state of the last    *)
(* commit, which is what the callbacks read through stateRef.  A layout    *)
(* effect re-renders before anything else runs, so an identity commit ends *)
(* with both equal.                                                        *)
(***************************************************************************)
EXTENDS Integers, FiniteSets

CONSTANTS
  Lists,       \* identity keys
  Marks,       \* the lists that hold bookmarked items only
  Ephemeral,   \* the lists that cannot be fetched again (image lookup results)
  Items,       \* item ids
  Rank,        \* [Lists -> [SUBSET Items -> Nat]]: the order the server lists items in
  Bookmarked,  \* the items bookmarked at first
  PageSize,    \* items of a page
  MaxEntries,  \* snapshots a partition holds
  Tight,       \* TRUE when the storage quota may refuse a write
  Sources,     \* the browse pages checked: pixiv, library, ehentai
  Batched,     \* TRUE when a job event may commit together with an identity change
  None,        \* no list, no snapshot
  MaxSteps     \* bound: what the user, the tab and job events do

ASSUME ListsAssumption ==
  /\ Marks \subseteq Lists /\ Ephemeral \subseteq Lists /\ None \notin Lists
  /\ Bookmarked \subseteq Items /\ IsFiniteSet(Items) /\ IsFiniteSet(Lists)
ASSUME RankAssumption ==
  \A k \in Lists : DOMAIN Rank[k] \subseteq Items /\ Rank[k] \in [DOMAIN Rank[k] -> Nat]
ASSUME BoundsAssumption ==
  /\ PageSize \in Nat \ {0} /\ MaxEntries \in Nat \ {0}
  /\ MaxSteps \in Nat
  /\ Tight \in BOOLEAN /\ Batched \in BOOLEAN /\ Sources \subseteq {"pixiv", "library", "ehentai"}

VARIABLES
  source,    \* the browse page this is
  wanted,    \* the identity of the next render, None to leave the page
  key,       \* the identity of the last commit (activeIdentityKeyRef)
  ready,     \* the tab scope is claimed: snapshots and requests are open
  live,      \* the reducer state with everything dispatched
  shown,     \* the committed reducer state (stateRef)
  gen,       \* generationRef
  inflight,  \* generation of the request in flight, 0 for none
  replay,    \* patches that arrived while that request was in flight
  flights,   \* the requests the network still answers
  store,     \* the snapshots of the partition
  age,       \* how many lists were used more recently (lastAccess)
  version,   \* the server: how often each item was toggled
  toggle,    \* the bookmark call of each item: idle, sent, answered
  published, \* history: the version of each item's last published patch, until an
             \* answer asked for after it brought an older one
  steps      \* what they did so far

vars == <<source, wanted, key, ready, live, shown, gen, inflight, replay, flights,
          store, age, version, toggle, published, steps>>

page   == <<source, wanted, key, ready>>
buffer == <<live, shown, gen, inflight, replay, flights>>
saved  == <<store, age>>
server == <<version, toggle, published>>

\* E-Hentai loads on its own timer, Pixiv and Library inside the identity effect.
AutoLoad == source # "ehentai"

\* Pixiv changes identity in a React transition: what is pending commits before
\* it.  The others change a state, which commits together with what is pending.
Transition == source = "pixiv"

-----------------------------------------------------------------------------
(* Items, pages and what the server answers. *)

Versions == 0..MaxSteps
Marked(i, v) == (i \in Bookmarked) = (v % 2 = 0)

\* A page is served from a cache for some minutes.  A toggle does not drop the pages
\* of searches and of the feed; it drops those of the bookmarks once Pixiv has
\* answered, but one that was fetched before may still be written after.  So a page
\* may show each item as of an earlier version.
Earlier == {w \in [Items -> Versions] : \A i \in Items : w[i] <= version[i]}

Visible(k, w) == {i \in DOMAIN Rank[k] : k \in Marks => Marked(i, w[i])}
Position(k, i, w) == Cardinality({j \in Visible(k, w) : Rank[k][j] <= Rank[k][i]})
PageIds(k, c, w) ==
  {i \in Visible(k, w) : c < Position(k, i, w) /\ Position(k, i, w) <= c + PageSize}

\* The page of list k from offset c as of the versions w; a cursor of 0 is null.
Answer(k, c, w) ==
  LET rest == Cardinality(Visible(k, w)) > c + PageSize
  IN  [list |-> k, items |-> [i \in PageIds(k, c, w) |-> w[i]],
       cursor |-> IF rest THEN c + PageSize ELSE 0, more |-> rest]

PageOf(a) == [list |-> a.list, items |-> a.items]

Ids(pages) == UNION {DOMAIN pages[n].items : n \in DOMAIN pages}
WithRepeats(p, seen) == p
Fresh(p, seen) == [p EXCEPT !.items = [i \in DOMAIN p.items \ seen |-> p.items[i]]]

\* Keep the first occurrence of an item (unique).
Unique(pages) ==
  [n \in DOMAIN pages |-> Fresh(pages[n], Ids([m \in 1..(n - 1) |-> pages[m]]))]

-----------------------------------------------------------------------------
(* Patches: the versions a patch set says each item has, 0 when it says     *)
(* nothing (a toggle makes a version positive).                             *)

NoPatch == [i \in Items |-> 0]
PatchOf(i, v) == [NoPatch EXCEPT ![i] = v]

PatchPages(pages, u) ==
  [n \in DOMAIN pages |->
    [pages[n] EXCEPT !.items =
      [i \in DOMAIN pages[n].items |-> IF u[i] > 0 THEN u[i] ELSE pages[n].items[i]]]]

-----------------------------------------------------------------------------
(* The reducer (lib/browse/reducer.ts). *)

NoPlan == [kind |-> "none", cursor |-> 0, depth |-> 1]
Plan(kind, cursor, depth) == [kind |-> kind, cursor |-> cursor, depth |-> depth]

\* createBrowseState and IDENTITY_CHANGED
Empty(k, g) ==
  [list |-> k, pages |-> <<>>, cursor |-> 0, more |-> TRUE, gen |-> g,
   status |-> "idle", failed |-> NoPlan, terminal |-> FALSE]

Settled(s) == [s EXCEPT !.status = "idle", !.failed = NoPlan, !.terminal = FALSE]

Hydrated(s, snap) ==
  Settled([s EXCEPT !.pages = snap.pages, !.cursor = snap.cursor, !.more = snap.more])

Started(s, g) ==
  [s EXCEPT !.gen = g, !.status = "loading", !.failed = NoPlan, !.terminal = FALSE]

Accepts(s, f) == s.list = f.key /\ s.gen = f.gen

Replaced(s, a) ==
  Settled([s EXCEPT !.pages = <<PageOf(a)>>, !.cursor = a.cursor, !.more = a.more])

AppendedAtOldCursor(s, a) ==
  LET n == Cardinality(DOMAIN s.pages)
  IN  Settled([s EXCEPT
        !.pages = [m \in 1..(n + 1) |-> IF m <= n THEN s.pages[m] ELSE Fresh(PageOf(a), Ids(s.pages))],
        !.more  = a.more])
Appended(s, a) ==
  LET fresh == Fresh(PageOf(a), Ids(s.pages))
      n     == Cardinality(DOMAIN s.pages)
  IN  Settled([s EXCEPT
        !.pages  = [m \in 1..(n + 1) |-> IF m <= n THEN s.pages[m] ELSE fresh],
        !.cursor = a.cursor,
        !.more   = a.more /\ (DOMAIN fresh.items # {} \/ a.cursor # s.cursor)])

Buffered(s, pages, a) ==
  Settled([s EXCEPT !.pages = Unique(pages), !.cursor = a.cursor, !.more = a.more])

Patched(s, k, u) == IF s.list # k THEN s ELSE [s EXCEPT !.pages = PatchPages(s.pages, u)]

Failed(s, plan) == [s EXCEPT !.status = "error", !.failed = plan]

Expired(s) ==
  [Settled(s) EXCEPT !.pages = <<>>, !.cursor = 0, !.more = FALSE, !.terminal = TRUE]

-----------------------------------------------------------------------------
(* The snapshot store (lib/browse/snapshotStore.ts).  A write that the      *)
(* quota refuses gives entries up, least recently used first.               *)

Snapshot(s) == [pages |-> s.pages, cursor |-> s.cursor, more |-> s.more, lapsed |-> FALSE]
Tombstone   == [pages |-> <<>>, cursor |-> 0, more |-> FALSE, lapsed |-> TRUE]

Touched(a, k) ==
  [j \in Lists |-> IF j = k THEN 0 ELSE IF a[j] <= a[k] THEN a[j] + 1 ELSE a[j]]

\* The n most recently used entries other than k.
Recent(s, k, n) ==
  LET others == {j \in Lists : j # k /\ s[j] # None}
  IN  {j \in others : Cardinality({i \in others : age[i] < age[j]}) < n}

Keep(s, kept) == [j \in Lists |-> IF j \in kept THEN s[j] ELSE None]

\* What the partition may hold after save(k, snap).
Saves(s, k, snap) ==
  LET full == [Keep(s, Recent(s, k, MaxEntries - 1)) EXCEPT ![k] = snap]
  IN  {full} \cup IF ~Tight THEN {} ELSE
        UNION {{Keep(s, Recent(s, k, n)), [Keep(s, Recent(s, k, n)) EXCEPT ![k] = snap]} :
               n \in 0..(MaxEntries - 1)}

\* saveState: an empty buffer is not worth a snapshot.
SavesUnderNext(s, k) ==
  IF s.pages = <<>> THEN {store} ELSE Saves(store, IF wanted = None THEN k ELSE wanted, Snapshot(s))
SavesOf(s, k) == IF s.pages = <<>> THEN {store} ELSE Saves(store, k, Snapshot(s))

\* A new bookmark has no known place in a saved list of bookmarks that lacks it.
Invalidates(i, v, k, snap) == k \in Marks /\ Marked(i, v) /\ i \notin Ids(snap.pages)

Rewritten(i, v) == {k \in Lists : store[k] # None /\ i \in Ids(store[k].pages)}
Discarded(i, v) ==
  {k \in Lists : store[k] # None /\ ~store[k].lapsed /\ Invalidates(i, v, k, store[k])}

\* What the partition may hold after patchItems.
Patches(i, v) ==
  LET kept == {k \in Lists : store[k] # None} \ Discarded(i, v)
      full == [k \in Lists |->
                IF k \notin kept THEN None
                ELSE [store[k] EXCEPT !.pages = PatchPages(store[k].pages, PatchOf(i, v))]]
  IN  {full} \cup IF Tight /\ Rewritten(i, v) \cup Discarded(i, v) # {}
                    THEN {Keep(store, kept \ Rewritten(i, v)), Keep(store, {})} ELSE {}

-----------------------------------------------------------------------------
(* Requests. *)

NoReply == [list |-> None, items |-> [i \in {} |-> 0], cursor |-> 0, more |-> FALSE]
Failure == [NoReply EXCEPT !.more = TRUE]

Aborted(fs) == {[f EXCEPT !.aborted = TRUE] : f \in fs}

Flight(g, k, l, plan) ==
  [gen |-> g, key |-> k, list |-> l, plan |-> plan, cursor |-> plan.cursor,
   pages |-> <<>>, reply |-> NoReply, aborted |-> FALSE,
   known |-> published]   \* history: what was published when it was sent

RequestAbortingLast(g, k, l, plan, s) ==
  /\ gen' = g
  /\ inflight' = g
  /\ replay' = [gen |-> g, updates |-> NoPatch]
  /\ flights' = Aborted(flights \cup {Flight(g, k, l, plan)})
  /\ live' = Started(s, g)

RequestKeepingLast(g, k, l, plan, s) ==
  /\ gen' = g
  /\ inflight' = g
  /\ replay' = [gen |-> g, updates |-> NoPatch]
  /\ flights' = flights \cup {Flight(g, k, l, plan)}
  /\ live' = Started(s, g)

\* requestPages: refused while a request is in flight.
Request(g, k, l, plan, s) ==
  /\ gen' = g
  /\ inflight' = g
  /\ replay' = [gen |-> g, updates |-> NoPatch]
  /\ flights' = Aborted(flights) \cup {Flight(g, k, l, plan)}
  /\ live' = Started(s, g)

AbortLeavingFlag(g) ==
  /\ gen' = g
  /\ flights' = Aborted(flights)
  /\ UNCHANGED <<inflight, replay>>

AbortInflight(g) ==
  /\ gen' = g
  /\ inflight' = 0
  /\ flights' = Aborted(flights)
  /\ UNCHANGED replay

Step == steps < MaxSteps /\ steps' = steps + 1
Open == ready /\ key # None

-----------------------------------------------------------------------------
(* What the page and the user do. *)

\* loadMore: the next page, or the first one of an empty buffer, or the append
\* that failed.
LoadMore ==
  /\ Open /\ Step
  /\ shown.status # "loading" /\ ~shown.terminal
  /\ shown.status = "error" => shown.failed.kind = "append"
  /\ shown.status = "idle" => shown.more
  /\ inflight = 0
  /\ LET plan == IF shown.status = "error" THEN shown.failed
                 ELSE IF Ids(shown.pages) = {} THEN Plan("initial", 0, 1)
                 ELSE Plan("append", shown.cursor, 1)
     IN  Request(gen + 1, shown.list, key, plan, live)
  /\ UNCHANGED <<page, shown, saved, server>>

LoadedDepth == IF shown.pages = <<>> THEN 1 ELSE Cardinality(DOMAIN shown.pages)

\* refresh replaces the request in flight.  The user refreshes a list from its
\* first page; a job event refreshes every loaded page of the library.
Refresh ==
  /\ Open /\ Step
  /\ ~shown.terminal /\ key \notin Ephemeral
  /\ Request(gen + 1, shown.list, key, Plan("refresh", 0, IF source = "library" THEN LoadedDepth ELSE 1), live)
  /\ UNCHANGED <<page, shown, saved, server>>

\* retry: what failed, once more.
Retry ==
  /\ Open /\ Step
  /\ shown.failed # NoPlan /\ ~shown.terminal /\ key \notin Ephemeral
  /\ inflight = 0
  /\ Request(gen + 1, shown.list, key, shown.failed, live)
  /\ UNCHANGED <<page, shown, saved, server>>

\* checkpoint: scrolling, opening an item or leaving saves the committed buffer.
Checkpoint ==
  /\ Open /\ shown.pages # <<>>
  /\ store' \in Saves(store, shown.list, Snapshot(shown))
  /\ age' = Touched(age, shown.list)
  /\ UNCHANGED <<page, buffer, server, steps>>

\* Another identity is asked for, by the browser's history or by a control,
\* which saves the view first; the lists that do not load by themselves
\* (E-Hentai) also cancel the request of the list they leave.  Lookup results have
\* an address too, so history or a reload may ask for them again.
Navigate(k) ==
  /\ k # wanted /\ Step
  /\ k \in Ephemeral => source = "ehentai"
  /\ key # None /\ ~AutoLoad => wanted = key
  /\ wanted' = k
  /\ \/ UNCHANGED saved
     \/ /\ Open /\ shown.pages # <<>>
        /\ store' \in Saves(store, key, Snapshot(shown)) /\ age' = Touched(age, key)
  /\ IF key # None /\ ~AutoLoad THEN AbortInflight(gen + 1) /\ UNCHANGED <<live, shown>>
     ELSE UNCHANGED buffer
  /\ UNCHANGED <<source, key, ready, server>>

\* showExternalResults: the results are saved under a new identity, then shown.
ShowExternal(k) ==
  /\ Open /\ source = "ehentai" /\ k \in Ephemeral /\ wanted = key /\ k # key /\ Step
  /\ store[k] = None
  /\ store' \in Saves(store, k, [pages |-> <<PageOf(Answer(k, 0, version))>>, cursor |-> 0,
                                 more |-> FALSE, lapsed |-> FALSE])
  /\ age' = Touched(age, k)
  /\ wanted' = k
  /\ AbortInflight(gen + 1)
  /\ UNCHANGED <<source, key, ready, live, shown, server>>

\* The retention of an ephemeral snapshot runs out.
Lapse(k) ==
  /\ k \in Ephemeral /\ store[k] # None /\ ~store[k].lapsed
  /\ store' = [store EXCEPT ![k].lapsed = TRUE]
  /\ UNCHANGED <<page, buffer, age, server, steps>>

-----------------------------------------------------------------------------
(* What React and the tab scope do. *)

\* A commit without an identity change.
Commit ==
  /\ live # shown
  /\ wanted = key \/ Transition
  /\ shown' = live
  /\ UNCHANGED <<page, live, gen, inflight, replay, flights, saved, server, steps>>

Restorable(s, k) == s[k] # None /\ ~s[k].lapsed
DeadIfLapsed(s, k) == s[k] # None /\ s[k].lapsed
Dead(s, k)       == IF s[k] # None THEN s[k].lapsed ELSE k \in Ephemeral

\* The identity effect, for list k with the partition s: restore, expire or load.
\* A job event committed together with it runs refresh before the re-render,
\* when stateRef still holds the list that is left.
Enter(k, s, open, job) ==
  /\ key' = k
  /\ ready' = open
  /\ store' = IF open /\ s[k] # None /\ s[k].lapsed THEN [s EXCEPT ![k] = Tombstone] ELSE s
  /\ age' \in {age} \cup IF open /\ s[k] # None THEN {Touched(age, k)} ELSE {}
  /\ LET new == Empty(k, gen + 1)
         in  == IF ~open THEN new
                ELSE IF Restorable(s, k) THEN Hydrated(new, s[k])
                ELSE IF Dead(s, k) THEN Expired(new) ELSE new
         load == open /\ ~Restorable(s, k) /\ ~Dead(s, k) /\ AutoLoad
     IN  IF job THEN Request(gen + 2, shown.list, k, Plan("refresh", 0, LoadedDepth), in)
         ELSE IF load THEN Request(gen + 2, k, k, Plan("initial", 0, 1), in)
         ELSE live' = in /\ AbortInflight(gen + 1)
  /\ shown' = live'

\* The page renders another identity: the cleanup saves what stateRef holds.
IdentityCommit(job) ==
  /\ wanted # key /\ wanted # None /\ key # None
  /\ Transition => live = shown
  /\ \E s \in IF ready THEN SavesOf(shown, key) ELSE {store} : Enter(wanted, s, ready, job)
  /\ IF job THEN Batched /\ source = "library" /\ ready /\ ~shown.terminal /\ wanted \notin Ephemeral /\ Step ELSE UNCHANGED steps
  /\ UNCHANGED <<source, wanted, server>>

\* The page mounts; its tab scope is not claimed yet.
Mount ==
  /\ key = None /\ wanted # None
  /\ Enter(wanted, store, FALSE, FALSE)
  /\ UNCHANGED <<source, wanted, server, steps>>

Leave(open) ==
  /\ IF ready THEN store' \in SavesOf(shown, key) ELSE UNCHANGED store
  /\ age' = IF ready /\ shown.pages # <<>> THEN Touched(age, key) ELSE age
  /\ ready' = open

\* The page unmounts.
Unmount ==
  /\ wanted = None /\ key # None
  /\ Transition => live = shown
  /\ Leave(FALSE)
  /\ key' = None
  /\ AbortInflight(gen + 1)
  /\ live' = Empty(None, gen + 1) /\ shown' = live'
  /\ UNCHANGED <<source, wanted, server, steps>>

\* The tab scope is claimed: the effect runs again.
ClaimScope ==
  /\ key # None /\ ~ready
  /\ Enter(key, store, TRUE, FALSE)
  /\ UNCHANGED <<source, wanted, server, steps>>

\* pagehide releases the tab scope.
ReleaseScope ==
  /\ Open /\ wanted = key /\ (Transition => live = shown) /\ Step
  /\ Leave(FALSE)
  /\ AbortInflight(gen + 1)
  /\ live' = Empty(key, gen + 1) /\ shown' = live'
  /\ UNCHANGED <<source, wanted, key, server>>

-----------------------------------------------------------------------------
(* What the server does and how answers arrive. *)

Stale(f) == f.aborted \/ gen # f.gen \/ key # f.key

\* A round trip takes longer than the commit of the request that starts it.
Reply(f) ==
  /\ f.reply = NoReply
  /\ ~Stale(f) /\ shown.gen = f.gen
  /\ \E a \in {Answer(f.list, f.cursor, w) : w \in Earlier} \cup {Failure} :
       flights' = (flights \ {f}) \cup {[f EXCEPT !.reply = a]}
  /\ UNCHANGED <<page, live, shown, gen, inflight, replay, saved, server, steps>>

\* A request that was aborted or superseded changes nothing when it ends, whatever its
\* answer is and whether it came before or after that.
DropAnswer(f) ==
  /\ Stale(f)
  /\ UNCHANGED <<live, published>>

ReplayNothing(s, f) == s
ReplayOn(s, f) == IF replay.gen = f.gen THEN Patched(s, f.key, replay.updates) ELSE s

Grown(f) ==
  LET n == Cardinality(DOMAIN f.pages)
  IN  [m \in 1..(n + 1) |-> IF m <= n THEN f.pages[m] ELSE PageOf(f.reply)]

\* The loop of a refresh is over: no next page, no progress, or deep enough.
LastPage(f) ==
  \/ ~f.reply.more \/ f.reply.cursor \in {0, f.cursor}
  \/ Cardinality(DOMAIN f.pages) + 1 = f.plan.depth

\* The next page of a refresh.
NextPage(f) ==
  /\ f.plan.kind = "refresh" /\ ~LastPage(f)
  /\ flights' = (flights \ {f}) \cup
       {[f EXCEPT !.pages = Grown(f), !.cursor = f.reply.cursor, !.reply = NoReply]}
  /\ UNCHANGED <<page, live, shown, gen, inflight, replay, saved, server, steps>>

\* The items of which the server says less than was published when it was asked.
Outdated(f) ==
  {i \in Items : f.known[i] = published[i] /\ \E n \in DOMAIN Grown(f) :
     i \in DOMAIN Grown(f)[n].items /\ Grown(f)[n].items[i] < published[i]}

\* BUFFER_SUCCEEDED and PAGE_SUCCEEDED, then the patches met in flight.
Succeed(f) ==
  /\ f.plan.kind = "refresh" => LastPage(f)
  /\ live' = IF ~Accepts(live, f) THEN live
             ELSE ReplayOn(CASE f.plan.kind = "refresh" -> Buffered(live, Grown(f), f.reply)
                             [] f.plan.kind = "append"  -> Appended(live, f.reply)
                             [] OTHER                   -> Replaced(live, f.reply), f)
  /\ published' = [i \in Items |-> IF i \in Outdated(f) THEN 0 ELSE published[i]]

\* PAGE_FAILED keeps the buffer and remembers the request.
Fail(f) ==
  /\ live' = IF Accepts(live, f) THEN Failed(live, f.plan) ELSE live
  /\ UNCHANGED published

End(f) ==
  /\ flights' = flights \ {f}
  /\ inflight' = IF inflight = f.gen THEN 0 ELSE inflight
  /\ UNCHANGED <<page, shown, gen, replay, saved, version, toggle, steps>>

Receive(f) ==
  \/ DropAnswer(f) /\ End(f)
  \/ f.reply \notin {NoReply, Failure} /\ ~Stale(f) /\ (NextPage(f) \/ (Succeed(f) /\ End(f)))
  \/ f.reply = Failure /\ ~Stale(f) /\ Fail(f) /\ End(f)

\* A bookmark is toggled on a card or a detail page, one call at a time.
Toggle(i) ==
  /\ source = "pixiv" /\ toggle[i] = "idle" /\ Step
  /\ toggle' = [toggle EXCEPT ![i] = "sent"]
  /\ UNCHANGED <<page, buffer, saved, version, published>>

\* A call made on a card of an older page may ask for what is already so.
ServerToggle(i) ==
  /\ toggle[i] = "sent"
  /\ toggle' = [toggle EXCEPT ![i] = "answered"]
  /\ \/ version' = [version EXCEPT ![i] = @ + 1]
     \/ version[i] > 0 /\ UNCHANGED version
  /\ UNCHANGED <<page, buffer, saved, published, steps>>

\* patchItems and publishBrowseListPatch: the saved lists first, then the
\* mounted one, which remembers the patch for the answer in flight.
Publish(i) ==
  LET v == version[i]
  IN  /\ toggle[i] = "answered"
      /\ key = None \/ ready
      /\ store' \in Patches(i, v)
      /\ live' = IF key = None THEN live ELSE Patched(live, key, PatchOf(i, v))
      /\ replay' = IF key # None /\ inflight # 0
                     THEN [replay EXCEPT !.updates[i] = v] ELSE replay
      /\ published' = [published EXCEPT ![i] = v]
      /\ toggle' = [toggle EXCEPT ![i] = "idle"]
      /\ UNCHANGED <<page, shown, gen, inflight, flights, age, version, steps>>

\* Before the scope is claimed the list's own patches go nowhere.
LosePatch(i) ==
  /\ toggle[i] = "answered" /\ key # None /\ ~ready
  /\ toggle' = [toggle EXCEPT ![i] = "idle"]
  /\ UNCHANGED <<page, buffer, saved, version, published, steps>>

-----------------------------------------------------------------------------
Init ==
  /\ source \in Sources /\ wanted \in Lists /\ (wanted \in Ephemeral => source = "ehentai")
  /\ key = None /\ ready = FALSE
  /\ live = Empty(None, 0) /\ shown = live
  /\ gen = 0 /\ inflight = 0 /\ replay = [gen |-> 0, updates |-> NoPatch]
  /\ flights = {}
  /\ store = [k \in Lists |-> None] /\ age = [k \in Lists |-> 0]
  /\ version = [i \in Items |-> 0] /\ published = version
  /\ toggle = [i \in Items |-> "idle"]
  /\ steps = 0

User ==
  \/ LoadMore \/ Refresh \/ Retry \/ Checkpoint
  \/ \E k \in Lists \cup {None} : Navigate(k)
  \/ \E k \in Lists : ShowExternal(k)
  \/ \E i \in Items : Toggle(i)

Environment ==
  \/ ReleaseScope
  \/ \E k \in Lists : Lapse(k)

Progress ==
  \/ Commit \/ Mount \/ Unmount \/ ClaimScope
  \/ \E job \in BOOLEAN : IdentityCommit(job)
  \/ \E f \in flights : Reply(f) \/ Receive(f)
  \/ \E i \in Items : ServerToggle(i) \/ Publish(i) \/ LosePatch(i)

Next == User \/ Environment \/ Progress

Spec == Init /\ [][Next]_vars
FairSpec == Spec /\ WF_vars(Progress)

-----------------------------------------------------------------------------
(* Properties. *)

PlanSet == [kind : {"none", "initial", "append", "refresh"}, cursor : Nat, depth : Nat \ {0}]

\* What a list state, a request and a snapshot are made of.
BufferOK(s) ==
  /\ s.list \in Lists \cup {None} /\ s.cursor \in Nat /\ s.gen \in 0..gen
  /\ s.status \in {"idle", "loading", "error"} /\ s.failed \in PlanSet
  /\ s.more \in BOOLEAN /\ s.terminal \in BOOLEAN
  /\ \A n \in DOMAIN s.pages :
       /\ s.pages[n].list \in Lists /\ DOMAIN s.pages[n].items \subseteq Items
       /\ \A i \in DOMAIN s.pages[n].items : s.pages[n].items[i] \in Versions

\* Type invariant; a request is never newer than the generation counter, and the
\* one in flight is the newest of all.
BrowseTypeOK ==
  /\ source \in Sources /\ wanted \in Lists \cup {None} /\ key \in Lists \cup {None}
  /\ ready \in BOOLEAN /\ gen \in Nat /\ inflight \in {0, gen}
  /\ BufferOK(live) /\ BufferOK(shown)
  /\ replay.gen \in 0..gen /\ replay.updates \in [Items -> Versions]
  /\ \A f \in flights : f.gen \in 1..gen /\ f.key \in Lists /\ f.list \in Lists /\ f.plan \in PlanSet
  /\ \A k \in Lists : store[k] # None => store[k].lapsed \in BOOLEAN /\ store[k].cursor \in Nat
  /\ age \in [Lists -> Nat] /\ version \in [Items -> Versions]
  /\ published \in [Items -> Versions] /\ toggle \in [Items -> {"idle", "sent", "answered"}]
  /\ steps \in 0..MaxSteps

\* A buffer and a snapshot hold pages of their own list only: the answer to a
\* list the user has left never lands in the list that replaced it.
OwnItems ==
  /\ \A s \in {live, shown} : \A n \in DOMAIN s.pages : s.pages[n].list = s.list
  /\ \A k \in Lists : store[k] # None =>
       \A n \in DOMAIN store[k].pages : store[k].pages[n].list = k

\* A bookmark the user changed is undone on screen by a later answer of the server
\* only: whatever was in flight, saved or restored when the change was published,
\* no list of the claimed tab shows the item as it was before, until a request
\* sent after it brings a cached page that does.
NeverOlder ==
  Open => \A n \in DOMAIN live.pages : \A i \in DOMAIN live.pages[n].items :
            live.pages[n].items[i] >= published[i]

\* No item is listed twice, although bookmarks shift under the offsets.
NoDuplicates ==
  \A m, n \in DOMAIN live.pages :
    m # n => DOMAIN live.pages[m].items \cap DOMAIN live.pages[n].items = {}

\* The pages of a list that does not shift follow each other without a hole,
\* and its cursor is where they end.
NoGaps ==
  live.list \in Lists \ Marks =>
    /\ \A n \in DOMAIN live.pages :
         DOMAIN live.pages[n].items = PageIds(live.list, (n - 1) * PageSize, version)
    /\ live.more /\ live.pages # <<>> =>
         live.cursor = Cardinality(DOMAIN live.pages) * PageSize

\* A list that says it is loading has a request whose answer it will take.
LoadingIsAnswered ==
  live.status = "loading" /\ wanted = key =>
    \E f \in flights : ~Stale(f) /\ Accepts(live, f)

\* useLibraryBrowseSession.ts:148-151: a job event is news only to a session that
\* was already live, and replaying it in the restore commit would refresh at a
\* depth of one and truncate the snapshot: the commit that restores a list starts
\* no request for it.
RestoreNotRefreshed ==
  [][(key' # key \/ ready' # ready) /\ ready' /\ Restorable(store', key') => inflight' = 0]_vars

\* Results that cannot be fetched again are never asked for again.
EphemeralNeverFetched == \A f \in flights : f.list \notin Ephemeral

\* Once the user rests, the list asked for is on screen in the end: with a page,
\* an error or its expiry.
Resolved(s) == s.pages # <<>> \/ s.status = "error" \/ s.terminal

ListAtRest == wanted = None \/ (key = wanted /\ ready /\ (AutoLoad => Resolved(shown)))
EventuallyShown == []<>ListAtRest

-----------------------------------------------------------------------------
(* The inductive strengthening of NoGaps and NeverOlder. *)

\* A request that was not aborted is the only one: the one in flight, the one the
\* list is loading, and answered only after the commit that started it
\* (useBrowseSession.ts, requestPages and abortInflight).
RequestInv ==
  /\ \A f \in flights :
       IF f.aborted THEN f.gen < gen
       ELSE /\ f.gen = gen /\ inflight = gen /\ live.gen = gen /\ live.status = "loading"
            /\ f.key = key /\ ~(f.reply = NoReply /\ f.pages = <<>>) => shown.gen = gen
            /\ \A h \in flights : h.aborted \/ h = f
  /\ live.status = "loading" /\ shown.gen = live.gen => shown.status = "loading"
  /\ key = None => inflight = 0

\* The page at an offset of a list that does not shift.
Place(k, i) == Cardinality({j \in DOMAIN Rank[k] : Rank[k][j] <= Rank[k][i]})
Slice(k, c) == {i \in DOMAIN Rank[k] : c < Place(k, i) /\ Place(k, i) <= c + PageSize}

After(pages) == Cardinality(DOMAIN pages) * PageSize
Tiled(k, pages) == \A n \in DOMAIN pages : DOMAIN pages[n].items = Slice(k, (n - 1) * PageSize)
Continues(s) == s.more /\ s.pages # <<>> => s.cursor = After(s.pages)

\* A buffer is tiled, and so is the snapshot it may be restored from; a buffer that
\* is not loading is the committed one up to patches, so that the cursor a callback
\* reads, of the buffer or of the append that failed, is still its end when the
\* answer comes.
TiledBuffer(s) ==
  /\ Tiled(s.list, s.pages) /\ Continues(s)
  /\ s.failed.cursor = (IF s.failed.kind = "append" THEN After(s.pages) ELSE 0)
TiledAnswer(f) ==
  f.reply \notin {NoReply, Failure} =>
    /\ DOMAIN f.reply.items = Slice(f.list, f.cursor)
    /\ f.reply.more => f.reply.cursor = f.cursor + PageSize
TiledFlight(f, pages) ==
  /\ Tiled(f.list, f.pages) /\ TiledAnswer(f)
  /\ f.plan.kind # "refresh" => f.pages = <<>> /\ f.cursor = f.plan.cursor
  /\ f.plan.kind = "append" /\ ~f.aborted => f.cursor = After(pages)
  /\ f.plan.kind # "append" => f.plan.cursor = 0 /\ f.cursor = After(f.pages)

TiledInv ==
  /\ \A s \in {live, shown} :
       /\ s.list \notin Marks => TiledBuffer(s)
       /\ s.failed # NoPlan => s.status = "error"
  /\ shown.status # "loading" => DOMAIN shown.pages = DOMAIN live.pages
  /\ \A k \in Lists \ Marks : store[k] # None => Tiled(k, store[k].pages) /\ Continues(store[k])
  /\ \A f \in flights : f.list \notin Marks => TiledFlight(f, live.pages)

\* No buffer holds an item as it was before a published change.  A checkpoint may
\* save one that does, of the mounted list before the patch is committed, but the
\* list is saved again, or dropped, when it is left.  What was published since a
\* request was sent is remembered for its answer (useBrowseSession.ts,
\* inflightPatchesRef).
NotOlder(pages, u) ==
  \A n \in DOMAIN pages : \A i \in DOMAIN pages[n].items : pages[n].items[i] >= u[i]

FreshInv ==
  /\ \A i \in Items :
       published[i] <= version[i] /\ (source # "pixiv" => published[i] = 0 /\ toggle[i] = "idle")
  /\ NotOlder(live.pages, published)
  /\ shown.pages # <<>> => live.pages # <<>>
  /\ \A k \in Lists : store[k] # None =>
       NotOlder(store[k].pages, published) \/ (k = key /\ ready /\ live.pages # <<>>)
  /\ inflight # 0 => replay.gen = gen /\ \A i \in Items : replay.updates[i] \in {0, published[i]}
  /\ \A f \in flights : ~f.aborted =>
       \A i \in Items : f.known[i] = published[i] \/ replay.updates[i] = published[i]

ListInv == RequestInv /\ TiledInv /\ FreshInv
=============================================================================
