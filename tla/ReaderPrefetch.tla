--------------------------- MODULE ReaderPrefetch ---------------------------
(***************************************************************************)
(* The prefetcher of the Reader (components/Reader/hooks.ts,               *)
(* useSequentialPrefetch): which pages around the current one are asked    *)
(* for ahead of time, a few at once.                                       *)
(*                                                                         *)
(* A gallery that is only proxied is read by chains: a request that ends   *)
(* starts the next page that nothing covers yet.  A gallery that is stored *)
(* has a window around the current page: a request that ends goes over the *)
(* window again.  React runs the effects of a commit, and the browser a    *)
(* handler of an image, to their end before anything else happens.  The    *)
(* loop of startPrefetchWindow is taken one page at a time (PassStep), and *)
(* nothing else happens while at # 0.                                      *)
(*                                                                         *)
(* Left out: a gallery that stops being proxied while it is open.          *)
(***************************************************************************)
EXTENDS Integers, FiniteSets

CONSTANTS
  PageCount,    \* pages are numbered from 1
  ProxySlots,   \* PROXY_PREFETCH_CONCURRENCY
  LocalSlots,   \* LOCAL_PREFETCH_CONCURRENCY
  KeepAhead,    \* PREFETCH_KEEP_AHEAD
  Ahead,        \* LOCAL_PREFETCH_AHEAD
  Behind,       \* LOCAL_PREFETCH_BEHIND
  PixelBudget,  \* LOCAL_PREFETCH_PIXEL_BUDGET
  Pixels,       \* [Pages -> Nat]: decoded pixels of a page, or their estimate
  Videos,       \* pages that are videos
  Listings,     \* what a list of a stored gallery may say of its pages
  MaxCommits    \* bound: page turns and refreshed lists

Pages == 1..PageCount
PageState == {"absent", "waiting", "ready"}   \* not listed, without and with a URL

ASSUME PrefetchAssumption ==
  /\ {PageCount, KeepAhead, Behind, PixelBudget, MaxCommits} \subseteq Nat
  /\ {ProxySlots, LocalSlots, Ahead} \subseteq Nat \ {0}
  /\ Pixels \in [Pages -> Nat]
  /\ Videos \subseteq Pages
  /\ Listings \subseteq [Pages -> PageState]

VARIABLES
  proxy,       \* isProxyMode
  mounted,     \* not unmountedRef
  currentPage, \* currentPageRef
  listing,     \* imagesRef
  active,      \* activeImagesRef, inflightPagesRef: pages that are asked for
  fresh,       \* those asked for since the last page turn (capturedEpoch = epochRef)
  count,       \* inflightCountRef
  prefetched,  \* prefetchedRef
  at,          \* the step of the pass that runs, 0 if none does
  again,       \* passes still due in this commit
  pixels,      \* decoded pixels of the window so far
  kept,        \* a page of the window was kept
  passedOver,  \* history: pages the chains gave up since the last page turn
  masked,      \* history: the list changed and prefetchableKey did not
  commits      \* commits so far

shownVars == <<proxy, mounted, currentPage, listing>>
slotVars  == <<active, fresh, count, prefetched>>
passVars  == <<at, again, pixels, kept>>
readerVars == <<shownVars, slotVars, passVars, passedOver, masked, commits>>

Slots == IF proxy THEN ProxySlots ELSE LocalSlots
Steps == IF proxy THEN ProxySlots ELSE Ahead + Behind

\* The i-th page of the pass: forward pages first, then backward ones.
Offset(i) == IF proxy \/ i <= Ahead THEN i ELSE Ahead - i

\* A page of the window that counts: listed, with a URL, and no video.
Candidates == {p \in Pages : listing[p] = "ready" /\ p \notin Videos}

\* Mutant: only what is in flight is looked at.
CanPrefetchAgain(p, asked, done) == p \notin Videos \cup asked
CanPrefetch(p, asked, done) == p \notin Videos \cup done \cup asked

\* Mutant: a slot stalls on a page that is covered.
StartsHere(p, asked, done, n) ==
  {q \in {p} \cap Pages : n < Slots /\ listing[q] = "ready" /\ CanPrefetch(q, asked, done)}
\* prefetchPage(p), where asked, done and n are the pages in flight, those
\* prefetched and the count: the page it starts, if it starts one.
Starts(p, asked, done, n) ==
  {q \in Pages :
     /\ n < Slots /\ p \in Pages
     /\ listing[q] = "ready" /\ CanPrefetch(q, asked, done)
     /\ IF proxy THEN p <= q /\ \A r \in p..q - 1 : ~CanPrefetch(r, asked, done) ELSE q = p}

Start(S, asked, stillFresh, n) ==
  /\ active' = asked \cup S
  /\ fresh' = stillFresh \cup S
  /\ count' = IF S = {} THEN n ELSE n + 1

Less(n, k) == IF n >= k THEN n - k ELSE 0

\* startPrefetchWindow runs n times.
Passes(n) ==
  /\ at' = (IF n = 0 THEN 0 ELSE 1)
  /\ again' = (IF n = 0 THEN 0 ELSE n - 1)
  /\ pixels' = 0 /\ kept' = FALSE

NextStep(px, k) ==
  IF at < Steps THEN at' = at + 1 /\ again' = again /\ pixels' = px /\ kept' = k
  ELSE Passes(again)

\* prefetchableKey: which listed pages are videos, have a URL or wait for one,
\* in the order of the list.
Symbol(list, p) == IF p \in Videos THEN "v" ELSE list[p]
PrefetchableKey(list) ==
  LET listed == {p \in Pages : list[p] # "absent"} IN
  {<<Cardinality({q \in listed : q <= p}), Symbol(list, p)>> : p \in listed}

\* The effects of the first commit: the one of the page and the one of the key.
ReaderInit ==
  /\ proxy \in BOOLEAN /\ mounted = TRUE
  /\ currentPage \in Pages
  /\ listing \in IF proxy THEN {[p \in Pages |-> "ready"]} ELSE Listings
  /\ active = {} /\ fresh = {} /\ count = 0 /\ prefetched = {}
  /\ at = 1 /\ again = 1 /\ pixels = 0 /\ kept = FALSE
  /\ passedOver = {} /\ masked = FALSE /\ commits = 0

-----------------------------------------------------------------------------
(* A commit shows page q of list: the effect of the page aborts what is out   *)
(* of reach and goes over the window, the effect of the key only goes over   *)
(* the window.                                                              *)

ReachBothWays(q) == q - KeepAhead..q + KeepAhead   \* mutant
Reach(q) == q..q + KeepAhead   \* cleanupImagesOutsideWindow

\* Mutant: every page turn resets the count.
TurnResetting(q) ==
  /\ active' = active \cap Reach(q)
  /\ fresh' = {} /\ passedOver' = {} /\ count' = 0
Turn(q) ==
  LET aborted == active \ Reach(q) IN
  /\ active' = active \ aborted
  /\ fresh' = {} /\ passedOver' = {}
  /\ count' = Less(count, Cardinality(aborted))

Render(q, list) ==
  LET turned == q # currentPage
      due == (IF turned THEN 1 ELSE 0)
             + (IF PrefetchableKey(list) # PrefetchableKey(listing) THEN 1 ELSE 0) IN
  /\ mounted /\ at = 0 /\ commits < MaxCommits /\ commits' = commits + 1
  /\ turned \/ list # listing
  /\ currentPage' = q /\ listing' = list
  /\ IF turned THEN Turn(q) ELSE UNCHANGED <<active, fresh, count, passedOver>>
  /\ Passes(due)
  /\ masked' = (due = 0 /\ (masked \/ Candidates' # Candidates))
  /\ UNCHANGED <<proxy, mounted, prefetched>>

\* One page of the loop of startPrefetchWindow.
ProxyStep ==
  /\ proxy
  /\ Start(Starts(currentPage + at, active, prefetched, count), active, fresh, count)
  /\ NextStep(0, FALSE)

SkipStep ==
  /\ ~proxy /\ currentPage + Offset(at) \notin Candidates
  /\ NextStep(pixels, kept) /\ UNCHANGED slotVars

LocalStep ==
  LET p == currentPage + Offset(at)
      sum == pixels + Pixels[p] IN
  /\ ~proxy /\ p \in Candidates
  /\ IF kept /\ sum > PixelBudget
     THEN Passes(again) /\ UNCHANGED slotVars
     ELSE /\ Start(Starts(p, active, prefetched, count), active, fresh, count)
          /\ NextStep(sum, TRUE)

PassStep ==
  /\ at # 0
  /\ ProxyStep \/ SkipStep \/ LocalStep
  /\ UNCHANGED <<shownVars, prefetched, passedOver, masked, commits>>

\* Where the chain of page p goes on: behind it, or at the page that is shown
\* now if that was turned meanwhile.
NextOfPage(p) == p + 1   \* mutant: a stale chain marches on
NextInChain(p) == IF p \in fresh THEN p + 1 ELSE currentPage + 1

\* The chain of a request that has ended goes on.
GoOn(p, done) ==
  LET n == Less(count, 1) IN
  /\ Start(Starts(NextInChain(p), active \ {p}, done, n), active \ {p}, fresh \ {p}, n)
  /\ UNCHANGED <<passVars, masked>>

\* The window is gone over again.
TopUp(p) ==
  /\ active' = active \ {p} /\ fresh' = fresh \ {p} /\ count' = Less(count, 1)
  /\ Passes(1) /\ masked' = FALSE

\* onload and onerror.
Settle(p) ==
  /\ mounted /\ at = 0
  /\ prefetched' = prefetched \cup {p}
  /\ IF proxy THEN GoOn(p, prefetched \cup {p}) ELSE TopUp(p)
  /\ UNCHANGED <<shownVars, passedOver, commits>>

\* The timer of a request in a proxied gallery.
TimeOut(p) ==
  /\ mounted /\ at = 0 /\ proxy
  /\ GoOn(p, prefetched)
  /\ passedOver' = passedOver \cup ({p} \cap fresh)
  /\ UNCHANGED <<shownVars, prefetched, commits>>

\* cleanupAllImages; the count stays as it is.
Close ==
  /\ mounted /\ at = 0
  /\ mounted' = FALSE /\ active' = {} /\ fresh' = {}
  /\ UNCHANGED <<proxy, currentPage, listing, count, prefetched, passVars>>
  /\ UNCHANGED <<passedOver, masked, commits>>

ReaderProgress == PassStep \/ \E p \in active : Settle(p) \/ TimeOut(p)

ReaderNext ==
  \/ ReaderProgress
  \/ \E q \in Pages, list \in Listings \cup {listing} :
       (proxy => list = listing) /\ Render(q, list)
  \/ Close

ReaderSpec == ReaderInit /\ [][ReaderNext]_readerVars

-----------------------------------------------------------------------------
(* Properties. *)

\* The count of requests is exact while the Reader is open, so that the
\* concurrency stays a real cap (components/Reader/hooks.ts,
\* cleanupImagesOutsideWindow): never more requests than slots, and no slot lost.
SlotsCounted == mounted => count = Cardinality(active) /\ Cardinality(active) <= Slots

\* A page whose bytes are in the browser cache is not asked for again, and a
\* video never is (canPrefetch).
FetchedOnce == active \cap (prefetched \cup Videos) = {}

\* No request is left running for a page the reader has left behind: those of a
\* chain are ahead of the current page, those of a window are in it or within
\* what a page turn keeps (cleanupImagesOutsideWindow).
InReach ==
  \A p \in active :
    IF proxy THEN p >= currentPage
    ELSE p \in currentPage - Behind..currentPage + Ahead \/ p \in Reach(currentPage)

\* The prefetcher never goes idle too early (the re-entry of a stale request in
\* prefetchPage): once nothing is in flight, a chain has covered every page
\* ahead of the current one, but for those that timed out since the last page
\* turn, and the next page a window can have is there, unless the list changed
\* under one prefetchableKey.
Covered(q) == q \in Videos \cup prefetched \cup active \cup passedOver
FirstOf(i) ==
  /\ currentPage + Offset(i) \in Candidates
  /\ \A j \in 1..i - 1 : currentPage + Offset(j) \notin Candidates
NotStalled ==
  mounted /\ at = 0 /\ active = {} =>
    IF proxy
    THEN \A q \in currentPage + 1..PageCount : Covered(q)
    ELSE ~masked => \A i \in 1..Steps : FirstOf(i) => currentPage + Offset(i) \in prefetched

ReaderAtRest == at = 0 /\ active = {}

-----------------------------------------------------------------------------
(* The inductive invariant. *)

ReaderTypeOK ==
  /\ proxy \in BOOLEAN /\ mounted \in BOOLEAN /\ currentPage \in Pages
  /\ listing \in [Pages -> PageState]
  /\ proxy => listing = [p \in Pages |-> "ready"]
  /\ active \subseteq Pages /\ fresh \subseteq active /\ prefetched \subseteq Pages
  /\ count \in Nat
  /\ at \in 0..Steps /\ again \in 0..1 /\ pixels \in Nat /\ kept \in BOOLEAN
  /\ passedOver \subseteq Pages /\ masked \in BOOLEAN /\ commits \in 0..MaxCommits
  /\ mounted \/ ReaderAtRest

\* Between the page shown and a chain that was started for it nothing is left
\* out, but for what another such chain is still to come to.
Due(q) == Covered(q) \/ \E p \in fresh : currentPage < p /\ p < q
ChainInv == proxy => \A p \in fresh : \A q \in currentPage + 1..p : Due(q)

\* The pages a pass has been over: with a free slot it covers them, and while
\* nothing is in flight the first that a window can have is there.
PassInv ==
  mounted =>
    IF proxy
    THEN at > 1 => \/ count >= Slots
                   \/ \A q \in currentPage + 1..currentPage + at - 1 : q \in Pages => Covered(q)
    ELSE /\ at # 0 => ~masked
         /\ at > 0 => (kept <=> \E i \in 1..at - 1 : currentPage + Offset(i) \in Candidates)
         /\ at > 1 /\ active = {} =>
              \A i \in 1..at - 1 : FirstOf(i) => currentPage + Offset(i) \in prefetched

ReaderInv ==
  ReaderTypeOK /\ SlotsCounted /\ FetchedOnce /\ InReach /\ ChainInv /\ PassInv /\ NotStalled
=============================================================================
