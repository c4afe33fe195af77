------------------------ MODULE ReaderPrefetch_proofs ------------------------
(* The prefetcher of the Reader keeps to its slots, asks for nothing twice     *)
(* and does not go idle too early, for any gallery, concurrency and window:   *)
(* ReaderInv is inductive.  That a chain finds the first page that nothing    *)
(* covers is the least-number principle.                                     *)
EXTENDS ReaderPrefetch, FiniteSetTheorems, WellFoundedInduction, TLAPS

USE PrefetchAssumption

-----------------------------------------------------------------------------
(* What prefetchPage starts. *)

\* Every set of naturals that is not empty has a least element.
LEMMA LeastNatural ==
  ASSUME NEW S \in SUBSET Nat, S # {}
  PROVE  \E m \in S : \A k \in S : m <= k
<1> DEFINE R == OpToRel(<, Nat)
<1>1. IsWellFoundedOn(R, Nat)
  BY NatLessThanWellFounded, Zenon
<1>2. \A a, b \in Nat : a < b => <<a, b>> \in R
  BY Zenon DEF OpToRel
<1> HIDE DEF R
<1>3. PICK m \in S : \A k \in S : <<k, m>> \notin R
  BY <1>1, WFMin, Zenon
<1>4. \A k \in S : ~(k < m)
  BY <1>2, <1>3
<1> QED BY <1>4

\* The pages are a finite set, and so is every set of them.
LEMMA FinitePages ==
  ASSUME NEW S \in SUBSET Pages
  PROVE  IsFiniteSet(S) /\ Cardinality(S) \in Nat
<1>1. IsFiniteSet(Pages)
  BY FS_Interval DEF Pages
<1> QED BY <1>1, FS_Subset, FS_CardinalityType

LEMMA SlotsPositive == ReaderTypeOK => Slots \in Nat /\ Slots > 0 /\ Steps \in Nat /\ Steps > 0
  BY DEF ReaderTypeOK, Slots, Steps

\* prefetchPage starts one page at most.
LEMMA StartsOne ==
  ASSUME ReaderTypeOK, NEW p \in Int, NEW asked, NEW done, NEW n
  PROVE  LET S == Starts(p, asked, done, n) IN S = {} \/ \E q \in Pages : S = {q}
<1> DEFINE S == Starts(p, asked, done, n)
<1>1. S \subseteq Pages
  BY DEF Starts
<1>2. ASSUME NEW q \in S, NEW r \in S
      PROVE  q = r
  <2>1. CASE proxy
    <3>1. ASSUME NEW a \in S, NEW b \in S, a < b
          PROVE  FALSE
      <4>1. a \in p..b - 1 /\ CanPrefetch(a, asked, done)
        BY <2>1, <3>1 DEF Starts, Pages
      <4> QED BY <2>1, <3>1, <4>1 DEF Starts
    <3> QED BY <1>1, <3>1 DEF Pages
  <2>2. CASE ~proxy
    BY <2>2 DEF Starts
  <2> QED BY <2>1, <2>2
<1> QED BY <1>1, <1>2

\* Below the page that a chain starts everything is covered, and everything is
\* where it starts none.
LEMMA ChainStarts ==
  ASSUME ReaderTypeOK, proxy, NEW p \in Nat, p > 0, NEW asked, NEW done, NEW n \in Nat, n < Slots
  PROVE  LET S == Starts(p, asked, done, n) IN
         \/ S = {} /\ \A r \in p..PageCount : r \in Videos \cup done \cup asked
         \/ \E q \in Pages : S = {q} /\ p <= q /\ \A r \in p..q - 1 : r \in Videos \cup done \cup asked
<1> DEFINE S == Starts(p, asked, done, n)
           T == {r \in p..PageCount : CanPrefetch(r, asked, done)}
<1>1. CASE S = {}
  <2>1. T = {}
    <3> SUFFICES ASSUME T # {} PROVE FALSE
      OBVIOUS
    <3>0. T \in SUBSET Nat
      OBVIOUS
    <3> HIDE DEF T
    <3>1. PICK m \in T : \A k \in T : m <= k
      BY <3>0, LeastNatural
    <3> USE DEF T
    <3>2. m \in Pages /\ p \in Pages /\ p <= m
      BY DEF Pages
    <3>3. \A r \in p..m - 1 : ~CanPrefetch(r, asked, done)
      BY <3>1, <3>2 DEF Pages
    <3>4. listing[m] = "ready"
      BY <3>2 DEF ReaderTypeOK
    <3>5. m \in S
      BY <3>2, <3>3, <3>4 DEF Starts
    <3> QED BY <1>1, <3>5
  <2> QED BY <1>1, <2>1 DEF CanPrefetch
<1>2. ASSUME NEW q \in Pages, S = {q}
      PROVE  p <= q /\ \A r \in p..q - 1 : r \in Videos \cup done \cup asked
  <2>1. q \in S
    BY <1>2
  <2> QED BY <2>1 DEF Starts, CanPrefetch
<1> QED BY <1>1, <1>2, StartsOne

\* A request that is started takes a slot that was free, for a page nothing covers.
Started(p, asked, done, S, m) ==
  /\ S \subseteq Pages
  /\ m \in Nat /\ m = Cardinality(asked \cup S) /\ m <= Slots
  /\ \A q \in S : q \notin Videos \cup done /\ IF proxy THEN q >= p ELSE q = p

LEMMA StartKeeps ==
  ASSUME ReaderTypeOK, NEW p \in Int, NEW asked \in SUBSET Pages, NEW done,
         NEW n \in Nat, n = Cardinality(asked), n <= Slots,
         NEW S, S = Starts(p, asked, done, n), NEW m, m = IF S = {} THEN n ELSE n + 1
  PROVE  Started(p, asked, done, S, m)
<1>1. \A q \in S : /\ q \in Pages /\ q \notin asked \cup Videos \cup done /\ n < Slots
                   /\ IF proxy THEN q >= p ELSE q = p
  BY DEF Starts, CanPrefetch
<1>2. Slots \in Nat
  BY SlotsPositive
<1>3. ASSUME S = {}
      PROVE  m \in Nat /\ m = Cardinality(asked \cup S) /\ m <= Slots
  BY <1>2, <1>3
<1>4. ASSUME NEW q \in Pages, S = {q}
      PROVE  m \in Nat /\ m = Cardinality(asked \cup S) /\ m <= Slots
  <2>1. q \notin asked /\ n < Slots
    BY <1>1, <1>4
  <2>2. Cardinality(asked \cup {q}) = n + 1
    BY <2>1, FinitePages, FS_AddElement
  <2>3. m = n + 1
    BY <1>4
  <2> QED BY <1>2, <1>4, <2>1, <2>2, <2>3
<1>5. S = {} \/ \E q \in Pages : S = {q}
  BY StartsOne
<1>6. m \in Nat /\ m = Cardinality(asked \cup S) /\ m <= Slots
  BY <1>3, <1>4, <1>5
<1>7. \A q \in S : q \in Pages /\ q \notin Videos \cup done
  BY <1>1
<1>8. \A q \in S : IF proxy THEN q >= p ELSE q = p
  BY <1>1
<1> QED BY <1>6, <1>7, <1>8 DEF Started

\* The steps of a pass stay in it or end it.
LEMMA PassKeeps ==
  ASSUME ReaderTypeOK, NEW px \in Nat, NEW k \in BOOLEAN, at # 0, NextStep(px, k) \/ Passes(again)
  PROVE  /\ at' \in 0..Steps /\ again' \in 0..1 /\ pixels' \in Nat /\ kept' \in BOOLEAN
         /\ \/ at < Steps /\ at' = at + 1 /\ kept' = k
            \/ (at = Steps \/ Passes(again)) /\ at' = (IF again = 0 THEN 0 ELSE 1) /\ kept' = FALSE
<1>1. Steps \in Nat /\ Steps > 0 /\ at \in 1..Steps /\ again \in 0..1
  BY SlotsPositive DEF ReaderTypeOK
<1>2. CASE Passes(again)
  <2>1. at' = (IF again = 0 THEN 0 ELSE 1) /\ again' = (IF again = 0 THEN 0 ELSE again - 1) /\ pixels' = 0
    BY <1>2 DEF Passes
  <2>2. kept' = FALSE
    BY <1>2 DEF Passes
  <2>3. at' \in 0..Steps /\ again' \in 0..1 /\ pixels' \in Nat
    BY <1>1, <2>1
  <2> QED BY <1>2, <2>1, <2>2, <2>3, Zenon
<1>3. CASE at < Steps /\ NextStep(px, k)
  <2>1. at' = at + 1 /\ again' = again /\ pixels' = px /\ at' \in 0..Steps
    BY <1>1, <1>3 DEF NextStep
  <2>2. kept' = k
    BY <1>3 DEF NextStep
  <2> QED BY <1>1, <1>3, <2>1, <2>2, Zenon
<1>4. NextStep(px, k) => at < Steps \/ Passes(again)
  BY DEF NextStep
<1> QED BY <1>2, <1>3, <1>4

\* Removing a page that was asked for frees its slot.
LEMMA OneLess ==
  ASSUME ReaderTypeOK, SlotsCounted, mounted, NEW p \in active
  PROVE  LET n == Less(count, 1) IN
         n \in Nat /\ n = Cardinality(active \ {p}) /\ n < Slots
<1>1. IsFiniteSet(active) /\ Cardinality(active) \in Nat
  BY FinitePages DEF ReaderTypeOK
<1>2. Cardinality(active \ {p}) = Cardinality(active) - 1 /\ Cardinality(active \ {p}) \in Nat
  BY <1>1, FS_RemoveElement, FinitePages DEF ReaderTypeOK
<1> QED BY <1>1, <1>2, SlotsPositive DEF Less, SlotsCounted

-----------------------------------------------------------------------------
(* The type, the slots, what is fetched and how far: the parts of ReaderInv    *)
(* that each action keeps by what it starts.                                 *)

BasicInv == ReaderTypeOK /\ SlotsCounted /\ FetchedOnce /\ InReach

LEMMA InitBasic == ReaderInit => BasicInv
<1> SUFFICES ASSUME ReaderInit PROVE BasicInv
  OBVIOUS
<1>1. ReaderTypeOK
  <2>1. at \in 0..Steps
    BY DEF ReaderInit, Steps
  <2>2. listing \in [Pages -> PageState] /\ (proxy => listing = [p \in Pages |-> "ready"])
    BY DEF ReaderInit, PageState
  <2>3. currentPage \in Pages /\ active \subseteq Pages /\ fresh \subseteq active /\ prefetched \subseteq Pages
        /\ passedOver \subseteq Pages
    BY DEF ReaderInit
  <2>4. count \in Nat /\ again \in 0..1 /\ pixels \in Nat /\ commits \in 0..MaxCommits
    BY DEF ReaderInit
  <2>5. proxy \in BOOLEAN /\ mounted \in BOOLEAN /\ kept \in BOOLEAN /\ masked \in BOOLEAN /\ mounted
    BY Zenon DEF ReaderInit
  <2> QED BY <2>1, <2>2, <2>3, <2>4, <2>5, Zenon DEF ReaderTypeOK
<1>2. SlotsCounted
  BY <1>1, SlotsPositive, FS_EmptySet DEF ReaderInit, SlotsCounted
<1> QED BY <1>1, <1>2 DEF BasicInv, ReaderInit, FetchedOnce, InReach

LEMMA OffsetRange ==
  ASSUME ReaderTypeOK, NEW i \in 1..Steps
  PROVE  Offset(i) \in Int /\ IF proxy THEN Offset(i) > 0 ELSE Offset(i) \in 0 - Behind..Ahead
  BY DEF ReaderTypeOK, Offset, Steps

\* A page turn aborts what is out of reach and gives back exactly those slots.
LEMMA TurnBasic ==
  ASSUME BasicInv, NEW q \in Pages, NEW list \in Listings \cup {listing}, Render(q, list),
         proxy => list = listing
  PROVE  BasicInv'
<1> USE DEF BasicInv
<1> DEFINE aborted == active \ Reach(q)
<1>1. /\ ReaderTypeOK /\ mounted /\ at = 0 /\ proxy' = proxy /\ mounted' = mounted
      /\ currentPage' = q /\ prefetched' = prefetched
  BY DEF Render
<1>2. /\ active' = active \/ (active' = active \ aborted /\ q # currentPage)
      /\ count' = Cardinality(active') /\ count' \in Nat /\ Cardinality(active') <= Cardinality(active)
      /\ fresh' \subseteq active' /\ passedOver' \subseteq Pages
      /\ q = currentPage => active' = active
  <2>1. CASE q = currentPage
    <3>1. active' = active /\ fresh' = fresh /\ count' = count /\ passedOver' = passedOver
      BY <2>1 DEF Render
    <3> QED BY <1>1, <2>1, <3>1, FinitePages DEF SlotsCounted, ReaderTypeOK
  <2>2. CASE q # currentPage
    <3>1. Turn(q)
      BY <2>2 DEF Render
    <3>2. /\ IsFiniteSet(active) /\ Cardinality(active) \in Nat
          /\ Cardinality(aborted) \in Nat /\ Cardinality(active \ aborted) \in Nat
      BY FinitePages DEF ReaderTypeOK
    <3>3. Cardinality(active \ aborted) = Cardinality(active) - Cardinality(active \cap aborted)
      BY <3>2, FS_Difference
    <3>4. active \cap aborted = aborted
      OBVIOUS
    <3>5. count = Cardinality(active)
      BY <1>1 DEF SlotsCounted
    <3>6. count' = Cardinality(active \ aborted)
      <4>1. count' = Less(count, Cardinality(aborted))
        BY <3>1 DEF Turn
      <4>2. Cardinality(active \ aborted) = Cardinality(active) - Cardinality(aborted)
        BY <3>3, <3>4
      <4> HIDE DEF aborted
      <4> QED BY <3>2, <3>5, <4>1, <4>2 DEF Less
    <3>7. active' = active \ aborted /\ fresh' = {} /\ passedOver' = {}
      BY <3>1 DEF Turn
    <3>8. Cardinality(active \ aborted) <= Cardinality(active)
      BY <3>2, FS_Subset
    <3> QED BY <2>2, <3>2, <3>6, <3>7, <3>8
  <2> QED BY <2>1, <2>2
<1>3. at' \in 0..Steps /\ again' \in 0..1 /\ pixels' \in Nat /\ kept' \in BOOLEAN
  <2>1. PICK n \in 0..2 : Passes(n)
    BY DEF Render
  <2>2. at' \in 0..Steps /\ again' \in 0..1 /\ pixels' \in Nat
    BY <2>1, SlotsPositive DEF Passes
  <2>3. kept' = FALSE
    BY <2>1 DEF Passes
  <2> QED BY <2>2, <2>3
<1>4. Steps' = Steps /\ Slots' = Slots
  BY <1>1 DEF Steps, Slots
<1>5. ReaderTypeOK'
  <2>1. listing' = list /\ commits' \in 0..MaxCommits /\ masked' \in BOOLEAN
    BY DEF Render, ReaderTypeOK
  <2> QED BY <1>1, <1>2, <1>3, <1>4, <2>1 DEF ReaderTypeOK
<1>6. SlotsCounted'
  <2>1. Cardinality(active) <= Slots /\ Cardinality(active) \in Nat
    BY <1>1, FinitePages DEF SlotsCounted, ReaderTypeOK
  <2> QED BY <1>1, <1>2, <1>4, <2>1, SlotsPositive DEF SlotsCounted
<1>7. FetchedOnce'
  BY <1>1, <1>2 DEF FetchedOnce
<1>8. InReach'
  <2>1. CASE q = currentPage
    BY <1>1, <1>2, <2>1 DEF InReach, Reach
  <2>2. CASE q # currentPage
    <3>1. active' \subseteq Reach(q)
      BY <2>2 DEF Render, Turn
    <3> QED BY <1>1, <3>1 DEF InReach, Reach, Pages
  <2> QED BY <2>1, <2>2
<1> QED BY <1>5, <1>6, <1>7, <1>8

LEMMA PassStepBasic ==
  ASSUME BasicInv, PassStep
  PROVE  BasicInv'
<1> USE DEF BasicInv
<1>1. /\ at # 0 /\ mounted /\ prefetched' = prefetched
      /\ proxy' = proxy /\ mounted' = mounted /\ currentPage' = currentPage /\ listing' = listing
      /\ passedOver' = passedOver /\ masked' = masked /\ commits' = commits
  BY DEF PassStep, shownVars, ReaderTypeOK, ReaderAtRest
<1>2. at \in 1..Steps /\ currentPage \in Nat /\ count = Cardinality(active) /\ count <= Slots /\ count \in Nat
  BY <1>1 DEF ReaderTypeOK, SlotsCounted, Pages
<1>3. Steps' = Steps /\ Slots' = Slots
  BY <1>1 DEF Steps, Slots
<1>4. ASSUME NEW p \in Int, Start(Starts(p, active, prefetched, count), active, fresh, count),
             NEW px \in Nat, NEW k \in BOOLEAN, NextStep(px, k), p = currentPage + Offset(at)
      PROVE  BasicInv'
  <2>1. /\ active' \subseteq Pages /\ fresh' \subseteq active'
        /\ count' \in Nat /\ count' = Cardinality(active') /\ count' <= Slots
        /\ \A q \in active' \ active :
             q \notin Videos \cup prefetched /\ IF proxy THEN q >= p ELSE q = p
    <3>1. active \in SUBSET Pages /\ fresh \in SUBSET active
      BY DEF ReaderTypeOK
    <3>2. PICK S : /\ S = Starts(p, active, prefetched, count) /\ active' = active \cup S
                   /\ fresh' = fresh \cup S /\ count' = IF S = {} THEN count ELSE count + 1
      BY <1>4 DEF Start
    <3>3. /\ S \subseteq Pages /\ count' \in Nat /\ count' = Cardinality(active \cup S) /\ count' <= Slots
          /\ \A q \in S : q \notin Videos \cup prefetched /\ IF proxy THEN q >= p ELSE q = p
      <4>1. ReaderTypeOK
        OBVIOUS
      <4>2. count \in Nat /\ count = Cardinality(active) /\ count <= Slots
        BY <1>2
      <4>3. S = Starts(p, active, prefetched, count) /\ count' = IF S = {} THEN count ELSE count + 1
        BY <3>2
      <4>4. PICK asked, n, done, m : asked = active /\ n = count /\ done = prefetched /\ m = count'
        OBVIOUS
      <4>5. /\ asked \in SUBSET Pages /\ n \in Nat /\ n = Cardinality(asked) /\ n <= Slots
            /\ S = Starts(p, asked, done, n) /\ m = IF S = {} THEN n ELSE n + 1
        BY <3>1, <4>2, <4>3, <4>4
      <4> HIDE DEF BasicInv
      <4>6. Started(p, asked, done, S, m)
        BY <4>1, <4>5, StartKeeps
      <4> QED BY <4>4, <4>6 DEF Started
    <3> QED BY <3>1, <3>2, <3>3
  <2>2. at' \in 0..Steps /\ again' \in 0..1 /\ pixels' \in Nat /\ kept' \in BOOLEAN
    BY <1>1, <1>4, PassKeeps
  <2>3. ReaderTypeOK'
    BY <1>1, <1>3, <2>1, <2>2 DEF ReaderTypeOK
  <2>4. FetchedOnce'
    BY <1>1, <2>1 DEF FetchedOnce
  <2>5. InReach'
    <3> SUFFICES ASSUME NEW q \in active'
                 PROVE  IF proxy THEN q >= currentPage
                        ELSE q \in currentPage - Behind..currentPage + Ahead \/ q \in Reach(currentPage)
      BY <1>1 DEF InReach, Reach
    <3>1. CASE q \in active
      BY <3>1 DEF InReach
    <3>2. CASE q \notin active
      <4>1. q \in Nat /\ IF proxy THEN q >= currentPage + Offset(at) ELSE q = currentPage + Offset(at)
        BY <1>4, <2>1, <3>2 DEF Pages
      <4>2. Offset(at) \in Int /\ IF proxy THEN Offset(at) > 0 ELSE Offset(at) \in 0 - Behind..Ahead
        BY <1>2, OffsetRange
      <4> QED BY <1>2, <4>1, <4>2
    <3> QED BY <3>1, <3>2
  <2>6. SlotsCounted'
    BY <1>1, <1>3, <2>1 DEF SlotsCounted
  <2> QED BY <2>3, <2>4, <2>5, <2>6
<1>5. CASE ProxyStep
  <2> DEFINE p == currentPage + at
  <2>1. /\ p \in Int /\ p = currentPage + Offset(at)
        /\ Start(Starts(p, active, prefetched, count), active, fresh, count)
    BY <1>2, <1>5 DEF ProxyStep, Offset
  <2>2. NextStep(0, FALSE)
    BY <1>5 DEF ProxyStep
  <2> QED BY <1>4, <2>1, <2>2
<1>6. ASSUME UNCHANGED slotVars, NEW px \in Nat, NEW k \in BOOLEAN, NextStep(px, k) \/ Passes(again)
      PROVE  BasicInv'
  <2>1. at' \in 0..Steps /\ again' \in 0..1 /\ pixels' \in Nat /\ kept' \in BOOLEAN
    BY <1>1, <1>6, PassKeeps
  <2> QED BY <1>1, <1>3, <1>6, <2>1 DEF slotVars, ReaderTypeOK, SlotsCounted, FetchedOnce, InReach, Reach
<1>7. CASE SkipStep
  <2>1. pixels \in Nat /\ kept \in BOOLEAN
    BY DEF ReaderTypeOK
  <2> QED BY <1>6, <1>7, <2>1 DEF SkipStep
<1>8. CASE LocalStep
  <2> DEFINE p == currentPage + Offset(at)
             sum == pixels + Pixels[p]
  <2>1. p \in Pages /\ p \in Int /\ sum \in Nat
    BY <1>8 DEF LocalStep, Candidates, ReaderTypeOK, Pages
  <2>2. CASE kept /\ sum > PixelBudget
    BY <1>6, <1>8, <2>2 DEF LocalStep
  <2>3. CASE ~(kept /\ sum > PixelBudget)
    BY <1>4, <1>8, <2>1, <2>3 DEF LocalStep
  <2> QED BY <2>2, <2>3
<1> QED BY <1>5, <1>7, <1>8 DEF PassStep

\* A request of a chain ends: its slot is free, and the chain goes on with S.
LEMMA ChainGoesOn ==
  ASSUME BasicInv, proxy, NEW p \in active, Settle(p) \/ TimeOut(p)
  PROVE  \E S, done :
           /\ done = prefetched \cup {p} \/ (done = prefetched /\ passedOver' = passedOver \cup ({p} \cap fresh))
           /\ prefetched' = done /\ passedOver \subseteq passedOver' /\ passedOver' \subseteq Pages
           /\ S = Starts(NextInChain(p), active \ {p}, done, Less(count, 1))
           /\ active' = (active \ {p}) \cup S /\ fresh' = (fresh \ {p}) \cup S
           /\ count' = IF S = {} THEN Less(count, 1) ELSE Less(count, 1) + 1
<1> USE DEF BasicInv
<1>1. CASE Settle(p)
  <2>1. GoOn(p, prefetched \cup {p}) /\ prefetched' = prefetched \cup {p} /\ passedOver' = passedOver
    BY <1>1 DEF Settle
  <2> QED BY <2>1 DEF GoOn, Start, ReaderTypeOK
<1>2. CASE TimeOut(p)
  <2>1. GoOn(p, prefetched) /\ prefetched' = prefetched /\ passedOver' = passedOver \cup ({p} \cap fresh)
    BY <1>2 DEF TimeOut
  <2> QED BY <2>1 DEF GoOn, Start, ReaderTypeOK
<1> QED BY <1>1, <1>2

\* What a request that ends leaves as it is.
LEMMA EndFrame ==
  ASSUME NEW p \in active, Settle(p) \/ TimeOut(p)
  PROVE  /\ mounted /\ at = 0 /\ proxy' = proxy /\ mounted' = mounted /\ currentPage' = currentPage
         /\ listing' = listing /\ commits' = commits
         /\ proxy => at' = at /\ again' = again /\ pixels' = pixels /\ kept' = kept /\ masked' = masked
         /\ ~proxy => /\ Settle(p) /\ active' = active \ {p} /\ fresh' = fresh \ {p}
                      /\ count' = Less(count, 1) /\ prefetched' = prefetched \cup {p}
                      /\ passedOver' = passedOver /\ Passes(1) /\ masked' = FALSE
  BY DEF Settle, TimeOut, GoOn, TopUp, shownVars, passVars

LEMMA EndBasic ==
  ASSUME BasicInv, NEW p \in active, Settle(p) \/ TimeOut(p)
  PROVE  BasicInv'
<1> USE DEF BasicInv
<1>1. /\ mounted /\ at = 0 /\ proxy' = proxy /\ mounted' = mounted /\ currentPage' = currentPage
      /\ listing' = listing /\ commits' = commits
  BY EndFrame
<1>2. Steps' = Steps /\ Slots' = Slots
  BY <1>1 DEF Steps, Slots
<1>3. /\ p \in Pages /\ active \ {p} \in SUBSET Pages /\ currentPage \in Nat
      /\ Less(count, 1) \in Nat /\ Less(count, 1) = Cardinality(active \ {p}) /\ Less(count, 1) <= Slots
  <2>1. /\ Less(count, 1) \in Nat /\ Less(count, 1) = Cardinality(active \ {p})
        /\ Less(count, 1) < Slots /\ Slots \in Nat
    BY <1>1, OneLess, SlotsPositive
  <2>2. active \in SUBSET Pages /\ p \in Pages /\ currentPage \in Pages
    BY DEF ReaderTypeOK
  <2>3. currentPage \in Nat
    BY <2>2 DEF Pages
  <2> HIDE DEF BasicInv
  <2> QED BY <2>1, <2>2, <2>3
<1>4. CASE proxy
  <2>1. PICK S, done :
           /\ done = prefetched \cup {p} \/ done = prefetched
           /\ prefetched' = done /\ passedOver' \subseteq Pages
           /\ S = Starts(NextInChain(p), active \ {p}, done, Less(count, 1))
           /\ active' = (active \ {p}) \cup S /\ fresh' = (fresh \ {p}) \cup S
           /\ count' = IF S = {} THEN Less(count, 1) ELSE Less(count, 1) + 1
    BY <1>4, ChainGoesOn
  <2>2. NextInChain(p) \in Int /\ NextInChain(p) >= currentPage
    BY <1>3, <1>4 DEF NextInChain, InReach, Pages
  <2>3. /\ S \subseteq Pages /\ count' \in Nat /\ count' = Cardinality((active \ {p}) \cup S)
        /\ count' <= Slots
        /\ \A q \in S : q \notin Videos \cup done /\ IF proxy THEN q >= NextInChain(p) ELSE q = NextInChain(p)
    <3>1. ReaderTypeOK
      OBVIOUS
    <3>2. PICK n, asked, next : n = Less(count, 1) /\ asked = active \ {p} /\ next = NextInChain(p)
      OBVIOUS
    <3>3. /\ asked \in SUBSET Pages /\ n \in Nat /\ n = Cardinality(asked) /\ n <= Slots /\ next \in Int
          /\ S = Starts(next, asked, done, n) /\ count' = IF S = {} THEN n ELSE n + 1
      BY <1>3, <2>1, <2>2, <3>2
    <3> HIDE DEF BasicInv
    <3>4. Started(next, asked, done, S, count')
      BY <3>1, <3>3, StartKeeps
    <3> QED BY <3>2, <3>4 DEF Started
  <2>4. at' = at /\ again' = again /\ pixels' = pixels /\ kept' = kept /\ masked' = masked
    BY <1>4, EndFrame
  <2>5. ReaderTypeOK'
    BY <1>1, <1>2, <1>3, <2>1, <2>3, <2>4 DEF ReaderTypeOK
  <2>6. FetchedOnce'
    BY <2>1, <2>3 DEF FetchedOnce
  <2>7. InReach'
    <3>1. \A q \in S : q >= currentPage
      <4>1. \A q \in S : q \in Nat /\ q >= NextInChain(p)
        BY <1>4, <2>3 DEF Pages
      <4> QED BY <1>3, <2>2, <4>1
    <3> QED BY <1>1, <1>4, <2>1, <3>1 DEF InReach
  <2>8. SlotsCounted'
    BY <1>1, <1>2, <2>1, <2>3 DEF SlotsCounted
  <2> QED BY <2>5, <2>6, <2>7, <2>8
<1>5. CASE ~proxy
  <2>1. /\ active' = active \ {p} /\ fresh' = fresh \ {p} /\ count' = Less(count, 1)
        /\ prefetched' = prefetched \cup {p} /\ passedOver' = passedOver
        /\ Passes(1) /\ masked' = FALSE
    BY <1>5, EndFrame
  <2>2. at' = 1 /\ again' = 0 /\ pixels' = 0 /\ kept' = FALSE
    BY <2>1 DEF Passes
  <2>3. ReaderTypeOK'
    <3>1. at' \in 0..Steps /\ again' \in 0..1 /\ pixels' \in Nat
      BY <2>2, SlotsPositive
    <3>2. kept' \in BOOLEAN /\ masked' \in BOOLEAN
      BY <2>1, <2>2
    <3> QED BY <1>1, <1>2, <1>3, <2>1, <3>1, <3>2 DEF ReaderTypeOK
  <2> QED BY <1>1, <1>2, <1>3, <2>1, <2>3 DEF SlotsCounted, FetchedOnce, InReach, Reach
<1> QED BY <1>4, <1>5

LEMMA CloseBasic ==
  ASSUME BasicInv, Close
  PROVE  BasicInv'
<1>1. Steps' = Steps
  BY DEF Close, Steps
<1>2. ReaderTypeOK'
  BY <1>1 DEF BasicInv, ReaderTypeOK, Close, ReaderAtRest, passVars
<1> QED BY <1>2 DEF BasicInv, Close, SlotsCounted, FetchedOnce, InReach

-----------------------------------------------------------------------------
(* The chains and the window: what is not covered is still to be come to.     *)

OrderInv == ChainInv /\ PassInv /\ NotStalled

LEMMA InitOrder == ReaderInit => OrderInv
<1> SUFFICES ASSUME ReaderInit PROVE OrderInv
  OBVIOUS
<1>1. at = 1 /\ fresh = {} /\ kept = FALSE /\ masked = FALSE
  BY DEF ReaderInit
<1>2. 1..at - 1 = {}
  BY <1>1
<1> QED BY <1>1, <1>2 DEF OrderInv, ChainInv, PassInv, NotStalled

\* A commit begins a pass, or leaves what the window can have as it was.
LEMMA RenderOrder ==
  ASSUME BasicInv, OrderInv, NEW q \in Pages, NEW list \in Listings \cup {listing},
         Render(q, list), proxy => list = listing
  PROVE  OrderInv'
<1>1. /\ mounted /\ at = 0 /\ proxy' = proxy /\ currentPage' = q /\ listing' = list
      /\ prefetched' = prefetched /\ mounted' = mounted
  BY DEF Render
<1>2. ChainInv'
  <2>1. CASE q = currentPage
    <3>1. active' = active /\ fresh' = fresh /\ passedOver' = passedOver
      BY <2>1 DEF Render
    <3> QED BY <1>1, <2>1, <3>1 DEF OrderInv, ChainInv, Due, Covered
  <2>2. CASE q # currentPage
    BY <2>2 DEF Render, Turn, ChainInv
  <2> QED BY <2>1, <2>2
<1>3. PICK n \in 0..2 : Passes(n) /\ (q # currentPage => n > 0)
                        /\ masked' = (n = 0 /\ (masked \/ Candidates' # Candidates))
  <2> DEFINE due == (IF q # currentPage THEN 1 ELSE 0)
                    + (IF PrefetchableKey(list) # PrefetchableKey(listing) THEN 1 ELSE 0)
  <2>1. due \in 0..2 /\ (q # currentPage => due > 0)
    OBVIOUS
  <2>2. Passes(due) /\ masked' = (due = 0 /\ (masked \/ Candidates' # Candidates))
    BY DEF Render
  <2> HIDE DEF due
  <2> QED BY <2>1, <2>2
<1>4. CASE n > 0
  <2>1. at' = 1 /\ kept' = FALSE /\ masked' = FALSE
    <3>1. n # 0
      BY <1>4
    <3> QED BY <1>3, <3>1, Zenon DEF Passes
  <2>2. 1..at' - 1 = {}
    BY <2>1
  <2> QED BY <1>2, <2>1, <2>2 DEF OrderInv, PassInv, NotStalled
<1>5. CASE n = 0
  <2>1. at' = 0 /\ q = currentPage /\ kept' = FALSE
    BY <1>3, <1>5 DEF Passes
  <2>2. active' = active /\ passedOver' = passedOver /\ currentPage' = currentPage /\ Steps' = Steps
    BY <1>1, <2>1 DEF Render, Steps
  <2>3. PassInv'
    BY <2>1 DEF PassInv
  <2>4. NotStalled'
    <3>1. CASE proxy
      <4>1. listing' = listing
        BY <1>1, <3>1
      <4> QED BY <1>1, <2>2, <3>1, <4>1 DEF OrderInv, NotStalled, Covered
    <3>2. CASE ~proxy /\ ~masked'
      <4>1. ~masked /\ Candidates' = Candidates
        BY <1>3, <1>5, <3>2
      <4>2. \A i : Offset(i)' = Offset(i)
        BY <1>1 DEF Offset
      <4>3. \A i : FirstOf(i)' = FirstOf(i)
        BY <2>2, <4>1, <4>2 DEF FirstOf
      <4> QED BY <1>1, <2>2, <3>2, <4>1, <4>2, <4>3 DEF OrderInv, NotStalled
    <3>3. CASE ~proxy /\ masked'
      BY <1>1, <3>3 DEF NotStalled
    <3> QED BY <3>1, <3>2, <3>3
  <2> QED BY <1>2, <2>3, <2>4 DEF OrderInv
<1> QED BY <1>4, <1>5

\* A step of a pass over a chain: the pages it has been over are covered as long
\* as a slot is free.
LEMMA ProxyStepOrder ==
  ASSUME BasicInv, OrderInv, PassStep, proxy
  PROVE  OrderInv'
<1> DEFINE p == currentPage + at
           S == Starts(p, active, prefetched, count)
<1>1. /\ ReaderTypeOK /\ at # 0 /\ mounted /\ prefetched' = prefetched
      /\ proxy' = proxy /\ mounted' = mounted /\ currentPage' = currentPage /\ passedOver' = passedOver
  BY DEF PassStep, shownVars, BasicInv, ReaderTypeOK, ReaderAtRest
<1>2. /\ at \in 1..ProxySlots /\ currentPage \in Nat /\ currentPage > 0 /\ p \in Nat /\ p > currentPage
      /\ Slots = ProxySlots /\ Steps = ProxySlots /\ Slots' = Slots /\ Steps' = Steps
      /\ count \in Nat /\ count = Cardinality(active) /\ PageCount \in Nat /\ p > 0 /\ again \in 0..1
  BY <1>1 DEF ReaderTypeOK, BasicInv, SlotsCounted, Pages, Slots, Steps
<1>3. ProxyStep
  BY DEF PassStep, SkipStep, LocalStep
<1>4. /\ active' = active \cup S /\ fresh' = fresh \cup S
      /\ count' = IF S = {} THEN count ELSE count + 1
  BY <1>3 DEF ProxyStep, Start
<1>5. \/ at < ProxySlots /\ at' = at + 1
      \/ at = ProxySlots /\ at' = (IF again = 0 THEN 0 ELSE 1)
  BY <1>2, <1>3 DEF ProxyStep, NextStep, Passes
<1>6. \A q \in Pages : Covered(q) => Covered(q)'
  BY <1>1, <1>4 DEF Covered
<1>7. count < Slots =>
        /\ \A q \in currentPage + 1..p - 1 : q \in Pages => Covered(q)
        /\ \/ S = {} /\ \A r \in p..PageCount : Covered(r)
           \/ \E q \in Pages : S = {q} /\ p <= q /\ \A r \in p..q - 1 : Covered(r)
  <2> SUFFICES ASSUME count < Slots
               PROVE  /\ \A q \in currentPage + 1..p - 1 : q \in Pages => Covered(q)
                      /\ \/ S = {} /\ \A r \in p..PageCount : Covered(r)
                         \/ \E q \in Pages : S = {q} /\ p <= q /\ \A r \in p..q - 1 : Covered(r)
    OBVIOUS
  <2>1. \A q \in currentPage + 1..p - 1 : q \in Pages => Covered(q)
    BY <1>1, <1>2 DEF OrderInv, PassInv
  <2>2. \/ S = {} /\ \A r \in p..PageCount : r \in Videos \cup prefetched \cup active
        \/ \E q \in Pages : S = {q} /\ p <= q /\ \A r \in p..q - 1 : r \in Videos \cup prefetched \cup active
    BY <1>1, <1>2, ChainStarts
  <2> QED BY <2>1, <2>2 DEF Covered
<1>8. S # {} => count < Slots
  BY DEF Starts
<1> HIDE DEF S
<1>9. ChainInv'
  <2> SUFFICES ASSUME NEW f \in fresh', NEW q \in currentPage + 1..f
               PROVE  Due(q)'
    BY <1>1 DEF ChainInv
  <2>1. CASE f \in fresh
    BY <1>1, <1>4, <2>1, <1>6 DEF OrderInv, ChainInv, Due, Covered
  <2>2. CASE f \in S
    <3>1. /\ S = {f} /\ p <= f /\ f \in Pages /\ \A r \in p..f - 1 : Covered(r)
          /\ \A r \in currentPage + 1..p - 1 : r \in Pages => Covered(r)
      BY <1>7, <1>8, <2>2
    <3>2. q \in Pages /\ f \in Nat /\ currentPage + 1 <= q /\ q <= f
      BY <1>2, <3>1 DEF Pages
    <3>3. CASE q = f
      BY <1>4, <2>2, <3>3 DEF Due, Covered
    <3>4. CASE q # f
      <4>1. Covered(q)
        BY <1>2, <3>1, <3>2, <3>4 DEF Pages
      <4> QED BY <3>2, <4>1, <1>6 DEF Due
    <3> QED BY <3>3, <3>4
  <2> QED BY <1>4, <2>1, <2>2
<1>10. count' < Slots => \A q \in currentPage + 1..p : q \in Pages => Covered(q)'
  <2> SUFFICES ASSUME count' < Slots, NEW q \in Pages, currentPage + 1 <= q, q <= p
               PROVE  Covered(q)'
    BY <1>2 DEF Pages
  <2>1. count < Slots
    BY <1>2, <1>4
  <2>2. CASE q < p
    BY <1>2, <1>6, <1>7, <2>1, <2>2 DEF Pages
  <2>3. CASE q = p
    <3>1. CASE S = {}
      BY <1>2, <1>6, <1>7, <2>1, <2>3, <3>1 DEF Pages
    <3>2. ASSUME NEW k \in Pages, S = {k}, p <= k, \A r \in p..k - 1 : Covered(r)
          PROVE  Covered(q)'
      <4>1. CASE k = q
        BY <1>4, <3>2, <4>1 DEF Covered
      <4>2. CASE k # q
        BY <1>2, <1>6, <2>3, <3>2, <4>2 DEF Pages
      <4> QED BY <4>1, <4>2
    <3> QED BY <1>7, <2>1, <3>1, <3>2
  <2> QED BY <1>2, <2>2, <2>3 DEF Pages
<1>11. PassInv'
  <2> SUFFICES ASSUME at' > 1, count' < Slots
               PROVE  \A q \in currentPage + 1..currentPage + at' - 1 : q \in Pages => Covered(q)'
    <3>1. count' \in Nat /\ Slots \in Nat
      BY <1>2, <1>4
    <3> QED BY <1>1, <1>2, <3>1 DEF PassInv
  <2>1. at' = at + 1
    BY <1>2, <1>5
  <2> QED BY <1>2, <1>10, <2>1
<1>12. NotStalled'
  <2> SUFFICES ASSUME at' = 0, active' = {}, NEW q \in currentPage + 1..PageCount
               PROVE  Covered(q)'
    BY <1>1 DEF NotStalled
  <2>1. S = {} /\ active = {} /\ count = 0 /\ count < Slots
    BY <1>2, <1>4, FS_EmptySet
  <2>2. q \in Pages
    BY <1>2 DEF Pages
  <2>3. CASE q < p
    BY <1>2, <1>6, <1>7, <2>1, <2>2, <2>3 DEF Pages
  <2>4. CASE q >= p
    BY <1>2, <1>6, <1>7, <2>1, <2>2, <2>4 DEF Pages
  <2> QED BY <1>2, <2>2, <2>3, <2>4 DEF Pages
<1> QED BY <1>9, <1>11, <1>12 DEF OrderInv

\* A step of a pass over a window: while nothing is in flight, the first page
\* that the window can have is there.
LEMMA WindowStepOrder ==
  ASSUME BasicInv, OrderInv, PassStep, ~proxy
  PROVE  OrderInv'
<1> DEFINE There(n) == \A i \in 1..n : FirstOf(i) => currentPage + Offset(i) \in prefetched
           Cand(i) == currentPage + Offset(i) \in Candidates
<1>1. /\ ReaderTypeOK /\ at # 0 /\ mounted /\ prefetched' = prefetched /\ masked' = masked
      /\ proxy' = proxy /\ mounted' = mounted /\ currentPage' = currentPage /\ listing' = listing
  BY DEF PassStep, shownVars, BasicInv, ReaderTypeOK, ReaderAtRest
<1>2. /\ at \in 1..Steps /\ Steps \in Nat /\ Steps' = Steps /\ again \in 0..1 /\ Slots > 0
      /\ kept \in BOOLEAN
  BY <1>1, SlotsPositive DEF ReaderTypeOK, Steps
<1>3. /\ ~masked /\ (kept <=> \E i \in 1..at - 1 : Cand(i))
      /\ at > 1 /\ active = {} => There(at - 1)
  BY <1>1, <1>2 DEF OrderInv, PassInv
<1>4. /\ \A i : Offset(i)' = Offset(i)
      /\ Candidates' = Candidates
      /\ \A i : FirstOf(i)' = FirstOf(i)
  BY <1>1 DEF Offset, Candidates, FirstOf
<1>5. ChainInv'
  BY <1>1 DEF ChainInv
\* What each step amounts to.
<1>6. ASSUME active' = {} => There(at), NEW k \in BOOLEAN, k <=> \E i \in 1..at : Cand(i),
             at < Steps, at' = at + 1, kept' = k
      PROVE  OrderInv'
  <2>1. PassInv'
    <3>1. at' - 1 = at
      BY <1>2, <1>6
    <3>2. kept' <=> \E i \in 1..at' - 1 : currentPage + Offset(i)' \in Candidates'
      BY <1>4, <1>6, <3>1
    <3>3. active' = {} => \A i \in 1..at' - 1 : FirstOf(i)' => currentPage + Offset(i)' \in prefetched
      BY <1>4, <1>6, <3>1
    <3> QED BY <1>1, <1>3, <3>2, <3>3 DEF PassInv
  <2>2. at' # 0
    BY <1>2, <1>6
  <2> QED BY <1>5, <2>1, <2>2 DEF OrderInv, NotStalled
<1>7. ASSUME active' = {} => There(Steps), at' = (IF again = 0 THEN 0 ELSE 1), kept' = FALSE
      PROVE  OrderInv'
  <2>1. CASE at' = 0
    <3>1. PassInv'
      BY <1>1, <2>1 DEF PassInv
    <3>2. NotStalled'
      BY <1>1, <1>2, <1>4, <1>7 DEF NotStalled
    <3> QED BY <1>5, <3>1, <3>2 DEF OrderInv
  <2>2. CASE at' = 1
    <3>1. 1..at' - 1 = {}
      BY <2>2
    <3>2. PassInv'
      BY <1>1, <1>3, <1>7, <2>2, <3>1 DEF PassInv
    <3> QED BY <1>5, <2>2, <3>2 DEF OrderInv, NotStalled
  <2> QED BY <1>7, <2>1, <2>2
<1>8. ASSUME NEW px \in Nat, NEW k \in BOOLEAN, NextStep(px, k),
             active' = {} => There(at), k <=> \E i \in 1..at : Cand(i)
      PROVE  OrderInv'
  <2>1. CASE at < Steps
    <3>1. at' = at + 1 /\ kept' = k
      BY <1>8, <2>1 DEF NextStep
    <3> QED BY <1>6, <1>8, <2>1, <3>1
  <2>2. CASE ~(at < Steps)
    <3>1. at = Steps
      BY <1>2, <2>2
    <3>2. at' = (IF again = 0 THEN 0 ELSE 1) /\ kept' = FALSE
      BY <1>8, <2>2 DEF NextStep, Passes
    <3> QED BY <1>7, <1>8, <3>1, <3>2
  <2> QED BY <2>1, <2>2
<1>9. CASE SkipStep
  <2>1. ~Cand(at) /\ NextStep(pixels, kept) /\ active' = active
    BY <1>9 DEF SkipStep, slotVars
  <2>2. ~FirstOf(at)
    BY <2>1 DEF FirstOf
  <2>3. active' = {} => There(at)
    BY <1>2, <1>3, <2>1, <2>2
  <2>4. kept <=> \E i \in 1..at : Cand(i)
    BY <1>2, <1>3, <2>1
  <2>5. pixels \in Nat
    BY <1>1 DEF ReaderTypeOK
  <2> QED BY <1>2, <1>8, <2>1, <2>3, <2>4, <2>5
<1>10. CASE LocalStep
  <2> DEFINE p == currentPage + Offset(at)
             sum == pixels + Pixels[p]
             S == Starts(p, active, prefetched, count)
  <2>1. Cand(at) /\ p \in Pages /\ sum \in Nat
    BY <1>1, <1>10 DEF LocalStep, Candidates, ReaderTypeOK
  <2>2. CASE kept /\ sum > PixelBudget
    <3>1. Passes(again) /\ active' = active
      BY <1>10, <2>2 DEF LocalStep, slotVars
    <3>2. PICK c \in 1..at - 1 : Cand(c)
      BY <1>3, <2>2
    <3>3. ASSUME NEW i \in 1..Steps, FirstOf(i)
          PROVE  i \in 1..at - 1
      BY <1>2, <3>2, <3>3 DEF FirstOf
    <3>4. active' = {} => There(Steps)
      BY <1>2, <1>3, <3>1, <3>2, <3>3
    <3>5. at' = (IF again = 0 THEN 0 ELSE 1) /\ kept' = FALSE
      BY <3>1 DEF Passes
    <3> QED BY <1>7, <3>4, <3>5
  <2>3. CASE ~(kept /\ sum > PixelBudget)
    <3>1. NextStep(sum, TRUE) /\ active' = active \cup S
      BY <1>10, <2>3 DEF LocalStep, Start
    <3>2. active' = {} => p \in prefetched
      <4> SUFFICES ASSUME active = {}, S = {} PROVE p \in prefetched
        BY <3>1
      <4>1. count = 0
        BY <1>1, FS_EmptySet DEF BasicInv, SlotsCounted
      <4>2. listing[p] = "ready" /\ p \notin Videos
        BY <1>10 DEF LocalStep, Candidates
      <4>3. p \notin S
        OBVIOUS
      <4> QED BY <1>2, <2>1, <4>1, <4>2, <4>3 DEF Starts, CanPrefetch
    <3>3. active' = {} => active = {}
      BY <3>1
    <3>4. active' = {} => There(at)
      BY <1>2, <1>3, <3>2, <3>3
    <3>5. TRUE <=> \E i \in 1..at : Cand(i)
      BY <1>2, <2>1
    <3> QED BY <1>8, <2>1, <3>1, <3>4, <3>5
  <2> QED BY <2>2, <2>3
<1> QED BY <1>9, <1>10 DEF PassStep, ProxyStep

\* A request of a chain ends.  Whatever was between the page shown and another
\* chain is covered, or is left to a chain behind it: the one that goes on, too.
LEMMA EndOfChainOrder ==
  ASSUME BasicInv, OrderInv, proxy, NEW p \in active, Settle(p) \/ TimeOut(p)
  PROVE  OrderInv'
<1>1. /\ ReaderTypeOK /\ mounted /\ at = 0 /\ proxy' = proxy /\ mounted' = mounted /\ currentPage' = currentPage
      /\ at' = 0 /\ listing' = listing
  BY EndFrame DEF BasicInv
<1>2. PICK S, done :
        /\ done = prefetched \cup {p} \/ (done = prefetched /\ passedOver' = passedOver \cup ({p} \cap fresh))
        /\ prefetched' = done /\ passedOver \subseteq passedOver'
        /\ S = Starts(NextInChain(p), active \ {p}, done, Less(count, 1))
        /\ active' = (active \ {p}) \cup S /\ fresh' = (fresh \ {p}) \cup S
  BY ChainGoesOn
<1> DEFINE next == NextInChain(p)
<1>3. /\ p \in Pages /\ currentPage \in Nat /\ currentPage > 0 /\ p >= currentPage
      /\ fresh \subseteq active /\ active \subseteq Pages
      /\ next = (IF p \in fresh THEN p + 1 ELSE currentPage + 1) /\ next \in Nat /\ next > currentPage
      /\ PageCount \in Nat
  BY <1>1 DEF BasicInv, ReaderTypeOK, InReach, NextInChain, Pages
<1>4. Less(count, 1) \in Nat /\ Less(count, 1) < Slots
  BY <1>1, OneLess DEF BasicInv
<1> HIDE DEF next
<1>5. \/ S = {} /\ \A r \in next..PageCount : r \in Videos \cup done \cup (active \ {p})
      \/ \E q \in Pages : S = {q} /\ next <= q
                          /\ \A r \in next..q - 1 : r \in Videos \cup done \cup (active \ {p})
  <2>1. PICK n, asked : n = Less(count, 1) /\ asked = active \ {p}
    OBVIOUS
  <2>2. /\ S = Starts(next, asked, done, n)
        /\ next \in Nat /\ next > 0 /\ n \in Nat /\ n < Slots
    BY <1>2, <1>3, <1>4, <2>1 DEF next
  <2>3. \/ S = {} /\ \A r \in next..PageCount : r \in Videos \cup done \cup asked
        \/ \E q \in Pages : S = {q} /\ next <= q /\ \A r \in next..q - 1 : r \in Videos \cup done \cup asked
    BY <1>1, <2>2, ChainStarts
  <2> QED BY <2>1, <2>3
\* What stays covered, and what is covered from where the chain goes on.
<1>6. \A r : Covered(r) /\ (r # p \/ p \in fresh \/ done = prefetched \cup {p}) => Covered(r)'
  BY <1>2 DEF Covered
<1>7. \A r : r \in Videos \cup done \cup (active \ {p}) => Covered(r)'
  BY <1>2 DEF Covered
<1>8. \A r \in next..PageCount : Covered(r)' \/ \E q \in S : currentPage < q /\ q < r
  <2> SUFFICES ASSUME NEW r \in next..PageCount
               PROVE  Covered(r)' \/ \E q \in S : currentPage < q /\ q < r
    OBVIOUS
  <2>1. CASE S = {}
    BY <1>5, <1>7, <2>1
  <2>2. ASSUME NEW q \in Pages, S = {q}, next <= q,
               \A t \in next..q - 1 : t \in Videos \cup done \cup (active \ {p})
        PROVE  Covered(r)' \/ \E t \in S : currentPage < t /\ t < r
    <3>1. CASE r < q
      BY <1>3, <1>7, <2>2, <3>1 DEF Pages
    <3>2. CASE r = q
      BY <1>2, <2>2, <3>2 DEF Covered
    <3>3. CASE r > q
      BY <1>3, <2>2, <3>3 DEF Pages
    <3> QED BY <1>3, <2>2, <3>1, <3>2, <3>3 DEF Pages
  <2> QED BY <1>5, <2>1, <2>2
<1>9. \A r \in next..PageCount : Due(r)'
  BY <1>1, <1>2, <1>8 DEF Due
\* What was due below stays due.
<1>10. ASSUME NEW f \in fresh, NEW r \in currentPage + 1..f
       PROVE  Due(r)'
  <2>1. r \in Nat /\ currentPage < r /\ r <= PageCount
    BY <1>3, <1>10 DEF Pages
  <2>2. Due(r)
    BY <1>10 DEF OrderInv, ChainInv
  <2>3. CASE r \in next..PageCount
    BY <1>9, <2>3
  <2>4. CASE r \notin next..PageCount
    <3>1. r < next /\ p \in fresh /\ r <= p
      BY <1>3, <2>1, <2>4 DEF Pages
    <3>2. CASE Covered(r)
      BY <1>6, <3>1, <3>2 DEF Due
    <3>3. ASSUME NEW g \in fresh, currentPage < g, g < r
          PROVE  Due(r)'
      <4>1. g # p
        BY <1>3, <2>1, <3>1, <3>3 DEF Pages
      <4> QED BY <1>1, <1>2, <3>3, <4>1 DEF Due
    <3> QED BY <2>2, <3>2, <3>3 DEF Due
  <2> QED BY <2>3, <2>4
<1>11. ChainInv'
  <2> SUFFICES ASSUME NEW f \in fresh', NEW r \in currentPage + 1..f
               PROVE  Due(r)'
    BY <1>1 DEF ChainInv
  <2>1. CASE f \in fresh
    BY <1>10, <2>1
  <2>2. CASE f \in S
    <3>1. f \in Pages /\ r \in Nat /\ r <= PageCount
      BY <1>3, <1>5, <2>2 DEF Pages
    <3>2. CASE r >= next
      BY <1>3, <1>9, <3>1, <3>2
    <3>3. CASE r < next
      <4>1. p \in fresh /\ r \in currentPage + 1..p
        BY <1>3, <3>1, <3>3 DEF Pages
      <4> QED BY <1>10, <4>1
    <3> QED BY <1>3, <3>1, <3>2, <3>3
  <2> QED BY <1>2, <2>1, <2>2
<1>12. PassInv'
  BY <1>1 DEF PassInv
<1>13. NotStalled'
  <2> SUFFICES ASSUME active' = {}, NEW r \in currentPage + 1..PageCount
               PROVE  Covered(r)'
    BY <1>1 DEF NotStalled
  <2>1. S = {} /\ active = {p} /\ fresh' = {}
    BY <1>2, <1>3
  <2>2. CASE r >= next
    BY <1>3, <1>8, <2>1, <2>2
  <2>3. CASE r < next
    <3>1. p \in fresh /\ r \in currentPage + 1..p
      BY <1>3, <2>3 DEF Pages
    <3>2. Due(r)'
      BY <1>10, <3>1
    <3> QED BY <2>1, <3>2 DEF Due
  <2> QED BY <1>3, <2>2, <2>3
<1> QED BY <1>11, <1>12, <1>13 DEF OrderInv

\* A request of a window ends: the window is gone over again.
LEMMA EndInWindowOrder ==
  ASSUME BasicInv, OrderInv, ~proxy, NEW p \in active, Settle(p) \/ TimeOut(p)
  PROVE  OrderInv'
<1>1. /\ mounted /\ at = 0 /\ proxy' = proxy /\ mounted' = mounted /\ Passes(1) /\ masked' = FALSE
  BY EndFrame
<1>2. at' = 1 /\ kept' = FALSE
  BY <1>1 DEF Passes
<1>3. 1..at' - 1 = {}
  BY <1>2
<1> QED BY <1>1, <1>2, <1>3 DEF OrderInv, ChainInv, PassInv, NotStalled

-----------------------------------------------------------------------------
(* The theorems. *)

LEMMA ReaderInvSplit == ReaderInv <=> BasicInv /\ OrderInv
  BY DEF ReaderInv, BasicInv, OrderInv

LEMMA ReaderStep == ReaderInv /\ [ReaderNext]_readerVars => ReaderInv'
<1> SUFFICES ASSUME BasicInv, OrderInv, [ReaderNext]_readerVars
             PROVE  BasicInv' /\ OrderInv'
  BY ReaderInvSplit DEF ReaderInv, BasicInv, OrderInv
<1>1. CASE PassStep
  BY <1>1, PassStepBasic, ProxyStepOrder, WindowStepOrder
<1>2. ASSUME NEW p \in active, Settle(p) \/ TimeOut(p)
      PROVE  BasicInv' /\ OrderInv'
  BY <1>2, EndBasic, EndOfChainOrder, EndInWindowOrder
<1>3. ASSUME NEW q \in Pages, NEW list \in Listings \cup {listing}, proxy => list = listing, Render(q, list)
      PROVE  BasicInv' /\ OrderInv'
  BY <1>3, TurnBasic, RenderOrder
<1>4. CASE Close
  <2>1. OrderInv'
    BY <1>4 DEF Close, OrderInv, ChainInv, PassInv, NotStalled
  <2> QED BY <1>4, <2>1, CloseBasic
<1>5. CASE UNCHANGED readerVars
  BY <1>5 DEF readerVars, shownVars, slotVars, passVars, BasicInv, OrderInv, ReaderTypeOK, ReaderAtRest,
              SlotsCounted, FetchedOnce, InReach, Reach, ChainInv, PassInv, NotStalled, Due, Covered,
              FirstOf, Candidates, Offset, Steps, Slots
<1> QED BY <1>1, <1>2, <1>3, <1>4, <1>5 DEF ReaderNext, ReaderProgress

\* The inductive invariant of the prefetcher, whatever is turned, hidden, added,
\* loaded or timed out, in any order.
THEOREM ReaderCorrect == ReaderSpec => []ReaderInv
<1>1. ReaderInit => ReaderInv
  BY InitBasic, InitOrder, ReaderInvSplit
<1> QED BY <1>1, ReaderStep, PTL DEF ReaderSpec

\* There are never more requests than slots, and a page turn loses none.
THEOREM SlotsAreCounted == ReaderSpec => []SlotsCounted
<1>1. ReaderInv => SlotsCounted
  BY DEF ReaderInv
<1> QED BY <1>1, ReaderCorrect, PTL

\* What is in the browser cache, or is a video, is not asked for.
THEOREM PagesAreFetchedOnce == ReaderSpec => []FetchedOnce
<1>1. ReaderInv => FetchedOnce
  BY DEF ReaderInv
<1> QED BY <1>1, ReaderCorrect, PTL

\* Nothing behind the reader is still asked for.
THEOREM RequestsAreInReach == ReaderSpec => []InReach
<1>1. ReaderInv => InReach
  BY DEF ReaderInv
<1> QED BY <1>1, ReaderCorrect, PTL

\* Nothing goes idle before what it is there for is covered.
THEOREM PrefetchDoesNotStall == ReaderSpec => []NotStalled
<1>1. ReaderInv => NotStalled
  BY DEF ReaderInv
<1> QED BY <1>1, ReaderCorrect, PTL
=============================================================================
