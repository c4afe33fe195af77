------------------------------ MODULE MCBrowse ------------------------------
(* Small instances of the PWA: the list of one tab (BrowseSession), the tabs  *)
(* that contend for an id (TabScope) or the prefetcher of the Reader         *)
(* (ReaderPrefetch).  part says which of them a behaviour is about, and the  *)
(* others stay as they are.                                                 *)
EXTENDS BrowseSession, TabScope, ReaderPrefetch, TLC

CONSTANTS feed, marks, lookup, i1, i2, i3

ThreeItems == [k \in Lists |-> IF k = lookup THEN (i1 :> 1) ELSE (i1 :> 1 @@ i2 :> 2 @@ i3 :> 3)]

\* One page is too large for the budget.  A list has all pages, lacks some, or
\* has some that wait for their URL; two of the lists have one key.
OneLarge == [p \in Pages |-> IF p = 4 THEN 3 ELSE 1]
Without(lacking, waiting) ==
  [p \in Pages |-> IF p \in lacking THEN "absent" ELSE IF p \in waiting THEN "waiting" ELSE "ready"]
FiveLists ==
  {Without({}, {}), Without({}, {2, 4}), Without({4, 5, 6}, {}), Without({2, 6}, {}), Without({3, 6}, {})}

VARIABLE part

partVars == <<vars, tabVars, readerVars, part>>

PartInit ==
  /\ Init /\ TabInit /\ ReaderInit /\ part \in {"list", "tabs", "reader"}
  /\ part # "list" => source = "ehentai"
  /\ part # "reader" => proxy /\ currentPage = 1
  /\ wanted = feed   \* marks is a step away

\* The user toggles i1, which is not bookmarked at first, and i2, which is.
Untouched == toggle'[i3] = "idle"

PartNext ==
  /\ UNCHANGED part
  /\ \/ part = "list" /\ Next /\ Untouched /\ UNCHANGED <<tabVars, readerVars>>
     \/ part = "tabs" /\ TabNext /\ UNCHANGED <<vars, readerVars>>
     \/ part = "reader" /\ ReaderNext /\ UNCHANGED <<vars, tabVars>>

PartProgress ==
  /\ UNCHANGED part
  /\ \/ part = "list" /\ Progress /\ UNCHANGED <<tabVars, readerVars>>
     \/ part = "tabs" /\ Protocol /\ UNCHANGED <<vars, readerVars>>
     \/ part = "reader" /\ ReaderProgress /\ UNCHANGED <<vars, tabVars>>

PartSpec == PartInit /\ [][PartNext]_partVars
FairPartSpec == PartSpec /\ WF_partVars(PartProgress)

\* EventuallyShown of the list, EventuallySeparate of the tabs and
\* EventuallyQuiet of the Reader, whichever the behaviour is about.
EventuallySettled ==
  []<>CASE part = "list" -> ListAtRest [] part = "tabs" -> TabsAtRest [] OTHER -> ReaderAtRest
=============================================================================
