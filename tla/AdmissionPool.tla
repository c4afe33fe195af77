--------------------------- MODULE AdmissionPool ---------------------------
(***************************************************************************)
(* What download admission promises: a pool of permits per capacity key.   *)
(* Permits are granted to one row at a time, never beyond the limit of the *)
(* row's key, and any number of them is given back or withdrawn at once.   *)
(***************************************************************************)
EXTENDS Integers, FiniteSets

CONSTANTS Jobs, Keys, KeyOf, Limit

VARIABLE held   \* the rows that hold a permit

HeldOn(k) == {j \in held : KeyOf[j] = k}

Init == held = {}

Grant(j) ==
  /\ j \notin held
  /\ Cardinality(HeldOn(KeyOf[j])) < Limit[KeyOf[j]]
  /\ held' = held \cup {j}

Withdraw == held' \subseteq held

Next == (\E j \in Jobs : Grant(j)) \/ Withdraw

Spec == Init /\ [][Next]_held
=============================================================================
