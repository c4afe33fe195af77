----------------------- MODULE MCDownloadAdmission -----------------------
(* Small instances of DownloadAdmission. *)
EXTENDS DownloadAdmission, TLC

CONSTANTS j1, j2, pixiv

OneKey == [j \in Jobs |-> pixiv]
Zero == [k \in Keys |-> 0]
One == [k \in Keys |-> 1]

Symmetry == Permutations(Jobs) \cup Permutations(Slots) \cup Permutations(Tokens)
            \cup Permutations(Requests)
=============================================================================
