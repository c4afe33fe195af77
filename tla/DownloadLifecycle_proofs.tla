---------------------- MODULE DownloadLifecycle_proofs ----------------------
(***************************************************************************)
(* Proofs about DownloadLifecycle for every mode, bound and kind of plugin. *)
(* LifecycleInv is inductive, hence the types and that no row of the       *)
(* gallery is lost.  On top of it OutcomeInv is, about how a job ends:     *)
(* pages are thrown away only for a cancel, the keeper is alone but for    *)
(* what a fault left behind, a cancelled job kept nothing of its own and a *)
(* done one everything, and a settled job leaves a settled gallery.        *)
(***************************************************************************)
EXTENDS DownloadLifecycle, TLAPS

USE PagesAssumption, FlagAssumption
USE DEF row, redis, users, workers, At, Go, GoSet, Leave, Fault, Importing

\* The Boolean columns and flags.
Flags ==
  /\ stopAt \in BOOLEAN /\ owned \in BOOLEAN /\ linked \in BOOLEAN /\ pauseKey \in BOOLEAN
  /\ handoff \in BOOLEAN /\ asked \in BOOLEAN /\ stopper \in BOOLEAN

GalleryType == gallery \in [st : GalleryStatus, pages : 0..MaxPages, replaced : 0..MaxPages]

\* The other variables, but for the execution and the count of retries.
DataType ==
  /\ status \in Active \cup Terminal
  /\ flag \in {"none", "cancel", "stop"}
  /\ GalleryType
  /\ stray \subseteq {"gallery", "file"}
  /\ keeper \in {"idle", "keep", "drop"}
  /\ canceller \in {"none", "locked", "flagged"}
  /\ req \in ReqState
  /\ boot \in BootState
  /\ faults \in 0..MaxFaults

-----------------------------------------------------------------------------
(* The record of an execution. *)

\* No execution is a well-typed one.
LEMMA NoExecType == NoExec \in ExecState
  BY DEF NoExec, ExecState, Steps, GalleryStatus, Results

\* Moving to another step keeps the record well typed.
LEMMA GoType ==
  ASSUME NEW e \in ExecState, NEW s \in Steps
  PROVE  [e EXCEPT !.pc = s] \in ExecState
  BY DEF ExecState

\* So does moving on with a verdict.
LEMMA GoSetType ==
  ASSUME NEW e \in ExecState, NEW s \in Steps, NEW o \in Results \cup {"none", "paused"}
  PROVE  [e EXCEPT !.pc = s, !.out = o] \in ExecState
  BY DEF ExecState

\* What is left of an execution with a verdict: the account of its pages.
LEMMA OverFields ==
  \A s, o : /\ Over(s, o).pc = s /\ Over(s, o).out = o
           /\ Over(s, o).gid = exec.gid /\ Over(s, o).pre = exec.pre
           /\ Over(s, o).held = exec.held /\ Over(s, o).added = exec.added
           /\ Over(s, o).seen = FALSE /\ Over(s, o).filed = FALSE /\ Over(s, o).got = FALSE
           /\ Over(s, o).base = 0 /\ Over(s, o).snap = "none" /\ Over(s, o).res = "none"
BY DEF Over, NoExec

\* It is well typed.
LEMMA OverType ==
  ASSUME exec \in ExecState, NEW s \in Steps, NEW o \in Results \cup {"none", "paused"}
  PROVE  Over(s, o) \in ExecState
<1>1. /\ exec.gid \in BOOLEAN /\ exec.pre \in BOOLEAN
      /\ exec.held \in 0..MaxPages /\ exec.added \in 0..MaxPages
  BY DEF ExecState
<1>2. \A e \in ExecState, g, p \in BOOLEAN, h, a \in 0..MaxPages :
        [e EXCEPT !.pc = s, !.out = o, !.gid = g, !.pre = p, !.held = h, !.added = a] \in ExecState
  BY DEF ExecState
<1> QED BY <1>1, <1>2, NoExecType DEF Over

\* Attaching to a gallery, existing or new, keeps the record well typed.
LEMMA AttachType ==
  ASSUME NEW e \in ExecState, GalleryType
  PROVE  Attach(e) \in ExecState /\ Ensured(e) \in ExecState
<1>1. Attach(e) \in ExecState BY DEF Attach, ExecState, GalleryType
<1>2. [e EXCEPT !.gid = TRUE] \in ExecState BY DEF ExecState
<1> QED BY <1>1, <1>2 DEF Ensured

-----------------------------------------------------------------------------
(* What an import does to the gallery and to the record of the execution. *)

\* All of the record but the account of its pages.
Same == /\ exec'.pc = exec.pc /\ exec'.seen = exec.seen /\ exec'.gid = exec.gid
        /\ exec'.filed = exec.filed /\ exec'.pre = exec.pre /\ exec'.base = exec.base
        /\ exec'.snap = exec.snap /\ exec'.res = exec.res /\ exec'.out = exec.out

\* The gallery takes `new` pages and `changed` versions of pages that it had.
Grown(new, changed) ==
  /\ gallery.pages + gallery.replaced + new + changed <= MaxPages
  /\ gallery'.pages = gallery.pages + new
  /\ gallery'.replaced = gallery.replaced + changed
  /\ gallery'.st = "none" <=> gallery.st = "none"

\* Somebody else did that: the execution loses the pages that were replaced.
GrownBeside(new, changed) ==
  /\ gallery.st = "none" => new = 0 /\ changed = 0
  /\ Grown(new, changed) /\ Same /\ exec'.got = exec.got /\ exec'.added = exec.added
  /\ exec.gid => changed <= exec.held /\ exec'.held = exec.held - changed
  /\ ~exec.gid => changed <= gallery.pages /\ exec'.held = exec.held

\* The fields of a gallery that takes pages.
LEMMA ImportedFields ==
  ASSUME TypeOK, NEW new \in Nat, NEW changed \in Nat, HasRoom(new, changed)
  PROVE  /\ Imported(new, changed) \in [st : GalleryStatus, pages : 0..MaxPages, replaced : 0..MaxPages]
         /\ Imported(new, changed).st = gallery.st
         /\ Imported(new, changed).pages = gallery.pages + new
         /\ Imported(new, changed).replaced = gallery.replaced + changed
         /\ gallery.pages + gallery.replaced + new + changed <= MaxPages
<1>1. /\ gallery.pages \in 0..MaxPages /\ gallery.replaced \in 0..MaxPages
      /\ gallery.pages + gallery.replaced + new + changed <= MaxPages
  BY DEF TypeOK, HasRoom
<1>2. gallery.pages + new \in 0..MaxPages /\ gallery.replaced + changed \in 0..MaxPages
  BY <1>1
<1>3. Imported(new, changed) =
        [gallery EXCEPT !.pages = gallery.pages + new, !.replaced = gallery.replaced + changed]
  BY DEF TypeOK, Imported
<1> QED BY <1>1, <1>2, <1>3 DEF TypeOK

\* The fields of the execution beside which they are imported.
LEMMA BesideFields ==
  ASSUME TypeOK, NEW new \in Nat, NEW changed \in Nat, Beside(new, changed)
  PROVE  /\ exec' \in ExecState /\ HasRoom(new, changed)
         /\ Same /\ exec'.got = exec.got /\ exec'.added = exec.added
         /\ exec.gid => changed <= exec.held /\ exec'.held = exec.held - changed
         /\ ~exec.gid => changed <= gallery.pages /\ exec'.held = exec.held
BY DEF TypeOK, Beside, ExecState, Same

\* The execution imports a file: a page, another version of one that it found, or of
\* one that does not count.
Imports ==
  /\ exec.pc \in Pending /\ exec.gid /\ exec.filed
  /\ UNCHANGED <<row, redis, workers, users, faults>>
  /\ GalleryType' /\ exec' \in ExecState /\ Same /\ exec'.got = TRUE
  /\ gallery'.st = gallery.st
  /\ \/ Grown(1, 0) /\ exec'.added = exec.added + 1 /\ exec'.held = exec.held
     \/ /\ Grown(0, 1) /\ exec.held > 0
        /\ exec'.added = exec.added + 1 /\ exec'.held = exec.held - 1
     \/ Grown(0, 0) /\ exec'.added = exec.added /\ exec'.held = exec.held

LEMMA ImportFields ==
  ASSUME LifecycleInv, ImportPage
  PROVE  Imports
<1>1. TypeOK /\ ImportInv /\ exec \in ExecState BY DEF LifecycleInv, TypeOK
<1>2. exec.pc \in Counting BY DEF ImportPage, Pending, Counting, Unsettled
<1>3. /\ exec.held + exec.added <= gallery.pages /\ gallery.pages + gallery.replaced <= MaxPages
      /\ exec.held \in Nat /\ exec.added \in Nat
      /\ gallery.pages \in Nat /\ gallery.replaced \in Nat
  BY <1>1, <1>2 DEF ImportInv, TypeOK, ExecState
<1>4. /\ exec.pc \in Pending /\ exec.gid /\ exec.filed
      /\ UNCHANGED <<row, redis, workers, users, faults>>
  BY DEF ImportPage
<1>5. CASE /\ HasRoom(1, 0) /\ gallery' = Imported(1, 0)
           /\ exec' = [exec EXCEPT !.got = TRUE, !.added = @ + 1]
  <2>1. exec.added + 1 \in 0..MaxPages BY <1>3, <1>5 DEF HasRoom
  <2>2. exec' = [exec EXCEPT !.got = TRUE, !.added = exec.added + 1]
    BY <1>1, <1>5 DEF ExecState
  <2>3. exec' \in ExecState /\ Same /\ exec'.got = TRUE
        /\ exec'.added = exec.added + 1 /\ exec'.held = exec.held
    BY <1>1, <2>1, <2>2 DEF ExecState, Same
  <2>4. Grown(1, 0) /\ GalleryType' /\ gallery'.st = gallery.st
    BY <1>1, <1>3, <1>5, ImportedFields DEF Grown, GalleryType
  <2> QED BY <1>4, <2>3, <2>4 DEF Imports
<1>6. CASE /\ HasRoom(0, 1) /\ exec.held > 0 /\ gallery' = Imported(0, 1)
           /\ exec' = [exec EXCEPT !.got = TRUE, !.added = @ + 1, !.held = @ - 1]
  <2>1. exec.added + 1 \in 0..MaxPages /\ exec.held - 1 \in 0..MaxPages
    BY <1>3, <1>6 DEF HasRoom
  <2>2. exec' = [exec EXCEPT !.got = TRUE, !.added = exec.added + 1, !.held = exec.held - 1]
    BY <1>1, <1>6 DEF ExecState
  <2>3. exec' \in ExecState /\ Same /\ exec'.got = TRUE
        /\ exec'.added = exec.added + 1 /\ exec'.held = exec.held - 1
    BY <1>1, <2>1, <2>2 DEF ExecState, Same
  <2>4. /\ Imported(0, 1) \in [st : GalleryStatus, pages : 0..MaxPages, replaced : 0..MaxPages]
        /\ Imported(0, 1).st = gallery.st /\ Imported(0, 1).pages = gallery.pages + 0
        /\ Imported(0, 1).replaced = gallery.replaced + 1
        /\ gallery.pages + gallery.replaced + 0 + 1 <= MaxPages
    BY <1>1, <1>6, ImportedFields
  <2>5. Grown(0, 1) /\ GalleryType' /\ gallery'.st = gallery.st
    BY <1>3, <1>6, <2>4 DEF Grown, GalleryType
  <2> QED BY <1>4, <1>6, <2>3, <2>5 DEF Imports
<1>7. CASE UNCHANGED gallery /\ exec' = [exec EXCEPT !.got = TRUE]
  <2>1. exec' \in ExecState /\ Same /\ exec'.got = TRUE
        /\ exec'.added = exec.added /\ exec'.held = exec.held
    BY <1>1, <1>7 DEF ExecState, Same
  <2>2. Grown(0, 0) /\ GalleryType' /\ gallery'.st = gallery.st
    BY <1>1, <1>3, <1>7 DEF Grown, GalleryType, TypeOK
  <2> QED BY <1>4, <2>1, <2>2 DEF Imports
<1> QED BY <1>5, <1>6, <1>7 DEF ImportPage

\* What a fault left behind imports beside it.
Strays ==
  /\ "gallery" \in stray /\ GalleryType' /\ exec' \in ExecState
  /\ gallery'.st = gallery.st
  /\ \E new \in 0..1 : GrownBeside(new, 1 - new)
  /\ UNCHANGED <<row, redis, workers, users, faults>>

LEMMA StrayFields ==
  ASSUME LifecycleInv, StrayImports
  PROVE  Strays
<1>0. TypeOK /\ gallery.st # "none"
  BY DEF LifecycleInv, ImportInv, StrayImports
<1>1. PICK new \in 0..1 : Beside(new, 1 - new) /\ gallery' = Imported(new, 1 - new)
  BY DEF StrayImports
<1>2. new \in Nat /\ 1 - new \in Nat BY <1>1
<1>3. exec' \in ExecState /\ HasRoom(new, 1 - new) BY <1>0, <1>1, <1>2, BesideFields
<1>4. gallery'.st = gallery.st /\ GalleryType'
  BY <1>0, <1>1, <1>2, <1>3, ImportedFields DEF GalleryType
<1>5. GrownBeside(new, 1 - new)
  BY <1>0, <1>1, <1>2, <1>3, ImportedFields, BesideFields DEF Grown, GrownBeside
<1> QED BY <1>1, <1>3, <1>4, <1>5 DEF StrayImports, Strays

\* finalize_stopped_job imports the leftovers beside it, as many as there are, and
\* neither throws pages away nor the gallery.
Keeps ==
  /\ keeper # "idle" /\ keeper' = "idle" /\ GalleryType' /\ exec' \in ExecState
  /\ \E new, changed \in 0..MaxPages : GrownBeside(new, changed)
  /\ UNCHANGED <<row, redis, stray, handoff, boot, users>>
  /\ UNCHANGED faults \/ Fault
  /\ UNCHANGED faults => UNCHANGED gallery \/ gallery'.st # "downloading"

LEMMA KeeperFields ==
  ASSUME LifecycleInv, KeepGallery \/ KeepGalleryFails
  PROVE  Keeps
<1>1. TypeOK /\ gallery \in [st : GalleryStatus, pages : 0..MaxPages, replaced : 0..MaxPages]
      /\ gallery.pages + gallery.replaced <= MaxPages
  BY DEF LifecycleInv, ImportInv, TypeOK
<1>2. /\ keeper # "idle" /\ keeper' = "idle"
      /\ UNCHANGED <<row, redis, stray, handoff, boot, users>>
      /\ UNCHANGED faults \/ Fault
  BY DEF KeepGallery, KeepGalleryFails
<1>3. CASE UNCHANGED <<gallery, exec>>
  <2>1. GrownBeside(0, 0)
    BY <1>1, <1>3 DEF GrownBeside, Grown, Same, TypeOK, ExecState
  <2>2. exec' \in ExecState /\ GalleryType' BY <1>1, <1>3 DEF GalleryType, TypeOK
  <2> QED BY <1>2, <1>3, <2>1, <2>2 DEF Keeps
<1>4. CASE gallery.st # "none" /\ \E new, changed \in 0..MaxPages, got, bad \in BOOLEAN :
             /\ Beside(new, changed)
             /\ gallery' = Kept(Attach(NoExec), Imported(new, changed), got, bad)
  <2>1. PICK new, changed \in 0..MaxPages, got, bad \in BOOLEAN :
             /\ Beside(new, changed)
             /\ gallery' = Kept(Attach(NoExec), Imported(new, changed), got, bad)
    BY <1>4
  <2>2. new \in Nat /\ changed \in Nat BY <2>1
  <2>3. exec' \in ExecState /\ HasRoom(new, changed) BY <1>1, <2>1, <2>2, BesideFields
  <2> DEFINE g == Imported(new, changed)
  <2>4. /\ g \in [st : GalleryStatus, pages : 0..MaxPages, replaced : 0..MaxPages]
        /\ g.st = gallery.st /\ g.pages = gallery.pages + new
        /\ g.replaced = gallery.replaced + changed
        /\ gallery.pages + gallery.replaced + new + changed <= MaxPages
    BY <1>1, <2>2, <2>3, ImportedFields
  <2>5. gallery' = Kept(Attach(NoExec), g, got, bad) BY <2>1
  <2> HIDE DEF g
  <2>6. \E st \in {"failed", "partial", "complete"} : gallery' = [g EXCEPT !.st = st]
    BY <2>5 DEF Kept, Finalized, Attach, NoExec
  <2>7. /\ gallery'.st \notin {"none", "downloading"}
        /\ gallery'.pages = g.pages /\ gallery'.replaced = g.replaced /\ GalleryType'
    BY <2>4, <2>6 DEF GalleryType, GalleryStatus
  <2>8. GrownBeside(new, changed)
    BY <1>1, <1>4, <2>1, <2>2, <2>4, <2>7, BesideFields DEF Grown, GrownBeside
  <2> QED BY <1>2, <2>3, <2>7, <2>8 DEF Keeps
<1>5. CASE gallery.st # "none" /\ Fault /\ \E new, changed \in 0..MaxPages :
             /\ Beside(new, changed)
             /\ gallery' = Aborted(Attach(NoExec), Imported(new, changed))
  <2>1. PICK new, changed \in 0..MaxPages :
             /\ Beside(new, changed)
             /\ gallery' = Aborted(Attach(NoExec), Imported(new, changed))
    BY <1>5
  <2>2. new \in Nat /\ changed \in Nat BY <2>1
  <2>3. exec' \in ExecState /\ HasRoom(new, changed) BY <1>1, <2>1, <2>2, BesideFields
  <2> DEFINE g == Imported(new, changed)
  <2>4. /\ g \in [st : GalleryStatus, pages : 0..MaxPages, replaced : 0..MaxPages]
        /\ g.st = gallery.st /\ g.pages = gallery.pages + new
        /\ g.replaced = gallery.replaced + changed
        /\ gallery.pages + gallery.replaced + new + changed <= MaxPages
    BY <1>1, <2>2, <2>3, ImportedFields
  <2>5. gallery' = Aborted(Attach(NoExec), g) BY <2>1
  <2> HIDE DEF g
  <2>6. \E st \in {"failed", "partial", gallery.st} : gallery' = [g EXCEPT !.st = st]
    BY <1>5, <2>4, <2>5 DEF Aborted, Attach, NoExec
  <2>7. /\ gallery'.st # "none"
        /\ gallery'.pages = g.pages /\ gallery'.replaced = g.replaced /\ GalleryType'
    BY <1>1, <1>5, <2>4, <2>6 DEF GalleryType, GalleryStatus
  <2>8. GrownBeside(new, changed)
    BY <1>1, <1>5, <2>1, <2>2, <2>4, <2>7, BesideFields DEF Grown, GrownBeside
  <2>9. faults' # faults BY <1>1, <1>5 DEF TypeOK
  <2> QED BY <1>2, <2>3, <2>7, <2>8, <2>9 DEF Keeps
<1> QED BY <1>3, <1>4, <1>5 DEF KeepGallery, KeepGalleryFails

\* A keep path that finds its row cancelled turns to the cleanup.
LEMMA CancelledAtClaim ==
  ASSUME TypeOK, ClaimStopFinish, status = "cancelled"
  PROVE  /\ exec.pc = "keep" /\ exec'.pc = "cleanup" /\ exec'.out = "cancelled"
         /\ exec'.got = exec.got /\ exec'.gid = exec.gid /\ exec'.seen = exec.seen
         /\ exec'.pre = exec.pre /\ exec'.base = exec.base /\ exec'.snap = exec.snap
         /\ exec'.held = exec.held /\ exec'.added = exec.added /\ exec'.filed = exec.filed
         /\ exec'.res = exec.res
         /\ UNCHANGED <<row, redis, gallery, workers, users, faults>>
<1>1. /\ exec' = [exec EXCEPT !.pc = "cleanup", !.out = "cancelled"] /\ exec.pc = "keep"
      /\ UNCHANGED <<row, redis, gallery, workers, users, faults>>
  BY DEF ClaimStopFinish, Active
<1> QED BY <1>1 DEF TypeOK, ExecState

-----------------------------------------------------------------------------
(* One lemma per group of variables, one step per action. *)

\* Every step keeps the flags Boolean.
LEMMA FlagsStep ==
  ASSUME TypeOK, [Next]_vars
  PROVE  Flags'
<1> USE DEF TypeOK, Flags
<1>1. CASE Claim
  BY <1>1, ZenonT(30) DEF Claim
<1>2. CASE ExecStep
  BY <1>2, ZenonT(60) DEF ExecStep, Confirm, PreflightFails, Load, ResolveMetadata,
      Ensure, NoMetadata, Gate, EndDownload, DownloadRaises, Raised, ReadsIntent, Verdict,
      Reread, Abort, Cleanup, Cleaned, FlagCheck, DbCheck, Finalize, SetStatus,
      ClaimStopFinish, FinalizeKept, Release
<1>3. CASE FileStep
  BY <1>3, ZenonT(30) DEF FileStep, OnFile, Ensure, ImportPage
<1>4. CASE ExecFault
  BY <1>4, ZenonT(30) DEF ExecFault, LoadFails, FinalizeFails, SetStatusFails, KeepFails,
      FinalizeKeptFails, TimeOut, ReleaseFails
<1>5. CASE UserStep
  BY <1>5, ZenonT(30) DEF UserStep, RequestStop, SetStopFlag, StopFlagLost, CancelLock,
      CancelFlag, CancelCommit, CancelRollsBack, PauseRead, ReadRow, ResumeRead, CommitRow
<1>6. CASE KeeperStep
  BY <1>6, ZenonT(30) DEF KeeperStep, FinalizeStopped, Stopped, KeepGallery,
      KeepGalleryFails, HandoffLost
<1>7. CASE CronStep
  BY <1>7, ZenonT(30) DEF CronStep, ReapRead, ReadRow, ReapStopped, CronRetry
<1>8. CASE LoseFlag
  BY <1>8, ZenonT(30) DEF LoseFlag
<1>9. CASE Crash
  BY <1>9, ZenonT(30) DEF Crash
<1>10. CASE BootStep
  BY <1>10, ZenonT(30) DEF BootStep, BootLoad, BootMiss, BootHandOver, BootPolicy,
      BootSettle
<1>11. CASE UNCHANGED vars BY <1>11, Zenon DEF vars
<1>12. CASE StrayStep
  <2>1. CASE StrayImports BY <2>1 DEF StrayImports, Beside, Imported, HasRoom
  <2>2. CASE StrayEnsures BY <2>2 DEF StrayEnsures, Ensure
  <2> QED BY <1>12, <2>1, <2>2 DEF StrayStep
<1> QED BY <1>1, <1>2, <1>3, <1>4, <1>5, <1>6, <1>7, <1>8, <1>9, <1>10, <1>11, <1>12 DEF Next

\* Every step keeps the record of the execution well typed.
LEMMA ExecTypeStep ==
  ASSUME LifecycleInv, [Next]_vars
  PROVE  exec' \in ExecState
<1>b. /\ ImportPage => Imports
      /\ StrayImports => Strays
      /\ KeepGallery \/ KeepGalleryFails => Keeps
  BY ImportFields, StrayFields, KeeperFields
<1>0. exec \in ExecState /\ GalleryType /\ TypeOK /\ ImportInv
  BY DEF LifecycleInv, TypeOK, GalleryType
<1>a. \A s \in {"set", "release"}, o \in Results \cup {"none", "paused"} : Over(s, o) \in ExecState
  BY <1>0, OverType DEF Steps
<1> USE <1>0, <1>a
<1>1. CASE Claim
  <2>1. [NoExec EXCEPT !.pc = "confirm"] \in ExecState BY NoExecType, GoType DEF Steps
  <2> QED BY <1>1, <2>1 DEF Claim
<1>2. CASE ExecStep
  <2>1. CASE Confirm BY <2>1 DEF Confirm, ExecState, Steps
  <2>2. CASE PreflightFails BY <2>2 DEF PreflightFails, Results
  <2>3. CASE Load
    <3> DEFINE e == [exec EXCEPT !.pc = "metadata", !.seen = stopAt]
    <3>1. e \in ExecState BY DEF ExecState, Steps, TypeOK
    <3>2. Attach(e) \in ExecState BY <3>1, AttachType
    <3> HIDE DEF e
    <3>3. exec' = e \/ exec' = Attach(e) BY <2>3 DEF Load, e
    <3> QED BY <3>1, <3>2, <3>3
  <2>4. CASE ResolveMetadata
    <3>1. [Ensured(exec) EXCEPT !.pc = "gate"] \in ExecState
      BY AttachType, GoType DEF Steps
    <3> QED BY <2>4, <3>1 DEF ResolveMetadata
  <2>5. CASE NoMetadata BY <2>5 DEF NoMetadata, ExecState, Steps
  <2>6. CASE Gate
    <3>1. /\ [exec EXCEPT !.pc = "keep"] \in ExecState
         /\ [exec EXCEPT !.pc = "run"] \in ExecState
      BY GoType DEF Steps
    <3> QED BY <2>6, <3>1 DEF Gate
  <2>7. CASE EndDownload
    <3>1. \A r \in Results : [exec EXCEPT !.pc = "verdict", !.res = r] \in ExecState
      BY DEF ExecState, Steps
    <3> QED BY <2>7, <3>1 DEF EndDownload
  <2>8. CASE DownloadRaises BY <2>8 DEF DownloadRaises, ExecState, Steps
  <2>9. CASE Raised BY <2>9 DEF Raised, ExecState, Steps, ReadsIntent
  <2>10. CASE Verdict BY <2>10 DEF Verdict, ExecState, Steps, ReadsIntent
  <2>11. CASE Reread BY <2>11 DEF Reread, ExecState, Steps, ReadsIntent
  <2>12. CASE Abort BY <2>12 DEF Abort, Results
  <2>13. CASE Cleanup BY <2>13 DEF Cleanup, Results
  <2>14. CASE FlagCheck BY <2>14 DEF FlagCheck, ExecState, Steps, ReadsIntent
  <2>15. CASE DbCheck BY <2>15 DEF DbCheck, ExecState, Steps, ReadsIntent
  <2>16. CASE Finalize
    <3>1. \E o \in {"failed", "partial", "done"} : GoSet(o)
      BY <2>16 DEF Finalize
    <3> QED BY <3>1 DEF Results
  <2>17. CASE SetStatus BY <2>17 DEF SetStatus
  <2>18. CASE ClaimStopFinish
    <3>1. /\ [exec EXCEPT !.pc = "cleanup", !.out = "cancelled"] \in ExecState
         /\ [exec EXCEPT !.pc = "kept"] \in ExecState
      BY GoType, GoSetType DEF Steps, Results
    <3> QED BY <2>18, <3>1 DEF ClaimStopFinish, Left
  <2>19. CASE FinalizeKept BY <2>19 DEF FinalizeKept
  <2>20. CASE Release
    BY <2>20, NoExecType DEF Release
  <2> QED BY <1>2, <2>1, <2>2, <2>3, <2>4, <2>5, <2>6, <2>7, <2>8, <2>9, <2>10, <2>11,
      <2>12, <2>13, <2>14, <2>15, <2>16, <2>17, <2>18, <2>19, <2>20 DEF ExecStep
<1>3. CASE FileStep
  <2>1. CASE OnFile
    <3>1. Ensured(exec) \in ExecState BY AttachType
    <3>2. [Ensured(exec) EXCEPT !.filed = TRUE] \in ExecState BY <3>1 DEF ExecState
    <3> QED BY <2>1, <3>2 DEF OnFile
  <2>2. CASE ImportPage BY <2>2, <1>b DEF Imports
  <2> QED BY <1>3, <2>1, <2>2 DEF FileStep
<1>4. CASE ExecFault
  <2>1. CASE LoadFails BY <2>1 DEF LoadFails, ExecState, Steps
  <2>2. CASE FinalizeFails
    <3>1. \E o \in {"failed", "partial"} : GoSet(o)
      BY <2>2 DEF FinalizeFails
    <3> QED BY <3>1 DEF Results
  <2>3. CASE SetStatusFails BY <2>3 DEF SetStatusFails
  <2>4. CASE KeepFails BY <2>4 DEF KeepFails
  <2>5. CASE FinalizeKeptFails BY <2>5 DEF FinalizeKeptFails
  <2>6. CASE TimeOut BY <2>6 DEF TimeOut
  <2>7. CASE ReleaseFails
    BY <2>7, NoExecType DEF ReleaseFails
  <2> QED BY <1>4, <2>1, <2>2, <2>3, <2>4, <2>5, <2>6, <2>7 DEF ExecFault
<1>5. CASE UserStep
  <2>1. CASE RequestStop BY <2>1 DEF RequestStop
  <2>2. CASE SetStopFlag BY <2>2 DEF SetStopFlag
  <2>3. CASE StopFlagLost BY <2>3 DEF StopFlagLost
  <2>4. CASE CancelLock BY <2>4 DEF CancelLock
  <2>5. CASE CancelFlag BY <2>5 DEF CancelFlag
  <2>6. CASE CancelCommit BY <2>6 DEF CancelCommit
  <2>7. CASE CancelRollsBack BY <2>7 DEF CancelRollsBack
  <2>8. CASE PauseRead BY <2>8 DEF PauseRead, ReadRow
  <2>9. CASE ResumeRead BY <2>9 DEF ResumeRead, ReadRow
  <2>10. CASE CommitRow BY <2>10 DEF CommitRow
  <2> QED BY <1>5, <2>1, <2>2, <2>3, <2>4, <2>5, <2>6, <2>7, <2>8, <2>9,
      <2>10 DEF UserStep
<1>6. CASE KeeperStep
  <2>1. CASE FinalizeStopped BY <2>1 DEF FinalizeStopped
  <2>2. CASE KeepGallery BY <2>2, <1>b DEF Keeps
  <2>3. CASE KeepGalleryFails BY <2>3, <1>b DEF Keeps
  <2>4. CASE HandoffLost BY <2>4 DEF HandoffLost
  <2> QED BY <1>6, <2>1, <2>2, <2>3, <2>4 DEF KeeperStep
<1>7. CASE CronStep
  <2>1. CASE ReapRead BY <2>1 DEF ReapRead, ReadRow
  <2>2. CASE ReapStopped BY <2>2 DEF ReapStopped
  <2>3. CASE CronRetry BY <2>3 DEF CronRetry
  <2> QED BY <1>7, <2>1, <2>2, <2>3 DEF CronStep
<1>8. CASE LoseFlag
  BY <1>8 DEF LoseFlag
<1>9. CASE Crash
  BY <1>9, NoExecType DEF Crash
<1>10. CASE BootStep
  <2>1. CASE BootLoad BY <2>1 DEF BootLoad
  <2>2. CASE BootMiss BY <2>2 DEF BootMiss
  <2>3. CASE BootHandOver BY <2>3 DEF BootHandOver
  <2>4. CASE BootPolicy BY <2>4 DEF BootPolicy
  <2>5. CASE BootSettle BY <2>5 DEF BootSettle, Fault
  <2> QED BY <1>10, <2>1, <2>2, <2>3, <2>4, <2>5 DEF BootStep
<1>11. CASE UNCHANGED vars BY <1>11 DEF vars
<1>12. CASE StrayStep
  <2>1. CASE StrayImports BY <2>1, <1>b DEF Strays
  <2>2. CASE StrayEnsures BY <2>2 DEF StrayEnsures
  <2> QED BY <1>12, <2>1, <2>2 DEF StrayStep
<1> QED BY <1>1, <1>2, <1>3, <1>4, <1>5, <1>6, <1>7, <1>8, <1>9, <1>10, <1>11, <1>12 DEF Next

\* Every step keeps the other variables well typed.
LEMMA DataTypeStep ==
  ASSUME LifecycleInv, [Next]_vars
  PROVE  DataType'
<1>b. /\ ImportPage => Imports
      /\ StrayImports => Strays
      /\ KeepGallery \/ KeepGalleryFails => Keeps
  BY ImportFields, StrayFields, KeeperFields
<1> USE DEF LifecycleInv, KeeperInv, VerdictInv, NoReq, DataType, GalleryType, TypeOK,
            ExecState, ReqState, BootState, GalleryStatus, Results, Active, Terminal, Up
<1>1. CASE Claim
  BY <1>1 DEF Claim, NoExec
<1>2. CASE ExecStep
  <2>1. CASE Confirm BY <2>1 DEF Confirm
  <2>2. CASE PreflightFails BY <2>2 DEF PreflightFails
  <2>3. CASE Load BY <2>3 DEF Load, Attach
  <2>4. CASE ResolveMetadata BY <2>4 DEF ResolveMetadata, Ensure, Ensured, Attach
  <2>5. CASE NoMetadata BY <2>5 DEF NoMetadata
  <2>6. CASE Gate BY <2>6 DEF Gate
  <2>7. CASE EndDownload BY <2>7 DEF EndDownload
  <2>8. CASE DownloadRaises BY <2>8 DEF DownloadRaises
  <2>9. CASE Raised BY <2>9 DEF Raised, ReadsIntent
  <2>10. CASE Verdict BY <2>10 DEF Verdict, ReadsIntent
  <2>11. CASE Reread BY <2>11 DEF Reread, ReadsIntent
  <2>12. CASE Abort BY <2>12 DEF Abort, Aborted
  <2>13. CASE Cleanup
    <3>1. Cleaned(exec) \in [st : GalleryStatus, pages : 0..MaxPages, replaced : 0..MaxPages]
      <4>1. exec.snap \in GalleryStatus /\ exec.held \in 0..MaxPages /\ NoGallery.st = "none"
        BY DEF NoGallery
      <4>2. [gallery EXCEPT !.st = exec.snap, !.pages = exec.held]
              \in [st : GalleryStatus, pages : 0..MaxPages, replaced : 0..MaxPages]
        BY <4>1
      <4>3. NoGallery \in [st : GalleryStatus, pages : 0..MaxPages, replaced : 0..MaxPages]
        BY DEF NoGallery
      <4> QED BY <4>2, <4>3 DEF Cleaned
    <3>2. stray' \subseteq stray /\ gallery' = Cleaned(exec)
          /\ UNCHANGED <<status, stopAt, owned, retries, redis, keeper, handoff, boot, users, faults>>
      BY <2>13 DEF Cleanup, StrayWithout
    <3> QED BY <3>1, <3>2
  <2>14. CASE FlagCheck BY <2>14 DEF FlagCheck, ReadsIntent
  <2>15. CASE DbCheck BY <2>15 DEF DbCheck, ReadsIntent
  <2>16. CASE Finalize BY <2>16 DEF Finalize, Finalized
  <2>17. CASE SetStatus BY <2>17 DEF SetStatus
  <2>18. CASE ClaimStopFinish BY <2>18 DEF ClaimStopFinish, Left
  <2>19. CASE FinalizeKept BY <2>19 DEF FinalizeKept, StrayWithout, Kept, Finalized, NoGallery
  <2>20. CASE Release BY <2>20 DEF Release, NoExec
  <2> QED BY <1>2, <2>1, <2>2, <2>3, <2>4, <2>5, <2>6, <2>7, <2>8, <2>9, <2>10, <2>11,
      <2>12, <2>13, <2>14, <2>15, <2>16, <2>17, <2>18, <2>19, <2>20 DEF ExecStep
<1>3. CASE FileStep
  <2>1. CASE OnFile BY <2>1 DEF OnFile, Ensure, Ensured, Attach
  <2>2. CASE ImportPage BY <2>2, <1>b DEF Imports
  <2> QED BY <1>3, <2>1, <2>2 DEF FileStep
<1>4. CASE ExecFault
  <2>1. CASE LoadFails BY <2>1 DEF LoadFails
  <2>2. CASE FinalizeFails BY <2>2 DEF FinalizeFails, Left, Finalized
  <2>3. CASE SetStatusFails BY <2>3 DEF SetStatusFails
  <2>4. CASE KeepFails BY <2>4 DEF KeepFails, Left
  <2>5. CASE FinalizeKeptFails BY <2>5 DEF FinalizeKeptFails, Left, Aborted, Settled
  <2>6. CASE TimeOut BY <2>6 DEF TimeOut, Left
  <2>7. CASE ReleaseFails BY <2>7 DEF ReleaseFails, NoExec
  <2> QED BY <1>4, <2>1, <2>2, <2>3, <2>4, <2>5, <2>6, <2>7 DEF ExecFault
<1>5. CASE UserStep
  <2>1. CASE RequestStop BY <2>1 DEF RequestStop
  <2>2. CASE SetStopFlag BY <2>2 DEF SetStopFlag
  <2>3. CASE StopFlagLost BY <2>3 DEF StopFlagLost
  <2>4. CASE CancelLock BY <2>4 DEF CancelLock
  <2>5. CASE CancelFlag BY <2>5 DEF CancelFlag
  <2>6. CASE CancelCommit BY <2>6 DEF CancelCommit
  <2>7. CASE CancelRollsBack BY <2>7 DEF CancelRollsBack
  <2>8. CASE PauseRead BY <2>8 DEF PauseRead, ReadRow
  <2>9. CASE ResumeRead BY <2>9 DEF ResumeRead, ReadRow
  <2>10. CASE CommitRow BY <2>10 DEF CommitRow, Written
  <2> QED BY <1>5, <2>1, <2>2, <2>3, <2>4, <2>5, <2>6, <2>7, <2>8, <2>9,
      <2>10 DEF UserStep
<1>6. CASE KeeperStep
  <2>1. CASE FinalizeStopped BY <2>1 DEF FinalizeStopped, Stopped
  <2>2. CASE KeepGallery
    <3>1. /\ GalleryType' /\ keeper' = "idle" /\ UNCHANGED <<row, redis, stray, boot, users>>
          /\ faults' = faults \/ Fault
      BY <2>2, <1>b DEF Keeps
    <3>2. faults' \in 0..MaxFaults BY <3>1
    <3>3. /\ status' \in Active \cup Terminal /\ flag' \in {"none", "cancel", "stop"}
          /\ stray' \subseteq {"gallery", "file"} /\ canceller' \in {"none", "locked", "flagged"}
          /\ req' \in ReqState /\ boot' \in BootState
      BY <3>1
    <3> QED BY <3>1, <3>2, <3>3, Zenon
  <2>3. CASE KeepGalleryFails
    <3>1. /\ GalleryType' /\ keeper' = "idle" /\ UNCHANGED <<row, redis, stray, boot, users>>
          /\ faults' = faults \/ Fault
      BY <2>3, <1>b DEF Keeps
    <3>2. faults' \in 0..MaxFaults BY <3>1
    <3>3. /\ status' \in Active \cup Terminal /\ flag' \in {"none", "cancel", "stop"}
          /\ stray' \subseteq {"gallery", "file"} /\ canceller' \in {"none", "locked", "flagged"}
          /\ req' \in ReqState /\ boot' \in BootState
      BY <3>1
    <3> QED BY <3>1, <3>2, <3>3, Zenon
  <2>4. CASE HandoffLost BY <2>4 DEF HandoffLost
  <2> QED BY <1>6, <2>1, <2>2, <2>3, <2>4 DEF KeeperStep
<1>7. CASE CronStep
  <2>1. CASE ReapRead BY <2>1 DEF ReapRead, ReadRow
  <2>2. CASE ReapStopped BY <2>2 DEF ReapStopped
  <2>3. CASE CronRetry BY <2>3 DEF CronRetry
  <2> QED BY <1>7, <2>1, <2>2, <2>3 DEF CronStep
<1>8. CASE LoseFlag
  BY <1>8 DEF LoseFlag
<1>9. CASE Crash
  BY <1>9 DEF Crash, NoExec, Phase
<1>10. CASE BootStep
  <2>1. CASE BootLoad
    <3>1. \A b \in BOOLEAN :
            [boot EXCEPT !.loaded = TRUE, !.hit = b, !.stop = stopAt] \in BootState
      OBVIOUS
    <3>2. (status = boot.phase) \in BOOLEAN BY Zenon
    <3>3. boot' \in BootState BY <2>1, <3>1, <3>2, Zenon DEF BootLoad
    <3> QED BY <2>1, <3>3 DEF BootLoad
  <2>2. CASE BootMiss BY <2>2 DEF BootMiss, Phase, After
  <2>3. CASE BootHandOver BY <2>3 DEF BootHandOver, Phase, After, BootGallery
  <2>4. CASE BootPolicy BY <2>4 DEF BootPolicy, Phase, After, BootGallery
  <2>5. CASE BootSettle BY <2>5 DEF BootSettle, Phase, Settled, Fault
  <2> QED BY <1>10, <2>1, <2>2, <2>3, <2>4, <2>5 DEF BootStep
<1>11. CASE UNCHANGED vars BY <1>11 DEF vars
<1>12. CASE StrayStep
  <2>1. CASE StrayImports BY <2>1, <1>b DEF Strays
  <2>2. CASE StrayEnsures BY <2>2 DEF StrayEnsures, Ensure
  <2> QED BY <1>12, <2>1, <2>2 DEF StrayStep
<1> QED BY <1>1, <1>2, <1>3, <1>4, <1>5, <1>6, <1>7, <1>8, <1>9, <1>10, <1>11, <1>12 DEF Next

\* Every step keeps the bound on the retries and what is known about the owner of
\* the row, the verdict and the keeper.
LEMMA ControlStep ==
  ASSUME LifecycleInv, [Next]_vars
  PROVE  retries' \in Nat /\ RetryInv' /\ OwnerInv' /\ VerdictInv' /\ KeeperInv'
<1>b. /\ ImportPage => Imports
      /\ StrayImports => Strays
      /\ KeepGallery \/ KeepGalleryFails => Keeps
  BY ImportFields, StrayFields, KeeperFields
<1> USE OverFields DEF LifecycleInv, RetryInv, Uncounted, OwnerInv, VerdictInv, KeeperInv, NoReq,
            TypeOK, ExecState, ReqState, BootState, Results, Active, Up, RowLocked
<1>1. CASE Claim
  BY <1>1 DEF Claim, NoExec
<1>2. CASE ExecStep
  <2>1. CASE Confirm BY <2>1 DEF Confirm
  <2>2. CASE PreflightFails BY <2>2 DEF PreflightFails
  <2>3. CASE Load BY <2>3 DEF Load, Attach
  <2>4. CASE ResolveMetadata BY <2>4 DEF ResolveMetadata, Ensure, Ensured, Attach
  <2>5. CASE NoMetadata BY <2>5 DEF NoMetadata
  <2>6. CASE Gate
    <3>1. CASE exec.seen BY <2>6, <3>1 DEF Gate
    <3>2. CASE ~exec.seen /\ pauseKey BY <2>6, <3>2 DEF Gate
    <3>3. CASE ~exec.seen /\ ~pauseKey BY <2>6, <3>3 DEF Gate
    <3> QED BY <3>1, <3>2, <3>3
  <2>7. CASE EndDownload BY <2>7 DEF EndDownload
  <2>8. CASE DownloadRaises BY <2>8 DEF DownloadRaises
  <2>9. CASE Raised BY <2>9 DEF Raised, ReadsIntent
  <2>10. CASE Verdict BY <2>10 DEF Verdict, ReadsIntent
  <2>11. CASE Reread BY <2>11 DEF Reread, ReadsIntent
  <2>12. CASE Abort BY <2>12 DEF Abort, Aborted
  <2>13. CASE Cleanup
    <3>1. CASE exec.out = "cancelled" BY <2>13, <3>1 DEF Cleanup, StrayWithout, Cleaned, NoGallery
    <3>2. CASE exec.out # "cancelled" BY <2>13, <3>2 DEF Cleanup, StrayWithout, Cleaned, NoGallery
    <3> QED BY <3>1, <3>2
  <2>14. CASE FlagCheck BY <2>14 DEF FlagCheck, ReadsIntent
  <2>15. CASE DbCheck BY <2>15 DEF DbCheck, ReadsIntent
  <2>16. CASE Finalize BY <2>16 DEF Finalize, Finalized
  <2>17. CASE SetStatus BY <2>17 DEF SetStatus, Results
  <2>18. CASE ClaimStopFinish
    <3>1. CASE status \in Active /\ stopAt BY <2>18, <3>1 DEF ClaimStopFinish
    <3>2. CASE ~(status \in Active /\ stopAt) /\ status = "cancelled"
      BY <2>18, <3>2, CancelledAtClaim
    <3>3. CASE ~(status \in Active /\ stopAt) /\ status # "cancelled"
      BY <2>18, <3>3 DEF ClaimStopFinish, Left
    <3> QED BY <3>1, <3>2, <3>3
  <2>19. CASE FinalizeKept BY <2>19 DEF FinalizeKept, StrayWithout, Kept, Finalized, NoGallery
  <2>20. CASE Release BY <2>20 DEF Release, NoExec
  <2> QED BY <1>2, <2>1, <2>2, <2>3, <2>4, <2>5, <2>6, <2>7, <2>8, <2>9, <2>10, <2>11,
      <2>12, <2>13, <2>14, <2>15, <2>16, <2>17, <2>18, <2>19, <2>20 DEF ExecStep
<1>3. CASE FileStep
  <2>1. CASE OnFile BY <2>1 DEF OnFile, Ensure, Ensured, Attach
  <2>2. CASE ImportPage BY <2>2, <1>b DEF Imports, Same, Grown, Pending
  <2> QED BY <1>3, <2>1, <2>2 DEF FileStep
<1>4. CASE ExecFault
  <2>1. CASE LoadFails BY <2>1 DEF LoadFails
  <2>2. CASE FinalizeFails BY <2>2 DEF FinalizeFails, Left, Finalized
  <2>3. CASE SetStatusFails BY <2>3 DEF SetStatusFails
  <2>4. CASE KeepFails BY <2>4 DEF KeepFails, Left
  <2>5. CASE FinalizeKeptFails BY <2>5 DEF FinalizeKeptFails, Left, Aborted, Settled
  <2>6. CASE TimeOut BY <2>6 DEF TimeOut, Left
  <2>7. CASE ReleaseFails BY <2>7 DEF ReleaseFails, NoExec
  <2> QED BY <1>4, <2>1, <2>2, <2>3, <2>4, <2>5, <2>6, <2>7 DEF ExecFault
<1>5. CASE UserStep
  <2>1. CASE RequestStop BY <2>1 DEF RequestStop
  <2>2. CASE SetStopFlag BY <2>2 DEF SetStopFlag
  <2>3. CASE StopFlagLost BY <2>3 DEF StopFlagLost
  <2>4. CASE CancelLock BY <2>4 DEF CancelLock
  <2>5. CASE CancelFlag BY <2>5 DEF CancelFlag
  <2>6. CASE CancelCommit BY <2>6 DEF CancelCommit
  <2>7. CASE CancelRollsBack BY <2>7 DEF CancelRollsBack
  <2>8. CASE PauseRead BY <2>8 DEF PauseRead, ReadRow
  <2>9. CASE ResumeRead BY <2>9 DEF ResumeRead, ReadRow
  <2>10. CASE CommitRow BY <2>10 DEF CommitRow, Written
  <2> QED BY <1>5, <2>1, <2>2, <2>3, <2>4, <2>5, <2>6, <2>7, <2>8, <2>9,
      <2>10 DEF UserStep
<1>6. CASE KeeperStep
  <2>1. CASE FinalizeStopped BY <2>1 DEF FinalizeStopped, Stopped
  <2>2. CASE KeepGallery BY <2>2, <1>b DEF Keeps, GrownBeside, Grown, Same
  <2>3. CASE KeepGalleryFails BY <2>3, <1>b DEF Keeps, GrownBeside, Grown, Same
  <2>4. CASE HandoffLost BY <2>4 DEF HandoffLost
  <2> QED BY <1>6, <2>1, <2>2, <2>3, <2>4 DEF KeeperStep
<1>7. CASE CronStep
  <2>1. CASE ReapRead BY <2>1 DEF ReapRead, ReadRow
  <2>2. CASE ReapStopped BY <2>2 DEF ReapStopped
  <2>3. CASE CronRetry BY <2>3 DEF CronRetry
  <2> QED BY <1>7, <2>1, <2>2, <2>3 DEF CronStep
<1>8. CASE LoseFlag
  BY <1>8 DEF LoseFlag
<1>9. CASE Crash
  BY <1>9 DEF Crash, NoExec, Phase
<1>10. CASE BootStep
  <2>1. CASE BootLoad BY <2>1 DEF BootLoad
  <2>2. CASE BootMiss BY <2>2 DEF BootMiss, Phase, After
  <2>3. CASE BootHandOver BY <2>3 DEF BootHandOver, Phase, After, BootGallery
  <2>4. CASE BootPolicy
    <3>1. boot.phase \in Active BY <2>4 DEF BootPolicy
    <3>2. CASE boot.phase = "running" BY <2>4, <3>2 DEF BootPolicy, Phase, After
    <3>3. CASE boot.phase = "queued" BY <2>4, <3>3 DEF BootPolicy, Phase, After
    <3>4. CASE boot.phase = "paused" BY <2>4, <3>4 DEF BootPolicy, Phase, After
    <3> QED BY <3>1, <3>2, <3>3, <3>4
  <2>5. CASE BootSettle BY <2>5 DEF BootSettle, Phase, Settled, Fault
  <2> QED BY <1>10, <2>1, <2>2, <2>3, <2>4, <2>5 DEF BootStep
<1>11. CASE UNCHANGED vars BY <1>11 DEF vars
<1>12. CASE StrayStep
  <2>1. CASE StrayImports BY <2>1, <1>b DEF Strays, GrownBeside, Grown, Same
  <2>2. CASE StrayEnsures BY <2>2 DEF StrayEnsures, Ensure
  <2> QED BY <1>12, <2>1, <2>2 DEF StrayStep
<1> QED BY <1>1, <1>2, <1>3, <1>4, <1>5, <1>6, <1>7, <1>8, <1>9, <1>10, <1>11, <1>12 DEF Next

\* What is imported beside an execution leaves what it holds, and what it added, in the
\* gallery.
LEMMA BesideStep ==
  ASSUME LifecycleInv, NEW new \in Nat, NEW changed \in Nat, GrownBeside(new, changed),
         GalleryType', stray' = stray
  PROVE  SnapshotInv' /\ RowsKept' /\ ImportInv'
<1>1. /\ gallery.pages \in Nat /\ gallery.replaced \in Nat /\ exec.held \in Nat
      /\ exec.added \in Nat /\ ImportInv /\ SnapshotInv /\ RowsKept
  BY DEF LifecycleInv, TypeOK, ExecState
<1>2. /\ gallery'.pages = gallery.pages + new
      /\ gallery'.replaced = gallery.replaced + changed
      /\ gallery'.st = "none" <=> gallery.st = "none"
      /\ gallery.pages + gallery.replaced + new + changed <= MaxPages
  BY DEF GrownBeside, Grown
<1>3. /\ exec'.pc = exec.pc /\ exec'.gid = exec.gid /\ exec'.filed = exec.filed
      /\ exec'.pre = exec.pre /\ exec'.base = exec.base /\ exec'.snap = exec.snap
      /\ exec'.got = exec.got /\ exec'.added = exec.added
  BY DEF GrownBeside, Same
<1>4. /\ exec.gid => changed <= exec.held /\ exec'.held = exec.held - changed
      /\ ~exec.gid => changed <= gallery.pages /\ exec'.held = exec.held
  BY DEF GrownBeside
<1>5. exec.pre => exec.gid BY <1>1 DEF ImportInv
<1>6. SnapshotInv'
  BY <1>1, <1>2, <1>3, <1>4, <1>5 DEF SnapshotInv, Counting
<1>7. RowsKept' BY <1>1, <1>2 DEF RowsKept
<1>8. gallery.st = "none" => new = 0 /\ changed = 0
  BY DEF GrownBeside
<1>9. exec'.pc \in Counting => exec'.held + exec'.added <= gallery'.pages
  BY <1>1, <1>2, <1>3, <1>4 DEF ImportInv
<1>10. ~exec'.pre => exec'.base = 0 /\ exec'.held = 0
  BY <1>1, <1>3, <1>4 DEF ImportInv
<1> QED BY <1>1, <1>2, <1>3, <1>6, <1>7, <1>8, <1>9, <1>10 DEF ImportInv

\* What an execution leaves behind with a gallery has one.
LEMMA LeftGallery ==
  ASSUME LifecycleInv, "gallery" \in Left(exec) PROVE gallery.st # "none"
<1>1. exec.pc \in Pending BY DEF Left, Pending
<1>2. exec.gid BY DEF Left, LifecycleInv, ImportInv, TypeOK, ExecState
<1> QED BY <1>1, <1>2 DEF Pending, LifecycleInv, ImportInv, Counting, Unsettled

\* Every step keeps the snapshot, the rows of the gallery and the pages a run imported.
LEMMA GalleryStep ==
  ASSUME LifecycleInv, [Next]_vars
  PROVE  SnapshotInv' /\ RowsKept' /\ ImportInv'
<1>b. /\ ImportPage => Imports
      /\ StrayImports => Strays
      /\ KeepGallery \/ KeepGalleryFails => Keeps
  BY ImportFields, StrayFields, KeeperFields
<1>c. \A new, changed \in Nat :
        GrownBeside(new, changed) /\ GalleryType' /\ stray' = stray =>
          SnapshotInv' /\ RowsKept' /\ ImportInv'
  BY BesideStep
<1>d. "gallery" \in Left(exec) => gallery.st # "none"
  BY LeftGallery
<1> USE OverFields DEF LifecycleInv, SnapshotInv, RowsKept, ImportInv, Counting, Unsettled, TypeOK,
            ExecState
<1>1. CASE Claim
  BY <1>1 DEF Claim, NoExec
<1>2. CASE ExecStep
  <2>1. CASE Confirm BY <2>1 DEF Confirm
  <2>2. CASE PreflightFails
    <3>1. GoSet("failed") /\ gallery' = gallery /\ stray' = stray BY <2>2 DEF PreflightFails
    <3> QED BY <3>1
  <2>3. CASE Load BY <2>3 DEF Load, Attach
  <2>4. CASE ResolveMetadata BY <2>4 DEF ResolveMetadata, Ensure, Ensured, Attach
  <2>5. CASE NoMetadata BY <2>5 DEF NoMetadata
  <2>6. CASE Gate
    <3>1. CASE exec.seen BY <2>6, <3>1 DEF Gate
    <3>2. CASE ~exec.seen /\ pauseKey BY <2>6, <3>2 DEF Gate
    <3>3. CASE ~exec.seen /\ ~pauseKey BY <2>6, <3>3 DEF Gate
    <3> QED BY <3>1, <3>2, <3>3
  <2>7. CASE EndDownload BY <2>7 DEF EndDownload
  <2>8. CASE DownloadRaises BY <2>8 DEF DownloadRaises
  <2>9. CASE Raised BY <2>9 DEF Raised, ReadsIntent
  <2>10. CASE Verdict BY <2>10 DEF Verdict, ReadsIntent
  <2>11. CASE Reread BY <2>11 DEF Reread, ReadsIntent
  <2>12. CASE Abort BY <2>12 DEF Abort, Aborted
  <2>13. CASE Cleanup
    <3>1. CASE exec.out = "cancelled" BY <2>13, <3>1 DEF Cleanup, StrayWithout, Cleaned, NoGallery
    <3>2. CASE exec.out # "cancelled" BY <2>13, <3>2 DEF Cleanup, StrayWithout, Cleaned, NoGallery
    <3> QED BY <3>1, <3>2
  <2>14. CASE FlagCheck BY <2>14 DEF FlagCheck, ReadsIntent
  <2>15. CASE DbCheck
    <3>1. /\ exec.pc = "dbcheck" /\ gallery' = gallery /\ stray' = stray
          /\ \E p \in {"keep", "cleanup", "finalize"} : Go(p)
      BY <2>15 DEF DbCheck
    <3> QED BY <3>1
  <2>16. CASE Finalize BY <2>16 DEF Finalize, Finalized
  <2>17. CASE SetStatus BY <2>17 DEF SetStatus, Results
  <2>18. CASE ClaimStopFinish
    <3>1. CASE status \in Active /\ stopAt BY <2>18, <3>1 DEF ClaimStopFinish
    <3>2. CASE ~(status \in Active /\ stopAt) /\ status = "cancelled"
      BY <2>18, <3>2, CancelledAtClaim
    <3>3. CASE ~(status \in Active /\ stopAt) /\ status # "cancelled"
      BY <2>18, <3>3, <1>d DEF ClaimStopFinish
    <3> QED BY <3>1, <3>2, <3>3
  <2>19. CASE FinalizeKept
    <3>1. /\ exec.pc = "kept" /\ Leave /\ stray' \subseteq stray
          /\ "gallery" \in stray' => gallery'.st # "none"
      BY <2>19 DEF FinalizeKept, StrayWithout
    <3>2. \/ gallery' = gallery
          \/ exec.gid /\ ~exec.pre /\ gallery' = NoGallery
          \/ /\ exec.gid /\ gallery'.st # "none"
             /\ gallery'.pages = gallery.pages /\ gallery'.replaced = gallery.replaced
      BY <2>19 DEF FinalizeKept, Kept, Finalized
    <3> QED BY <3>1, <3>2 DEF NoGallery
  <2>20. CASE Release BY <2>20 DEF Release, NoExec
  <2> QED BY <1>2, <2>1, <2>2, <2>3, <2>4, <2>5, <2>6, <2>7, <2>8, <2>9, <2>10, <2>11,
      <2>12, <2>13, <2>14, <2>15, <2>16, <2>17, <2>18, <2>19, <2>20 DEF ExecStep
<1>3. CASE FileStep
  <2>1. CASE OnFile BY <2>1 DEF OnFile, Ensure, Ensured, Attach
  <2>2. CASE ImportPage BY <2>2, <1>b DEF Imports, Same, Grown, Pending
  <2> QED BY <1>3, <2>1, <2>2 DEF FileStep
<1>4. CASE ExecFault
  <2>1. CASE LoadFails BY <2>1 DEF LoadFails
  <2>2. CASE FinalizeFails BY <2>2, <1>d DEF FinalizeFails, Finalized
  <2>3. CASE SetStatusFails BY <2>3 DEF SetStatusFails
  <2>4. CASE KeepFails BY <2>4, <1>d DEF KeepFails
  <2>5. CASE FinalizeKeptFails
    <3>1. /\ gallery'.pages = gallery.pages /\ gallery'.replaced = gallery.replaced
          /\ gallery'.st = "none" <=> gallery.st = "none"
      BY <2>5 DEF FinalizeKeptFails, Aborted, Settled
    <3>2. /\ exec.pc = "kept" /\ Leave
          /\ "gallery" \in stray' => gallery.st # "none"
      BY <2>5, <1>d DEF FinalizeKeptFails
    <3> QED BY <3>1, <3>2
  <2>6. CASE TimeOut BY <2>6, <1>d DEF TimeOut
  <2>7. CASE ReleaseFails BY <2>7 DEF ReleaseFails, NoExec
  <2> QED BY <1>4, <2>1, <2>2, <2>3, <2>4, <2>5, <2>6, <2>7 DEF ExecFault
<1>5. CASE UserStep
  <2>1. CASE RequestStop BY <2>1 DEF RequestStop
  <2>2. CASE SetStopFlag BY <2>2 DEF SetStopFlag
  <2>3. CASE StopFlagLost BY <2>3 DEF StopFlagLost
  <2>4. CASE CancelLock BY <2>4 DEF CancelLock
  <2>5. CASE CancelFlag BY <2>5 DEF CancelFlag
  <2>6. CASE CancelCommit BY <2>6 DEF CancelCommit
  <2>7. CASE CancelRollsBack BY <2>7 DEF CancelRollsBack
  <2>8. CASE PauseRead BY <2>8 DEF PauseRead, ReadRow
  <2>9. CASE ResumeRead BY <2>9 DEF ResumeRead, ReadRow
  <2>10. CASE CommitRow BY <2>10 DEF CommitRow, Written
  <2> QED BY <1>5, <2>1, <2>2, <2>3, <2>4, <2>5, <2>6, <2>7, <2>8, <2>9,
      <2>10 DEF UserStep
<1>6. CASE KeeperStep
  <2>1. CASE FinalizeStopped BY <2>1 DEF FinalizeStopped, Stopped
  <2>2. CASE KeepGallery
    <3>1. PICK new, changed \in 0..MaxPages : GrownBeside(new, changed) BY <2>2, <1>b DEF Keeps
    <3>2. GalleryType' /\ stray' = stray BY <2>2, <1>b DEF Keeps
    <3> HIDE DEF SnapshotInv, RowsKept, ImportInv, GalleryType
    <3> QED BY <3>1, <3>2, <1>c
  <2>3. CASE KeepGalleryFails
    <3>1. PICK new, changed \in 0..MaxPages : GrownBeside(new, changed) BY <2>3, <1>b DEF Keeps
    <3>2. GalleryType' /\ stray' = stray BY <2>3, <1>b DEF Keeps
    <3> HIDE DEF SnapshotInv, RowsKept, ImportInv, GalleryType
    <3> QED BY <3>1, <3>2, <1>c
  <2>4. CASE HandoffLost BY <2>4 DEF HandoffLost
  <2> QED BY <1>6, <2>1, <2>2, <2>3, <2>4 DEF KeeperStep
<1>7. CASE CronStep
  <2>1. CASE ReapRead BY <2>1 DEF ReapRead, ReadRow
  <2>2. CASE ReapStopped BY <2>2 DEF ReapStopped
  <2>3. CASE CronRetry BY <2>3 DEF CronRetry
  <2> QED BY <1>7, <2>1, <2>2, <2>3 DEF CronStep
<1>8. CASE LoseFlag
  BY <1>8 DEF LoseFlag
<1>9. CASE Crash
  BY <1>9 DEF Crash, NoExec, Phase
<1>10. CASE BootStep
  <2>1. CASE BootLoad BY <2>1 DEF BootLoad
  <2>2. CASE BootMiss BY <2>2 DEF BootMiss, Phase, After
  <2>3. CASE BootHandOver BY <2>3 DEF BootHandOver, Phase, After, BootGallery
  <2>4. CASE BootPolicy BY <2>4 DEF BootPolicy, Phase, After, BootGallery
  <2>5. CASE BootSettle BY <2>5 DEF BootSettle, Phase, Settled, Fault
  <2> QED BY <1>10, <2>1, <2>2, <2>3, <2>4, <2>5 DEF BootStep
<1>11. CASE UNCHANGED vars BY <1>11 DEF vars
<1>12. CASE StrayStep
  <2>1. CASE StrayImports
    <3>1. PICK new \in 0..1 : GrownBeside(new, 1 - new) BY <2>1, <1>b DEF Strays
    <3>2. GalleryType' /\ stray' = stray BY <2>1, <1>b DEF Strays
    <3> HIDE DEF SnapshotInv, RowsKept, ImportInv, GalleryType
    <3> QED BY <3>1, <3>2, <1>c
  <2>2. CASE StrayEnsures BY <2>2 DEF StrayEnsures, Ensure
  <2> QED BY <1>12, <2>1, <2>2 DEF StrayStep
<1> QED BY <1>1, <1>2, <1>3, <1>4, <1>5, <1>6, <1>7, <1>8, <1>9, <1>10, <1>11, <1>12 DEF Next


-----------------------------------------------------------------------------
(* The theorems. *)

\* The initial states satisfy the invariant.
LEMMA InitLifecycle == Init => LifecycleInv
<1> SUFFICES ASSUME Init PROVE LifecycleInv
  OBVIOUS
<1>1. exec \in ExecState BY NoExecType DEF Init
<1>2. Flags BY Zenon DEF Init, Flags
<1>3. gallery \in [st : GalleryStatus, pages : 0..MaxPages, replaced : 0..MaxPages]
  BY DEF Init, NoGallery, GalleryStatus
<1>4. TypeOK
  BY <1>1, <1>2, <1>3
  DEF Init, TypeOK, Flags, NoReq, ReqState, BootState, Active, Terminal
<1>5. RetryInv /\ OwnerInv /\ VerdictInv /\ KeeperInv
  BY DEF Init, RetryInv, Uncounted, OwnerInv, VerdictInv, KeeperInv, NoExec, NoReq, Up
<1>6. ImportInv /\ SnapshotInv /\ RowsKept
  BY DEF Init, ImportInv, Counting, Unsettled, SnapshotInv, RowsKept, NoExec, NoGallery
<1> QED BY <1>4, <1>5, <1>6 DEF LifecycleInv

\* Every step preserves it.
LEMMA LifecycleStep == LifecycleInv /\ [Next]_vars => LifecycleInv'
<1> SUFFICES ASSUME LifecycleInv, [Next]_vars PROVE LifecycleInv'
  OBVIOUS
<1>1. TypeOK /\ ImportInv BY DEF LifecycleInv
<1>2. Flags' BY <1>1, FlagsStep
<1>3. exec' \in ExecState BY ExecTypeStep
<1>4. DataType' BY DataTypeStep
<1>5. /\ retries' \in Nat /\ RetryInv' /\ OwnerInv' /\ VerdictInv' /\ KeeperInv'
  BY ControlStep
<1>6. SnapshotInv' /\ RowsKept' /\ ImportInv' BY GalleryStep
<1>7. retries' \in 0..(MaxRetries + 2 * MaxFaults)
  BY <1>4, <1>5 DEF RetryInv, Uncounted, DataType
<1>8. TypeOK' BY <1>2, <1>3, <1>4, <1>7, Zenon DEF TypeOK, Flags, DataType, GalleryType
<1> QED BY <1>5, <1>6, <1>8, Zenon DEF LifecycleInv

\* The types, the count of retries, the owner of the row, the verdict, the keeper and
\* the snapshot of the importer, in every reachable state.
THEOREM LifecycleCorrect == Spec => []LifecycleInv
<1> USE DEF Spec
<1> QED BY InitLifecycle, LifecycleStep, PTL

-----------------------------------------------------------------------------
(* How a job ends. *)

-----------------------------------------------------------------------------
(* One lemma per part of the invariant, one step per action. *)

\* Every step keeps the stop that is behind a flag, and the lock of an active row.
LEMMA IntentStep ==
  ASSUME LifecycleInv, IntentInv, [Next]_vars
  PROVE  IntentInv'
<1>b. /\ ImportPage => Imports
      /\ StrayImports => Strays
      /\ KeepGallery \/ KeepGalleryFails => Keeps
  BY ImportFields, StrayFields, KeeperFields
<1> USE OverFields DEF LifecycleInv, TypeOK, ExecState, Up, RowLocked, IntentInv, OwnerInv,
    VerdictInv
<1>1. CASE Claim BY <1>1 DEF Claim, NoExec
<1>2. CASE ExecStep
  <2>1. CASE Confirm BY <2>1 DEF Confirm
  <2>2. CASE PreflightFails BY <2>2 DEF PreflightFails
  <2>3. CASE Load BY <2>3 DEF Load, Attach
  <2>4. CASE ResolveMetadata BY <2>4 DEF ResolveMetadata, Ensure, Ensured, Attach
  <2>5. CASE NoMetadata BY <2>5 DEF NoMetadata
  <2>6. CASE Gate
    <3>1. CASE exec.seen BY <2>6, <3>1 DEF Gate
    <3>2. CASE ~exec.seen /\ pauseKey BY <2>6, <3>2 DEF Gate
    <3>3. CASE ~exec.seen /\ ~pauseKey BY <2>6, <3>3 DEF Gate
    <3> QED BY <3>1, <3>2, <3>3
  <2>7. CASE EndDownload BY <2>7 DEF EndDownload
  <2>8. CASE DownloadRaises BY <2>8 DEF DownloadRaises
  <2>9. CASE Raised BY <2>9 DEF Raised, ReadsIntent, DurableIntent
  <2>10. CASE Verdict BY <2>10 DEF Verdict, ReadsIntent, DurableIntent
  <2>11. CASE Reread BY <2>11 DEF Reread, ReadsIntent, DurableIntent
  <2>12. CASE Abort BY <2>12 DEF Abort, Aborted
  <2>13. CASE Cleanup
    <3>1. CASE exec.out = "cancelled" BY <2>13, <3>1 DEF Cleanup, StrayWithout, Cleaned, NoGallery
    <3>2. CASE exec.out # "cancelled" BY <2>13, <3>2 DEF Cleanup, StrayWithout, Cleaned, NoGallery
    <3> QED BY <3>1, <3>2
  <2>14. CASE FlagCheck BY <2>14 DEF FlagCheck, ReadsIntent, DurableIntent
  <2>15. CASE DbCheck BY <2>15 DEF DbCheck, ReadsIntent, DurableIntent
  <2>16. CASE Finalize BY <2>16 DEF Finalize, Finalized
  <2>17. CASE SetStatus BY <2>17 DEF SetStatus, Results
  <2>18. CASE ClaimStopFinish
    <3>1. CASE status \in Active /\ stopAt BY <2>18, <3>1 DEF ClaimStopFinish
    <3>2. CASE ~(status \in Active /\ stopAt) /\ status = "cancelled"
      BY <2>18, <3>2, CancelledAtClaim
    <3>3. CASE ~(status \in Active /\ stopAt) /\ status # "cancelled"
      BY <2>18, <3>3 DEF ClaimStopFinish, Left
    <3> QED BY <3>1, <3>2, <3>3
  <2>19. CASE FinalizeKept BY <2>19 DEF FinalizeKept, StrayWithout, Kept, Finalized, NoGallery
  <2>20. CASE Release BY <2>20 DEF Release, NoExec
  <2> QED BY <1>2, <2>1, <2>2, <2>3, <2>4, <2>5, <2>6, <2>7, <2>8, <2>9, <2>10, <2>11,
      <2>12, <2>13, <2>14, <2>15, <2>16, <2>17, <2>18, <2>19, <2>20 DEF ExecStep
<1>3. CASE FileStep
  <2>1. CASE OnFile BY <2>1 DEF OnFile, Ensure, Ensured, Attach
  <2>2. CASE ImportPage BY <2>2, <1>b DEF Imports, Same, Grown, Pending
  <2> QED BY <1>3, <2>1, <2>2 DEF FileStep
<1>4. CASE ExecFault
  <2>1. CASE LoadFails BY <2>1 DEF LoadFails
  <2>2. CASE FinalizeFails BY <2>2 DEF FinalizeFails, Left, Finalized
  <2>3. CASE SetStatusFails BY <2>3 DEF SetStatusFails
  <2>4. CASE KeepFails BY <2>4 DEF KeepFails, Left
  <2>5. CASE FinalizeKeptFails BY <2>5 DEF FinalizeKeptFails, Left, Aborted, Settled
  <2>6. CASE TimeOut BY <2>6 DEF TimeOut, Left
  <2>7. CASE ReleaseFails BY <2>7 DEF ReleaseFails, NoExec
  <2> QED BY <1>4, <2>1, <2>2, <2>3, <2>4, <2>5, <2>6, <2>7 DEF ExecFault
<1>5. CASE UserStep
  <2>1. CASE RequestStop BY <2>1 DEF RequestStop
  <2>2. CASE SetStopFlag BY <2>2 DEF SetStopFlag
  <2>3. CASE StopFlagLost BY <2>3 DEF StopFlagLost
  <2>4. CASE CancelLock BY <2>4 DEF CancelLock
  <2>5. CASE CancelFlag BY <2>5 DEF CancelFlag
  <2>6. CASE CancelCommit BY <2>6 DEF CancelCommit
  <2>7. CASE CancelRollsBack BY <2>7 DEF CancelRollsBack
  <2>8. CASE PauseRead BY <2>8 DEF PauseRead, ReadRow
  <2>9. CASE ResumeRead BY <2>9 DEF ResumeRead, ReadRow
  <2>10. CASE CommitRow BY <2>10 DEF CommitRow, Written
  <2> QED BY <1>5, <2>1, <2>2, <2>3, <2>4, <2>5, <2>6, <2>7, <2>8, <2>9, <2>10 DEF
      UserStep
<1>6. CASE KeeperStep
  <2>1. CASE FinalizeStopped BY <2>1 DEF FinalizeStopped, Stopped
  <2>2. CASE KeepGallery BY <2>2, <1>b DEF Keeps, GrownBeside, Grown, Same
  <2>3. CASE KeepGalleryFails BY <2>3, <1>b DEF Keeps, GrownBeside, Grown, Same
  <2>4. CASE HandoffLost BY <2>4 DEF HandoffLost
  <2> QED BY <1>6, <2>1, <2>2, <2>3, <2>4 DEF KeeperStep
<1>7. CASE CronStep
  <2>1. CASE ReapRead BY <2>1 DEF ReapRead, ReadRow
  <2>2. CASE ReapStopped BY <2>2 DEF ReapStopped
  <2>3. CASE CronRetry BY <2>3 DEF CronRetry
  <2> QED BY <1>7, <2>1, <2>2, <2>3 DEF CronStep
<1>8. CASE LoseFlag BY <1>8 DEF LoseFlag
<1>9. CASE Crash BY <1>9 DEF Crash, NoExec, Phase
<1>10. CASE BootStep
  <2>1. CASE BootLoad BY <2>1 DEF BootLoad
  <2>2. CASE BootMiss BY <2>2 DEF BootMiss, Phase, After
  <2>3. CASE BootHandOver BY <2>3 DEF BootHandOver, Phase, After, BootGallery
  <2>4. CASE BootPolicy BY <2>4 DEF BootPolicy, Phase, After, BootGallery
  <2>5. CASE BootSettle BY <2>5 DEF BootSettle, Phase, Settled, Fault
  <2> QED BY <1>10, <2>1, <2>2, <2>3, <2>4, <2>5 DEF BootStep
<1>11. CASE UNCHANGED vars BY <1>11 DEF vars
<1>12. CASE StrayStep
  <2>1. CASE StrayImports BY <2>1, <1>b DEF Strays, GrownBeside, Grown, Same
  <2>2. CASE StrayEnsures BY <2>2 DEF StrayEnsures, Ensure
  <2> QED BY <1>12, <2>1, <2>2 DEF StrayStep
<1> QED BY <1>1, <1>2, <1>3, <1>4, <1>5, <1>6, <1>7, <1>8, <1>9, <1>10, <1>11, <1>12 DEF Next

\* Every step keeps the request that is behind a run that is thrown away.
LEMMA DiscardStep ==
  ASSUME LifecycleInv, IntentInv, DiscardInv, [Next]_vars
  PROVE  DiscardInv'
<1>b. /\ ImportPage => Imports
      /\ StrayImports => Strays
      /\ KeepGallery \/ KeepGalleryFails => Keeps
  BY ImportFields, StrayFields, KeeperFields
<1> USE OverFields DEF LifecycleInv, TypeOK, ExecState, Up, RowLocked, IntentInv, DiscardInv,
    OwnerInv, VerdictInv, SnapshotInv, NoReq, Active, Terminal, ReqState
<1>1. CASE Claim BY <1>1 DEF Claim, NoExec
<1>2. CASE ExecStep
  <2>1. CASE Confirm BY <2>1 DEF Confirm
  <2>2. CASE PreflightFails BY <2>2 DEF PreflightFails
  <2>3. CASE Load BY <2>3 DEF Load, Attach
  <2>4. CASE ResolveMetadata BY <2>4 DEF ResolveMetadata, Ensure, Ensured, Attach
  <2>5. CASE NoMetadata BY <2>5 DEF NoMetadata
  <2>6. CASE Gate
    <3>1. CASE exec.seen BY <2>6, <3>1 DEF Gate
    <3>2. CASE ~exec.seen /\ pauseKey BY <2>6, <3>2 DEF Gate
    <3>3. CASE ~exec.seen /\ ~pauseKey BY <2>6, <3>3 DEF Gate
    <3> QED BY <3>1, <3>2, <3>3
  <2>7. CASE EndDownload BY <2>7 DEF EndDownload
  <2>8. CASE DownloadRaises BY <2>8 DEF DownloadRaises
  <2>9. CASE Raised BY <2>9 DEF Raised, ReadsIntent, DurableIntent
  <2>10. CASE Verdict BY <2>10 DEF Verdict, ReadsIntent, DurableIntent
  <2>11. CASE Reread BY <2>11 DEF Reread, ReadsIntent, DurableIntent
  <2>12. CASE Abort BY <2>12 DEF Abort, Aborted
  <2>13. CASE Cleanup
    <3>1. CASE exec.out = "cancelled" BY <2>13, <3>1 DEF Cleanup, StrayWithout, Cleaned, NoGallery
    <3>2. CASE exec.out # "cancelled" BY <2>13, <3>2 DEF Cleanup, StrayWithout, Cleaned, NoGallery
    <3> QED BY <3>1, <3>2
  <2>14. CASE FlagCheck BY <2>14 DEF FlagCheck, ReadsIntent, DurableIntent
  <2>15. CASE DbCheck BY <2>15 DEF DbCheck, ReadsIntent, DurableIntent
  <2>16. CASE Finalize BY <2>16 DEF Finalize, Finalized
  <2>17. CASE SetStatus BY <2>17 DEF SetStatus, Results
  <2>18. CASE ClaimStopFinish
    <3>1. CASE status \in Active /\ stopAt BY <2>18, <3>1 DEF ClaimStopFinish
    <3>2. CASE ~(status \in Active /\ stopAt) /\ status = "cancelled"
      BY <2>18, <3>2, CancelledAtClaim
    <3>3. CASE ~(status \in Active /\ stopAt) /\ status # "cancelled"
      BY <2>18, <3>3 DEF ClaimStopFinish, Left
    <3> QED BY <3>1, <3>2, <3>3
  <2>19. CASE FinalizeKept BY <2>19 DEF FinalizeKept, StrayWithout, Kept, Finalized, NoGallery
  <2>20. CASE Release BY <2>20 DEF Release, NoExec
  <2> QED BY <1>2, <2>1, <2>2, <2>3, <2>4, <2>5, <2>6, <2>7, <2>8, <2>9, <2>10, <2>11,
      <2>12, <2>13, <2>14, <2>15, <2>16, <2>17, <2>18, <2>19, <2>20 DEF ExecStep
<1>3. CASE FileStep
  <2>1. CASE OnFile BY <2>1 DEF OnFile, Ensure, Ensured, Attach
  <2>2. CASE ImportPage BY <2>2, <1>b DEF Imports, Same, Grown, Pending
  <2> QED BY <1>3, <2>1, <2>2 DEF FileStep
<1>4. CASE ExecFault
  <2>1. CASE LoadFails BY <2>1 DEF LoadFails
  <2>2. CASE FinalizeFails BY <2>2 DEF FinalizeFails, Left, Finalized
  <2>3. CASE SetStatusFails BY <2>3 DEF SetStatusFails
  <2>4. CASE KeepFails BY <2>4 DEF KeepFails, Left
  <2>5. CASE FinalizeKeptFails BY <2>5 DEF FinalizeKeptFails, Left, Aborted, Settled
  <2>6. CASE TimeOut BY <2>6 DEF TimeOut, Left
  <2>7. CASE ReleaseFails BY <2>7 DEF ReleaseFails, NoExec
  <2> QED BY <1>4, <2>1, <2>2, <2>3, <2>4, <2>5, <2>6, <2>7 DEF ExecFault
<1>5. CASE UserStep
  <2>1. CASE RequestStop BY <2>1 DEF RequestStop
  <2>2. CASE SetStopFlag BY <2>2 DEF SetStopFlag
  <2>3. CASE StopFlagLost BY <2>3 DEF StopFlagLost
  <2>4. CASE CancelLock BY <2>4 DEF CancelLock
  <2>5. CASE CancelFlag BY <2>5 DEF CancelFlag
  <2>6. CASE CancelCommit BY <2>6 DEF CancelCommit
  <2>7. CASE CancelRollsBack BY <2>7 DEF CancelRollsBack
  <2>8. CASE PauseRead BY <2>8 DEF PauseRead, ReadRow
  <2>9. CASE ResumeRead BY <2>9 DEF ResumeRead, ReadRow
  <2>10. CASE CommitRow BY <2>10 DEF CommitRow, Written
  <2> QED BY <1>5, <2>1, <2>2, <2>3, <2>4, <2>5, <2>6, <2>7, <2>8, <2>9, <2>10 DEF
      UserStep
<1>6. CASE KeeperStep
  <2>1. CASE FinalizeStopped BY <2>1 DEF FinalizeStopped, Stopped
  <2>2. CASE KeepGallery BY <2>2, <1>b DEF Keeps, GrownBeside, Grown, Same
  <2>3. CASE KeepGalleryFails BY <2>3, <1>b DEF Keeps, GrownBeside, Grown, Same
  <2>4. CASE HandoffLost BY <2>4 DEF HandoffLost
  <2> QED BY <1>6, <2>1, <2>2, <2>3, <2>4 DEF KeeperStep
<1>7. CASE CronStep
  <2>1. CASE ReapRead BY <2>1 DEF ReapRead, ReadRow
  <2>2. CASE ReapStopped BY <2>2 DEF ReapStopped
  <2>3. CASE CronRetry BY <2>3 DEF CronRetry
  <2> QED BY <1>7, <2>1, <2>2, <2>3 DEF CronStep
<1>8. CASE LoseFlag BY <1>8 DEF LoseFlag
<1>9. CASE Crash BY <1>9 DEF Crash, NoExec, Phase
<1>10. CASE BootStep
  <2>1. CASE BootLoad BY <2>1 DEF BootLoad
  <2>2. CASE BootMiss BY <2>2 DEF BootMiss, Phase, After
  <2>3. CASE BootHandOver BY <2>3 DEF BootHandOver, Phase, After, BootGallery
  <2>4. CASE BootPolicy BY <2>4 DEF BootPolicy, Phase, After, BootGallery
  <2>5. CASE BootSettle BY <2>5 DEF BootSettle, Phase, Settled, Fault
  <2> QED BY <1>10, <2>1, <2>2, <2>3, <2>4, <2>5 DEF BootStep
<1>11. CASE UNCHANGED vars BY <1>11 DEF vars
<1>12. CASE StrayStep
  <2>1. CASE StrayImports BY <2>1, <1>b DEF Strays, GrownBeside, Grown, Same
  <2>2. CASE StrayEnsures BY <2>2 DEF StrayEnsures, Ensure
  <2> QED BY <1>12, <2>1, <2>2 DEF StrayStep
<1> QED BY <1>1, <1>2, <1>3, <1>4, <1>5, <1>6, <1>7, <1>8, <1>9, <1>10, <1>11, <1>12 DEF Next

\* Every step keeps the account of the pages that an execution imported.
LEMMA TallyStep ==
  ASSUME LifecycleInv, TallyInv, [Next]_vars
  PROVE  TallyInv'
<1>b. /\ ImportPage => Imports
      /\ StrayImports => Strays
      /\ KeepGallery \/ KeepGalleryFails => Keeps
  BY ImportFields, StrayFields, KeeperFields
<1> USE OverFields DEF LifecycleInv, TypeOK, ExecState, Up, RowLocked, ImportInv, TallyInv, Counting,
    Unsettled, OwnerInv, KeeperInv, SnapshotInv
<1>1. CASE Claim BY <1>1 DEF Claim, NoExec
<1>2. CASE ExecStep
  <2>1. CASE Confirm BY <2>1 DEF Confirm
  <2>2. CASE PreflightFails BY <2>2 DEF PreflightFails
  <2>3. CASE Load BY <2>3 DEF Load, Attach
  <2>4. CASE ResolveMetadata BY <2>4 DEF ResolveMetadata, Ensure, Ensured, Attach
  <2>5. CASE NoMetadata BY <2>5 DEF NoMetadata
  <2>6. CASE Gate
    <3>1. CASE exec.seen BY <2>6, <3>1 DEF Gate
    <3>2. CASE ~exec.seen /\ pauseKey BY <2>6, <3>2 DEF Gate
    <3>3. CASE ~exec.seen /\ ~pauseKey BY <2>6, <3>3 DEF Gate
    <3> QED BY <3>1, <3>2, <3>3
  <2>7. CASE EndDownload BY <2>7 DEF EndDownload
  <2>8. CASE DownloadRaises BY <2>8 DEF DownloadRaises
  <2>9. CASE Raised BY <2>9 DEF Raised, ReadsIntent, DurableIntent
  <2>10. CASE Verdict BY <2>10 DEF Verdict, ReadsIntent, DurableIntent
  <2>11. CASE Reread BY <2>11 DEF Reread, ReadsIntent, DurableIntent
  <2>12. CASE Abort BY <2>12 DEF Abort, Aborted
  <2>13. CASE Cleanup
    <3>1. CASE exec.out = "cancelled" BY <2>13, <3>1 DEF Cleanup, StrayWithout, Cleaned, NoGallery
    <3>2. CASE exec.out # "cancelled" BY <2>13, <3>2 DEF Cleanup, StrayWithout, Cleaned, NoGallery
    <3> QED BY <3>1, <3>2
  <2>14. CASE FlagCheck BY <2>14 DEF FlagCheck, ReadsIntent, DurableIntent
  <2>15. CASE DbCheck BY <2>15 DEF DbCheck, ReadsIntent, DurableIntent
  <2>16. CASE Finalize BY <2>16 DEF Finalize, Finalized
  <2>17. CASE SetStatus BY <2>17 DEF SetStatus, Results
  <2>18. CASE ClaimStopFinish
    <3>1. CASE status \in Active /\ stopAt BY <2>18, <3>1 DEF ClaimStopFinish
    <3>2. CASE ~(status \in Active /\ stopAt) /\ status = "cancelled"
      BY <2>18, <3>2, CancelledAtClaim
    <3>3. CASE ~(status \in Active /\ stopAt) /\ status # "cancelled"
      BY <2>18, <3>3 DEF ClaimStopFinish, Left
    <3> QED BY <3>1, <3>2, <3>3
  <2>19. CASE FinalizeKept BY <2>19 DEF FinalizeKept, StrayWithout, Kept, Finalized, NoGallery
  <2>20. CASE Release BY <2>20 DEF Release, NoExec
  <2> QED BY <1>2, <2>1, <2>2, <2>3, <2>4, <2>5, <2>6, <2>7, <2>8, <2>9, <2>10, <2>11,
      <2>12, <2>13, <2>14, <2>15, <2>16, <2>17, <2>18, <2>19, <2>20 DEF ExecStep
<1>3. CASE FileStep
  <2>1. CASE OnFile BY <2>1 DEF OnFile, Ensure, Ensured, Attach
  <2>2. CASE ImportPage BY <2>2, <1>b DEF Imports, Same, Grown, Pending
  <2> QED BY <1>3, <2>1, <2>2 DEF FileStep
<1>4. CASE ExecFault
  <2>1. CASE LoadFails BY <2>1 DEF LoadFails
  <2>2. CASE FinalizeFails BY <2>2 DEF FinalizeFails, Left, Finalized
  <2>3. CASE SetStatusFails BY <2>3 DEF SetStatusFails
  <2>4. CASE KeepFails BY <2>4 DEF KeepFails, Left
  <2>5. CASE FinalizeKeptFails BY <2>5 DEF FinalizeKeptFails, Left, Aborted, Settled
  <2>6. CASE TimeOut BY <2>6 DEF TimeOut, Left
  <2>7. CASE ReleaseFails BY <2>7 DEF ReleaseFails, NoExec
  <2> QED BY <1>4, <2>1, <2>2, <2>3, <2>4, <2>5, <2>6, <2>7 DEF ExecFault
<1>5. CASE UserStep
  <2>1. CASE RequestStop BY <2>1 DEF RequestStop
  <2>2. CASE SetStopFlag BY <2>2 DEF SetStopFlag
  <2>3. CASE StopFlagLost BY <2>3 DEF StopFlagLost
  <2>4. CASE CancelLock BY <2>4 DEF CancelLock
  <2>5. CASE CancelFlag BY <2>5 DEF CancelFlag
  <2>6. CASE CancelCommit BY <2>6 DEF CancelCommit
  <2>7. CASE CancelRollsBack BY <2>7 DEF CancelRollsBack
  <2>8. CASE PauseRead BY <2>8 DEF PauseRead, ReadRow
  <2>9. CASE ResumeRead BY <2>9 DEF ResumeRead, ReadRow
  <2>10. CASE CommitRow BY <2>10 DEF CommitRow, Written
  <2> QED BY <1>5, <2>1, <2>2, <2>3, <2>4, <2>5, <2>6, <2>7, <2>8, <2>9, <2>10 DEF
      UserStep
<1>6. CASE KeeperStep
  <2>1. CASE FinalizeStopped BY <2>1 DEF FinalizeStopped, Stopped
  <2>2. CASE KeepGallery BY <2>2, <1>b DEF Keeps, GrownBeside, Grown, Same
  <2>3. CASE KeepGalleryFails BY <2>3, <1>b DEF Keeps, GrownBeside, Grown, Same
  <2>4. CASE HandoffLost BY <2>4 DEF HandoffLost
  <2> QED BY <1>6, <2>1, <2>2, <2>3, <2>4 DEF KeeperStep
<1>7. CASE CronStep
  <2>1. CASE ReapRead BY <2>1 DEF ReapRead, ReadRow
  <2>2. CASE ReapStopped BY <2>2 DEF ReapStopped
  <2>3. CASE CronRetry BY <2>3 DEF CronRetry
  <2> QED BY <1>7, <2>1, <2>2, <2>3 DEF CronStep
<1>8. CASE LoseFlag BY <1>8 DEF LoseFlag
<1>9. CASE Crash BY <1>9 DEF Crash, NoExec, Phase
<1>10. CASE BootStep
  <2>1. CASE BootLoad BY <2>1 DEF BootLoad
  <2>2. CASE BootMiss BY <2>2 DEF BootMiss, Phase, After
  <2>3. CASE BootHandOver BY <2>3 DEF BootHandOver, Phase, After, BootGallery
  <2>4. CASE BootPolicy BY <2>4 DEF BootPolicy, Phase, After, BootGallery
  <2>5. CASE BootSettle BY <2>5 DEF BootSettle, Phase, Settled, Fault
  <2> QED BY <1>10, <2>1, <2>2, <2>3, <2>4, <2>5 DEF BootStep
<1>11. CASE UNCHANGED vars BY <1>11 DEF vars
<1>12. CASE StrayStep
  <2>1. CASE StrayImports BY <2>1, <1>b DEF Strays, GrownBeside, Grown, Same
  <2>2. CASE StrayEnsures BY <2>2 DEF StrayEnsures, Ensure
  <2> QED BY <1>12, <2>1, <2>2 DEF StrayStep
<1> QED BY <1>1, <1>2, <1>3, <1>4, <1>5, <1>6, <1>7, <1>8, <1>9, <1>10, <1>11, <1>12 DEF Next

\* Every step keeps what the status says about the pages.
LEMMA EndStep ==
  ASSUME LifecycleInv, IntentInv, TallyInv, EndInv, [Next]_vars
  PROVE  EndInv'
<1>b. /\ ImportPage => Imports
      /\ StrayImports => Strays
      /\ KeepGallery \/ KeepGalleryFails => Keeps
  BY ImportFields, StrayFields, KeeperFields
<1> USE OverFields DEF LifecycleInv, TypeOK, ExecState, Up, RowLocked, ImportInv, IntentInv, TallyInv, EndInv,
    Counting, Unsettled, OwnerInv, KeeperInv, VerdictInv, SnapshotInv, Active, Terminal,
    ReqState
<1>1. CASE Claim BY <1>1 DEF Claim, NoExec
<1>2. CASE ExecStep
  <2>1. CASE Confirm BY <2>1 DEF Confirm
  <2>2. CASE PreflightFails BY <2>2 DEF PreflightFails
  <2>3. CASE Load BY <2>3 DEF Load, Attach
  <2>4. CASE ResolveMetadata BY <2>4 DEF ResolveMetadata, Ensure, Ensured, Attach
  <2>5. CASE NoMetadata BY <2>5 DEF NoMetadata
  <2>6. CASE Gate
    <3>1. CASE exec.seen BY <2>6, <3>1 DEF Gate
    <3>2. CASE ~exec.seen /\ pauseKey BY <2>6, <3>2 DEF Gate
    <3>3. CASE ~exec.seen /\ ~pauseKey BY <2>6, <3>3 DEF Gate
    <3> QED BY <3>1, <3>2, <3>3
  <2>7. CASE EndDownload BY <2>7 DEF EndDownload
  <2>8. CASE DownloadRaises BY <2>8 DEF DownloadRaises
  <2>9. CASE Raised BY <2>9 DEF Raised, ReadsIntent, DurableIntent
  <2>10. CASE Verdict BY <2>10 DEF Verdict, ReadsIntent, DurableIntent
  <2>11. CASE Reread BY <2>11 DEF Reread, ReadsIntent, DurableIntent
  <2>12. CASE Abort BY <2>12 DEF Abort, Aborted
  <2>13. CASE Cleanup
    <3>1. CASE exec.out = "cancelled"
      <4>1. /\ exec.pc = "cleanup" /\ gallery' = Cleaned(exec) /\ Leave
            /\ stray' \subseteq stray /\ UNCHANGED <<status, stopAt, owned, faults>>
        BY <2>13, <3>1 DEF Cleanup, StrayWithout
      <4>2. exec.gid => gallery'.pages = exec.held
        BY <4>1 DEF Cleaned, NoGallery
      <4>3. exec'.pc = "release" /\ exec'.gid = exec.gid /\ exec'.held = exec.held
            /\ exec'.added = exec.added
        BY <4>1
      <4>4. status # "done" BY <4>1
      <4>5. stray' # {} => faults' > 0 BY <4>1
      <4> QED BY <4>1, <4>2, <4>3, <4>4, <4>5
    <3>2. CASE exec.out # "cancelled" BY <2>13, <3>2 DEF Cleanup, StrayWithout, Cleaned, NoGallery
    <3> QED BY <3>1, <3>2
  <2>14. CASE FlagCheck BY <2>14 DEF FlagCheck, ReadsIntent, DurableIntent
  <2>15. CASE DbCheck BY <2>15 DEF DbCheck, ReadsIntent, DurableIntent
  <2>16. CASE Finalize BY <2>16 DEF Finalize, Finalized
  <2>17. CASE SetStatus BY <2>17 DEF SetStatus, Results
  <2>18. CASE ClaimStopFinish
    <3>1. CASE status \in Active /\ stopAt BY <2>18, <3>1 DEF ClaimStopFinish
    <3>2. CASE ~(status \in Active /\ stopAt) /\ status = "cancelled"
      BY <2>18, <3>2, CancelledAtClaim
    <3>3. CASE ~(status \in Active /\ stopAt) /\ status # "cancelled"
      BY <2>18, <3>3 DEF ClaimStopFinish, Left
    <3> QED BY <3>1, <3>2, <3>3
  <2>19. CASE FinalizeKept BY <2>19 DEF FinalizeKept, StrayWithout, Kept, Finalized, NoGallery
  <2>20. CASE Release BY <2>20 DEF Release, NoExec
  <2> QED BY <1>2, <2>1, <2>2, <2>3, <2>4, <2>5, <2>6, <2>7, <2>8, <2>9, <2>10, <2>11,
      <2>12, <2>13, <2>14, <2>15, <2>16, <2>17, <2>18, <2>19, <2>20 DEF ExecStep
<1>3. CASE FileStep
  <2>1. CASE OnFile BY <2>1 DEF OnFile, Ensure, Ensured, Attach
  <2>2. CASE ImportPage BY <2>2, <1>b DEF Imports, Same, Grown, Pending
  <2> QED BY <1>3, <2>1, <2>2 DEF FileStep
<1>4. CASE ExecFault
  <2>1. CASE LoadFails BY <2>1 DEF LoadFails
  <2>2. CASE FinalizeFails BY <2>2 DEF FinalizeFails, Left, Finalized
  <2>3. CASE SetStatusFails BY <2>3 DEF SetStatusFails
  <2>4. CASE KeepFails BY <2>4 DEF KeepFails, Left
  <2>5. CASE FinalizeKeptFails BY <2>5 DEF FinalizeKeptFails, Left, Aborted, Settled
  <2>6. CASE TimeOut BY <2>6 DEF TimeOut, Left
  <2>7. CASE ReleaseFails BY <2>7 DEF ReleaseFails, NoExec
  <2> QED BY <1>4, <2>1, <2>2, <2>3, <2>4, <2>5, <2>6, <2>7 DEF ExecFault
<1>5. CASE UserStep
  <2>1. CASE RequestStop BY <2>1 DEF RequestStop
  <2>2. CASE SetStopFlag BY <2>2 DEF SetStopFlag
  <2>3. CASE StopFlagLost BY <2>3 DEF StopFlagLost
  <2>4. CASE CancelLock BY <2>4 DEF CancelLock
  <2>5. CASE CancelFlag BY <2>5 DEF CancelFlag
  <2>6. CASE CancelCommit BY <2>6 DEF CancelCommit
  <2>7. CASE CancelRollsBack BY <2>7 DEF CancelRollsBack
  <2>8. CASE PauseRead BY <2>8 DEF PauseRead, ReadRow
  <2>9. CASE ResumeRead BY <2>9 DEF ResumeRead, ReadRow
  <2>10. CASE CommitRow BY <2>10 DEF CommitRow, Written
  <2> QED BY <1>5, <2>1, <2>2, <2>3, <2>4, <2>5, <2>6, <2>7, <2>8, <2>9, <2>10 DEF
      UserStep
<1>6. CASE KeeperStep
  <2>1. CASE FinalizeStopped BY <2>1 DEF FinalizeStopped, Stopped
  <2>2. CASE KeepGallery BY <2>2, <1>b DEF Keeps, GrownBeside, Grown, Same
  <2>3. CASE KeepGalleryFails BY <2>3, <1>b DEF Keeps, GrownBeside, Grown, Same
  <2>4. CASE HandoffLost BY <2>4 DEF HandoffLost
  <2> QED BY <1>6, <2>1, <2>2, <2>3, <2>4 DEF KeeperStep
<1>7. CASE CronStep
  <2>1. CASE ReapRead BY <2>1 DEF ReapRead, ReadRow
  <2>2. CASE ReapStopped BY <2>2 DEF ReapStopped
  <2>3. CASE CronRetry BY <2>3 DEF CronRetry
  <2> QED BY <1>7, <2>1, <2>2, <2>3 DEF CronStep
<1>8. CASE LoseFlag BY <1>8 DEF LoseFlag
<1>9. CASE Crash BY <1>9 DEF Crash, NoExec, Phase
<1>10. CASE BootStep
  <2>1. CASE BootLoad BY <2>1 DEF BootLoad
  <2>2. CASE BootMiss BY <2>2 DEF BootMiss, Phase, After
  <2>3. CASE BootHandOver BY <2>3 DEF BootHandOver, Phase, After, BootGallery
  <2>4. CASE BootPolicy BY <2>4 DEF BootPolicy, Phase, After, BootGallery
  <2>5. CASE BootSettle BY <2>5 DEF BootSettle, Phase, Settled, Fault
  <2> QED BY <1>10, <2>1, <2>2, <2>3, <2>4, <2>5 DEF BootStep
<1>11. CASE UNCHANGED vars BY <1>11 DEF vars
<1>12. CASE StrayStep
  <2>1. CASE StrayImports BY <2>1, <1>b DEF Strays, GrownBeside, Grown, Same
  <2>2. CASE StrayEnsures BY <2>2 DEF StrayEnsures, Ensure
  <2> QED BY <1>12, <2>1, <2>2 DEF StrayStep
<1> QED BY <1>1, <1>2, <1>3, <1>4, <1>5, <1>6, <1>7, <1>8, <1>9, <1>10, <1>11, <1>12 DEF Next

\* Every step keeps an unsettled gallery in the hands of an execution.
LEMMA SettledStep ==
  ASSUME LifecycleInv, IntentInv, TallyInv, EndInv, SettledInv, [Next]_vars
  PROVE  SettledInv'
<1>b. /\ ImportPage => Imports
      /\ StrayImports => Strays
      /\ KeepGallery \/ KeepGalleryFails => Keeps
  BY ImportFields, StrayFields, KeeperFields
<1> USE OverFields DEF LifecycleInv, TypeOK, ExecState, Up, RowLocked, IntentInv, TallyInv, EndInv,
    SettledInv, ImportInv, Counting, Unsettled, OwnerInv, Active, Terminal
<1>1. CASE Claim BY <1>1 DEF Claim, NoExec
<1>2. CASE ExecStep
  <2>1. CASE Confirm BY <2>1 DEF Confirm
  <2>2. CASE PreflightFails BY <2>2 DEF PreflightFails
  <2>3. CASE Load BY <2>3 DEF Load, Attach
  <2>4. CASE ResolveMetadata BY <2>4 DEF ResolveMetadata, Ensure, Ensured, Attach
  <2>5. CASE NoMetadata BY <2>5 DEF NoMetadata
  <2>6. CASE Gate
    <3>1. CASE exec.seen BY <2>6, <3>1 DEF Gate
    <3>2. CASE ~exec.seen /\ pauseKey BY <2>6, <3>2 DEF Gate
    <3>3. CASE ~exec.seen /\ ~pauseKey BY <2>6, <3>3 DEF Gate
    <3> QED BY <3>1, <3>2, <3>3
  <2>7. CASE EndDownload BY <2>7 DEF EndDownload
  <2>8. CASE DownloadRaises BY <2>8 DEF DownloadRaises
  <2>9. CASE Raised BY <2>9 DEF Raised, ReadsIntent, DurableIntent
  <2>10. CASE Verdict BY <2>10 DEF Verdict, ReadsIntent, DurableIntent
  <2>11. CASE Reread BY <2>11 DEF Reread, ReadsIntent, DurableIntent
  <2>12. CASE Abort BY <2>12 DEF Abort, Aborted
  <2>13. CASE Cleanup
    <3>1. CASE exec.out = "cancelled" BY <2>13, <3>1 DEF Cleanup, StrayWithout, Cleaned, NoGallery
    <3>2. CASE exec.out # "cancelled" BY <2>13, <3>2 DEF Cleanup, StrayWithout, Cleaned, NoGallery
    <3> QED BY <3>1, <3>2
  <2>14. CASE FlagCheck BY <2>14 DEF FlagCheck, ReadsIntent, DurableIntent
  <2>15. CASE DbCheck BY <2>15 DEF DbCheck, ReadsIntent, DurableIntent
  <2>16. CASE Finalize
    <3>1. PICK bad, touched \in BOOLEAN :
            /\ Touches(touched)
            /\ gallery' = IF touched /\ gallery.st # "none"
                          THEN Finalized(gallery, exec.got, exec.res # "done", bad)
                          ELSE gallery
      BY <2>16 DEF Finalize
    <3>2. CASE touched /\ gallery.st # "none"
      <4>1. gallery'.st # "downloading" BY <3>1, <3>2 DEF Finalized
      <4>2. exec'.snap = "none" BY <2>16 DEF Finalize
      <4> QED BY <2>16, <4>1, <4>2 DEF Finalize
    <3>3. CASE ~(touched /\ gallery.st # "none")
      <4>1. gallery' = gallery /\ (~exec.filed \/ gallery.st = "none") BY <3>1, <3>3 DEF Touches
      <4>2. exec'.snap = "none" BY <2>16 DEF Finalize
      <4> QED BY <2>16, <3>1, <3>3, <4>1, <4>2 DEF Finalize
    <3> QED BY <3>2, <3>3
  <2>17. CASE SetStatus BY <2>17 DEF SetStatus, Results
  <2>18. CASE ClaimStopFinish
    <3>1. CASE status \in Active /\ stopAt BY <2>18, <3>1 DEF ClaimStopFinish
    <3>2. CASE ~(status \in Active /\ stopAt) /\ status = "cancelled"
      BY <2>18, <3>2, CancelledAtClaim
    <3>3. CASE ~(status \in Active /\ stopAt) /\ status # "cancelled"
      BY <2>18, <3>3 DEF ClaimStopFinish, Left
    <3> QED BY <3>1, <3>2, <3>3
  <2>19. CASE FinalizeKept BY <2>19 DEF FinalizeKept, StrayWithout, Kept, Finalized, NoGallery
  <2>20. CASE Release BY <2>20 DEF Release, NoExec
  <2> QED BY <1>2, <2>1, <2>2, <2>3, <2>4, <2>5, <2>6, <2>7, <2>8, <2>9, <2>10, <2>11,
      <2>12, <2>13, <2>14, <2>15, <2>16, <2>17, <2>18, <2>19, <2>20 DEF ExecStep
<1>3. CASE FileStep
  <2>1. CASE OnFile BY <2>1 DEF OnFile, Ensure, Ensured, Attach
  <2>2. CASE ImportPage BY <2>2, <1>b DEF Imports, Same, Grown, Pending
  <2> QED BY <1>3, <2>1, <2>2 DEF FileStep
<1>4. CASE ExecFault
  <2>1. CASE LoadFails BY <2>1 DEF LoadFails
  <2>2. CASE FinalizeFails BY <2>2 DEF FinalizeFails, Left, Finalized
  <2>3. CASE SetStatusFails BY <2>3 DEF SetStatusFails
  <2>4. CASE KeepFails BY <2>4 DEF KeepFails, Left
  <2>5. CASE FinalizeKeptFails BY <2>5 DEF FinalizeKeptFails, Left, Aborted, Settled
  <2>6. CASE TimeOut BY <2>6 DEF TimeOut, Left
  <2>7. CASE ReleaseFails BY <2>7 DEF ReleaseFails, NoExec
  <2> QED BY <1>4, <2>1, <2>2, <2>3, <2>4, <2>5, <2>6, <2>7 DEF ExecFault
<1>5. CASE UserStep
  <2>1. CASE RequestStop BY <2>1 DEF RequestStop
  <2>2. CASE SetStopFlag BY <2>2 DEF SetStopFlag
  <2>3. CASE StopFlagLost BY <2>3 DEF StopFlagLost
  <2>4. CASE CancelLock BY <2>4 DEF CancelLock
  <2>5. CASE CancelFlag BY <2>5 DEF CancelFlag
  <2>6. CASE CancelCommit BY <2>6 DEF CancelCommit
  <2>7. CASE CancelRollsBack BY <2>7 DEF CancelRollsBack
  <2>8. CASE PauseRead BY <2>8 DEF PauseRead, ReadRow
  <2>9. CASE ResumeRead BY <2>9 DEF ResumeRead, ReadRow
  <2>10. CASE CommitRow BY <2>10 DEF CommitRow, Written
  <2> QED BY <1>5, <2>1, <2>2, <2>3, <2>4, <2>5, <2>6, <2>7, <2>8, <2>9, <2>10 DEF
      UserStep
<1>6. CASE KeeperStep
  <2>1. CASE FinalizeStopped BY <2>1 DEF FinalizeStopped, Stopped
  <2>2. CASE KeepGallery BY <2>2, <1>b DEF Keeps, GrownBeside, Grown, Same
  <2>3. CASE KeepGalleryFails BY <2>3, <1>b DEF Keeps, GrownBeside, Grown, Same
  <2>4. CASE HandoffLost BY <2>4 DEF HandoffLost
  <2> QED BY <1>6, <2>1, <2>2, <2>3, <2>4 DEF KeeperStep
<1>7. CASE CronStep
  <2>1. CASE ReapRead BY <2>1 DEF ReapRead, ReadRow
  <2>2. CASE ReapStopped BY <2>2 DEF ReapStopped
  <2>3. CASE CronRetry BY <2>3 DEF CronRetry
  <2> QED BY <1>7, <2>1, <2>2, <2>3 DEF CronStep
<1>8. CASE LoseFlag BY <1>8 DEF LoseFlag
<1>9. CASE Crash BY <1>9 DEF Crash, NoExec, Phase
<1>10. CASE BootStep
  <2>1. CASE BootLoad BY <2>1 DEF BootLoad
  <2>2. CASE BootMiss BY <2>2 DEF BootMiss, Phase, After
  <2>3. CASE BootHandOver BY <2>3 DEF BootHandOver, Phase, After, BootGallery
  <2>4. CASE BootPolicy BY <2>4 DEF BootPolicy, Phase, After, BootGallery
  <2>5. CASE BootSettle BY <2>5 DEF BootSettle, Phase, Settled, Fault
  <2> QED BY <1>10, <2>1, <2>2, <2>3, <2>4, <2>5 DEF BootStep
<1>11. CASE UNCHANGED vars BY <1>11 DEF vars
<1>12. CASE StrayStep
  <2>1. CASE StrayImports BY <2>1, <1>b DEF Strays, GrownBeside, Grown, Same
  <2>2. CASE StrayEnsures BY <2>2 DEF StrayEnsures, Ensure
  <2> QED BY <1>12, <2>1, <2>2 DEF StrayStep
<1> QED BY <1>1, <1>2, <1>3, <1>4, <1>5, <1>6, <1>7, <1>8, <1>9, <1>10, <1>11, <1>12 DEF Next

-----------------------------------------------------------------------------
(* The theorems. *)

\* The initial states satisfy the invariant.
LEMMA InitOutcome == Init => OutcomeInv
<1> SUFFICES ASSUME Init PROVE OutcomeInv
  OBVIOUS
<1>1. LifecycleInv BY InitLifecycle
<1>2. IntentInv /\ DiscardInv
  BY DEF Init, IntentInv, DiscardInv, RowLocked, NoExec, NoGallery
<1>3. TallyInv
  BY DEF Init, TallyInv, Counting, Unsettled, NoExec, NoGallery
<1>4. EndInv
  BY DEF Init, EndInv, Counting, Unsettled, NoExec
<1>5. SettledInv
  BY DEF Init, SettledInv, Counting, Unsettled, NoExec, NoGallery
<1> QED BY <1>1, <1>2, <1>3, <1>4, <1>5 DEF OutcomeInv

\* Every step preserves it.
LEMMA OutcomeStep == OutcomeInv /\ [Next]_vars => OutcomeInv'
<1> SUFFICES ASSUME OutcomeInv, [Next]_vars PROVE OutcomeInv'
  OBVIOUS
<1>1. LifecycleInv /\ IntentInv /\ DiscardInv /\ TallyInv /\ EndInv /\ SettledInv
  BY DEF OutcomeInv
<1>2. LifecycleInv' BY <1>1, LifecycleStep
<1>3. IntentInv' /\ DiscardInv' BY <1>1, IntentStep, DiscardStep
<1>4. TallyInv' /\ EndInv' BY <1>1, TallyStep, EndStep
<1>5. SettledInv' BY <1>1, SettledStep
<1> QED BY <1>2, <1>3, <1>4, <1>5, Zenon DEF OutcomeInv

\* What stands behind a flag, a discarded run, the pages that were counted, the
\* status of a job that ended and an unsettled gallery, in every reachable state.
THEOREM OutcomeCorrect == Spec => []OutcomeInv
BY InitOutcome, OutcomeStep, PTL DEF Spec

\* With honest plugins and at most two faults, no failure, stop, retry or restart takes
\* a page that the gallery held before the job, and a cancel takes none without leaving
\* its row marked replaced (worker/progressive.py:807-886, 1426-1463).
THEOREM HistoryIsKept ==
  ASSUME ~Spurious, MaxFaults <= 2 PROVE Spec => []HistoryKept
<1>1. OutcomeInv => HistoryKept
  BY DEF OutcomeInv, LifecycleInv, RowsKept, DiscardInv, HistoryKept
<1> QED BY OutcomeCorrect, <1>1, PTL

\* Where nobody pauses, finalize_stopped_job never works on the gallery together with
\* an execution, nor with an importer that was left behind unless a fault left one.
THEOREM KeeperIsAlone == ASSUME ~Pausing PROVE Spec => []OneKeeper
<1>1. OutcomeInv => OneKeeper
  BY DEF OutcomeInv, LifecycleInv, OwnerInv, KeeperInv, EndInv, OneKeeper, Working, TypeOK,
         ExecState
<1> QED BY OutcomeCorrect, <1>1, PTL

\* Unless an operation failed, a job never ends cancelled with a kept gallery nor
\* done with a discarded one, however stop and cancel race (worker/download.py:482-484).
THEOREM CancelExcludesKeep == ASSUME ~Pausing PROVE Spec => []CancelXorKeep
<1>1. OutcomeInv => CancelXorKeep
  BY DEF OutcomeInv, EndInv, CancelXorKeep
<1> QED BY OutcomeCorrect, <1>1, PTL

\* Where no plugin resolves metadata early and no operation failed, a job that is over
\* leaves a settled gallery, also with pauses and stale requests.
THEOREM GalleryIsSettled == ASSUME ~EarlyMetadata PROVE Spec => []GallerySettled
<1>1. OutcomeInv => GallerySettled
  BY DEF OutcomeInv, SettledInv, GallerySettled, Counting, Unsettled
<1> QED BY OutcomeCorrect, <1>1, PTL

\* A step that takes pages from the gallery is the cleanup of a run that the user
\* asked to cancel.
LEMMA PagesStep ==
  ASSUME ~Spurious, MaxFaults <= 2, Held > 0 \/ (MaxFaults = 0 /\ ~Pausing),
         OutcomeInv, [Next]_vars
  PROVE  gallery'.pages < gallery.pages => asked
<1>b. /\ ImportPage => Imports
      /\ StrayImports => Strays
      /\ KeepGallery \/ KeepGalleryFails => Keeps
  BY ImportFields, StrayFields, KeeperFields DEF OutcomeInv
<1> USE OverFields DEF LifecycleInv, TypeOK, ExecState, OutcomeInv, DiscardInv, TallyInv,
    ImportInv, SnapshotInv, EndInv, Counting, Unsettled
<1>1. CASE Claim BY <1>1 DEF Claim, NoExec
<1>2. CASE ExecStep
  <2>1. CASE Confirm BY <2>1 DEF Confirm
  <2>2. CASE PreflightFails BY <2>2 DEF PreflightFails
  <2>3. CASE Load BY <2>3 DEF Load, Attach
  <2>4. CASE ResolveMetadata BY <2>4 DEF ResolveMetadata, Ensure, Ensured, Attach
  <2>5. CASE NoMetadata BY <2>5 DEF NoMetadata
  <2>6. CASE Gate
    <3>1. CASE exec.seen BY <2>6, <3>1 DEF Gate
    <3>2. CASE ~exec.seen /\ pauseKey BY <2>6, <3>2 DEF Gate
    <3>3. CASE ~exec.seen /\ ~pauseKey BY <2>6, <3>3 DEF Gate
    <3> QED BY <3>1, <3>2, <3>3
  <2>7. CASE EndDownload BY <2>7 DEF EndDownload
  <2>8. CASE DownloadRaises BY <2>8 DEF DownloadRaises
  <2>9. CASE Raised BY <2>9 DEF Raised, ReadsIntent, DurableIntent
  <2>10. CASE Verdict BY <2>10 DEF Verdict, ReadsIntent, DurableIntent
  <2>11. CASE Reread BY <2>11 DEF Reread, ReadsIntent, DurableIntent
  <2>12. CASE Abort BY <2>12 DEF Abort, Aborted
  <2>13. CASE Cleanup
    <3>1. CASE exec.out = "cancelled" BY <2>13, <3>1 DEF Cleanup, StrayWithout, Cleaned, NoGallery
    <3>2. CASE exec.out # "cancelled" BY <2>13, <3>2 DEF Cleanup, StrayWithout, Cleaned, NoGallery
    <3> QED BY <3>1, <3>2
  <2>14. CASE FlagCheck BY <2>14 DEF FlagCheck, ReadsIntent, DurableIntent
  <2>15. CASE DbCheck BY <2>15 DEF DbCheck, ReadsIntent, DurableIntent
  <2>16. CASE Finalize BY <2>16 DEF Finalize, Finalized
  <2>17. CASE SetStatus BY <2>17 DEF SetStatus, Results
  <2>18. CASE ClaimStopFinish
    <3>1. CASE status \in Active /\ stopAt BY <2>18, <3>1 DEF ClaimStopFinish
    <3>2. CASE ~(status \in Active /\ stopAt) /\ status = "cancelled"
      BY <2>18, <3>2, CancelledAtClaim
    <3>3. CASE ~(status \in Active /\ stopAt) /\ status # "cancelled"
      BY <2>18, <3>3 DEF ClaimStopFinish, Left
    <3> QED BY <3>1, <3>2, <3>3
  <2>19. CASE FinalizeKept BY <2>19 DEF FinalizeKept, StrayWithout, Kept, Finalized, NoGallery
  <2>20. CASE Release BY <2>20 DEF Release, NoExec
  <2> QED BY <1>2, <2>1, <2>2, <2>3, <2>4, <2>5, <2>6, <2>7, <2>8, <2>9, <2>10, <2>11,
      <2>12, <2>13, <2>14, <2>15, <2>16, <2>17, <2>18, <2>19, <2>20 DEF ExecStep
<1>3. CASE FileStep
  <2>1. CASE OnFile
    <3>1. gallery' = gallery \/ gallery' = [gallery EXCEPT !.st = "downloading"]
      BY <2>1 DEF OnFile, Ensure
    <3> QED BY <3>1
  <2>2. CASE ImportPage BY <2>2, <1>b DEF Imports, Same, Grown, Pending
  <2> QED BY <1>3, <2>1, <2>2 DEF FileStep
<1>4. CASE ExecFault
  <2>1. CASE LoadFails BY <2>1 DEF LoadFails
  <2>2. CASE FinalizeFails BY <2>2 DEF FinalizeFails, Left, Finalized
  <2>3. CASE SetStatusFails BY <2>3 DEF SetStatusFails
  <2>4. CASE KeepFails BY <2>4 DEF KeepFails, Left
  <2>5. CASE FinalizeKeptFails BY <2>5 DEF FinalizeKeptFails, Left, Aborted, Settled
  <2>6. CASE TimeOut BY <2>6 DEF TimeOut, Left
  <2>7. CASE ReleaseFails BY <2>7 DEF ReleaseFails, NoExec
  <2> QED BY <1>4, <2>1, <2>2, <2>3, <2>4, <2>5, <2>6, <2>7 DEF ExecFault
<1>5. CASE UserStep
  <2>1. CASE RequestStop BY <2>1 DEF RequestStop
  <2>2. CASE SetStopFlag BY <2>2 DEF SetStopFlag
  <2>3. CASE StopFlagLost BY <2>3 DEF StopFlagLost
  <2>4. CASE CancelLock BY <2>4 DEF CancelLock
  <2>5. CASE CancelFlag BY <2>5 DEF CancelFlag
  <2>6. CASE CancelCommit BY <2>6 DEF CancelCommit
  <2>7. CASE CancelRollsBack BY <2>7 DEF CancelRollsBack
  <2>8. CASE PauseRead BY <2>8 DEF PauseRead, ReadRow
  <2>9. CASE ResumeRead BY <2>9 DEF ResumeRead, ReadRow
  <2>10. CASE CommitRow BY <2>10 DEF CommitRow, Written
  <2> QED BY <1>5, <2>1, <2>2, <2>3, <2>4, <2>5, <2>6, <2>7, <2>8, <2>9, <2>10 DEF
      UserStep
<1>6. CASE KeeperStep
  <2>1. CASE FinalizeStopped BY <2>1 DEF FinalizeStopped, Stopped
  <2>2. CASE KeepGallery BY <2>2, <1>b DEF Keeps, GrownBeside, Grown, Same
  <2>3. CASE KeepGalleryFails BY <2>3, <1>b DEF Keeps, GrownBeside, Grown, Same
  <2>4. CASE HandoffLost BY <2>4 DEF HandoffLost
  <2> QED BY <1>6, <2>1, <2>2, <2>3, <2>4 DEF KeeperStep
<1>7. CASE CronStep
  <2>1. CASE ReapRead BY <2>1 DEF ReapRead, ReadRow
  <2>2. CASE ReapStopped BY <2>2 DEF ReapStopped
  <2>3. CASE CronRetry BY <2>3 DEF CronRetry
  <2> QED BY <1>7, <2>1, <2>2, <2>3 DEF CronStep
<1>8. CASE LoseFlag BY <1>8 DEF LoseFlag
<1>9. CASE Crash BY <1>9 DEF Crash, NoExec, Phase
<1>10. CASE BootStep
  <2>1. CASE BootLoad BY <2>1 DEF BootLoad
  <2>2. CASE BootMiss BY <2>2 DEF BootMiss, Phase, After
  <2>3. CASE BootHandOver BY <2>3 DEF BootHandOver, Phase, After, BootGallery
  <2>4. CASE BootPolicy BY <2>4 DEF BootPolicy, Phase, After, BootGallery
  <2>5. CASE BootSettle BY <2>5 DEF BootSettle, Phase, Settled, Fault
  <2> QED BY <1>10, <2>1, <2>2, <2>3, <2>4, <2>5 DEF BootStep
<1>11. CASE UNCHANGED vars BY <1>11 DEF vars
<1>12. CASE StrayStep
  <2>1. CASE StrayImports BY <2>1, <1>b DEF Strays, GrownBeside, Grown, Same
  <2>2. CASE StrayEnsures BY <2>2 DEF StrayEnsures, Ensure
  <2> QED BY <1>12, <2>1, <2>2 DEF StrayStep
<1> QED BY <1>1, <1>2, <1>3, <1>4, <1>5, <1>6, <1>7, <1>8, <1>9, <1>10, <1>11, <1>12 DEF Next

\* With honest plugins and at most two faults, pages are thrown away only after the user
\* asked to cancel: no stop, failure, retry, restart or lost flag discards what was
\* imported (worker/download.py:482-560, worker/progressive.py:1311-1350).  A gallery
\* that the job itself creates needs the absence of faults and pauses: else the keep path
\* of a later attempt may take it, with what a stray importer just added, for a shell.
THEOREM OnlyCancelDiscards ==
  ASSUME ~Spurious, MaxFaults <= 2, Held > 0 \/ (MaxFaults = 0 /\ ~Pausing)
  PROVE  Spec => DiscardsOnlyCancelled
<1>1. OutcomeInv /\ [Next]_vars => (gallery'.pages < gallery.pages => asked)
  BY PagesStep
<1>2. OutcomeInv /\ [Next]_vars => [gallery'.pages < gallery.pages => asked]_vars
  BY <1>1
<1> QED BY OutcomeCorrect, <1>2, PTL DEF Spec, DiscardsOnlyCancelled
=============================================================================
