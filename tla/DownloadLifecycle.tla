------------------------- MODULE DownloadLifecycle -------------------------
(***************************************************************************)
(* The verdict of one download job and the fate of its gallery.            *)
(*                                                                         *)
(* An admitted execution (worker/download.py, _run_download_job) attaches  *)
(* or creates a gallery, imports pages into it, and then decides how the   *)
(* job ends: done, partial, failed, cancelled (what the run added is       *)
(* thrown away) or stopped (it is kept).  The user cancels, stops, pauses  *)
(* and resumes meanwhile; a job that is stopped with nobody executing it   *)
(* is finished by finalize_stopped_job (worker/download_stop.py); the cron *)
(* and startup recovery pick up what died.                                 *)
(*                                                                         *)
(* A step is one database transaction, one Redis command or one plugin     *)
(* call.  Capacity, order and transport are DownloadAdmission's: here a    *)
(* queued row without a token is eventually claimed.                       *)
(***************************************************************************)
EXTENDS Integers

CONSTANTS
  Mode,           \* download, subscription_initial, subscription_incremental, repair
  Held,           \* active pages of the gallery before the job, 0 for no gallery
  EarlyMetadata,  \* TRUE for the plugins whose resolve_metadata creates the gallery
  Spurious,       \* TRUE for the plugins that may report "cancelled" on their own
  Pausing,        \* TRUE when the user pauses and resumes
  MaxPages,       \* bound: pages of the gallery
  MaxRetries,     \* max_retries
  MaxFaults       \* bound: failed or lost operations, timeouts and crashes

Modes == {"download", "subscription_initial", "subscription_incremental", "repair"}

ASSUME ModeAssumption == Mode \in Modes
ASSUME FlagAssumption ==
  EarlyMetadata \in BOOLEAN /\ Spurious \in BOOLEAN /\ Pausing \in BOOLEAN
ASSUME PagesAssumption ==
  /\ Held \in Nat /\ MaxPages \in Nat /\ Held <= MaxPages
  /\ MaxRetries \in Nat /\ MaxFaults \in Nat

VARIABLES
  status,    \* download_jobs.status
  stopAt,    \* stop_requested_at is set
  owned,     \* admission_token is set
  linked,    \* gallery_id is set
  retries,   \* retry_count
  flag,      \* Redis download:cancel:{id}: none, "1" (cancel) or "stop"
  pauseKey,  \* Redis download:pause:{id}
  gallery,   \* download_status, active pages, pages marked replaced; "none": no row
  exec,      \* the execution that holds the token
  stray,     \* importers that nobody waits for: with a gallery, or before their first file
  keeper,    \* finalize_stopped_job: idle, or keeping the gallery of the row it claimed
  handoff,   \* a delivery of finalize_stopped_job is scheduled
  canceller, \* cancel_job: none, row locked, flag set and not yet committed
  asked,     \* the user asked to cancel
  stopper,   \* request_stop has committed and not yet set the flag
  req,       \* an ORM handler and the snapshot it read
  boot,      \* startup recovery: its phase and what it read
  faults     \* faults so far

vars == <<status, stopAt, owned, linked, retries, flag, pauseKey, gallery, exec, stray,
          keeper, handoff, canceller, asked, stopper, req, boot, faults>>

row     == <<status, stopAt, owned, linked, retries>>
redis   == <<flag, pauseKey>>
users   == <<canceller, asked, stopper, req>>
workers == <<stray, keeper, handoff, boot>>

Active        == {"queued", "running", "paused"}
Terminal      == {"done", "failed", "partial", "cancelled"}
GalleryStatus == {"none", "downloading", "complete", "partial", "failed", "proxy_only"}
Results       == {"done", "partial", "failed", "cancelled"}

Steps == {"idle", "confirm", "load", "metadata", "gate", "run", "raised", "verdict", "reread",
          "abort", "cleanup", "flagcheck", "dbcheck", "finalize", "set", "keep", "kept", "release"}

ExecState == [pc : Steps, seen : BOOLEAN, gid : BOOLEAN, filed : BOOLEAN, pre : BOOLEAN,
              base : 0..MaxPages, held : 0..MaxPages, added : 0..MaxPages, snap : GalleryStatus,
              got : BOOLEAN, res : Results \cup {"none"}, out : Results \cup {"none", "paused"}]
NoExec == [pc |-> "idle", seen |-> FALSE, gid |-> FALSE, filed |-> FALSE, pre |-> FALSE,
           base |-> 0, held |-> 0, added |-> 0, snap |-> "none", got |-> FALSE,
           res |-> "none", out |-> "none"]

ReqState == [op : {"none", "pause", "resume", "reap"}, status : Active, owned : BOOLEAN]
NoReq == [op |-> "none", status |-> "queued", owned |-> FALSE]

BootState == [phase : {"up", "running", "queued", "paused", "settle"}, loaded : BOOLEAN,
              hit : BOOLEAN, stop : BOOLEAN]

TypeOK ==
  /\ status \in Active \cup Terminal
  /\ stopAt \in BOOLEAN /\ owned \in BOOLEAN /\ linked \in BOOLEAN /\ pauseKey \in BOOLEAN
  /\ handoff \in BOOLEAN /\ asked \in BOOLEAN /\ stopper \in BOOLEAN
  /\ retries \in 0..(MaxRetries + 2 * MaxFaults)
  /\ flag \in {"none", "cancel", "stop"}
  /\ gallery \in [st : GalleryStatus, pages : 0..MaxPages, replaced : 0..MaxPages]
  /\ exec \in ExecState
  /\ stray \subseteq {"gallery", "file"}
  /\ keeper \in {"idle", "keep", "drop"}
  /\ canceller \in {"none", "locked", "flagged"}
  /\ req \in ReqState
  /\ boot \in BootState
  /\ faults \in 0..MaxFaults

-----------------------------------------------------------------------------
(* The modes, the intent and the gallery. *)

Repair == Mode = "repair"
KeptPartial == Mode \in {"download", "repair"}   \* gallery_status_on_stop

Up == boot.phase = "up"
RowLocked == canceller # "none"
Fault == faults < MaxFaults /\ faults' = faults + 1

\* read_stop_intent: cancel outranks stop.
DurableIntent == IF status = "cancelled" THEN "cancel" ELSE IF stopAt THEN "stop" ELSE "none"

\* A lookup that keeps failing falls back to the flag.
IntentLost(i) == (i = DurableIntent /\ UNCHANGED faults) \/ (i = "none" /\ Fault)
ReadsIntent(i) == (i = DurableIntent /\ UNCHANGED faults) \/ (i = flag /\ Fault)

At(step) == exec.pc = step
Go(step) == exec' = [exec EXCEPT !.pc = step]

\* With its verdict an execution is done with everything but the account of its pages.
Over(step, out) == [NoExec EXCEPT !.pc = step, !.out = out, !.gid = exec.gid, !.pre = exec.pre,
                                  !.held = exec.held, !.added = exec.added]
GoSet(out) == exec' = Over("set", out)
Leave == exec' = Over("release", "none")

NoGallery == [st |-> "none", pages |-> 0, replaced |-> 0]

\* An importer on a gallery that it did not create keeps a snapshot of it: its status
\* and how many pages it found.  `held` counts those of them that are still active.
Attach(e) == [e EXCEPT !.gid = TRUE, !.pre = TRUE, !.base = gallery.pages,
                       !.held = gallery.pages, !.snap = gallery.st]

\* ensure_gallery*: upsert to "downloading", snapshot what was there, link the job.
AttachUnsnapped(e) == [e EXCEPT !.gid = TRUE]
Ensured(e) == IF e.gid THEN e
              ELSE IF gallery.st = "none" THEN [e EXCEPT !.gid = TRUE]
              ELSE Attach(e)

\* Files become pages: `new` of them add one, `changed` of them are another version of a
\* page that was found there, whose row stays and is marked replaced.
HasRoom(new, changed) == gallery.pages + gallery.replaced + new + changed <= MaxPages
Imported(new, changed) == [gallery EXCEPT !.pages = @ + new, !.replaced = @ + changed]

\* abort: keep the pages, settle the status.
Aborted(e, g) ==
  IF ~e.gid \/ g.st = "none" THEN g
  ELSE IF e.pre /\ g.pages = e.base THEN [g EXCEPT !.st = e.snap]
  ELSE [g EXCEPT !.st = IF g.pages > 0 THEN "partial" ELSE "failed"]

\* cleanup: throw away what the run added, or the gallery it created.  A page that was
\* replaced meanwhile stays marked replaced.
Cleaned(e) ==
  IF ~e.gid \/ gallery.st = "none" THEN gallery
  ELSE IF e.pre THEN [gallery EXCEPT !.st = e.snap, !.pages = e.held]
  ELSE NoGallery

\* finalize: the status follows the outcome of the imports.
Finalized(g, got, partial, bad) ==
  [g EXCEPT !.st = IF bad /\ ~got THEN "failed" ELSE IF partial \/ bad THEN "partial" ELSE "complete"]

\* finalize_kept: nothing new never makes a shell nor demotes a complete gallery.
Kept(e, g, got, bad) ==
  IF ~got /\ ~bad /\ ~e.pre THEN NoGallery
  ELSE Finalized(g, got, KeptPartial /\ ~(~got /\ ~bad /\ e.snap = "complete"), bad)

\* Import tasks run beside the coroutine from the first file until they are drained or
\* cancelled; gallery-dl's reader hands over files as long as the process lives.
Pending == {"run", "raised", "verdict", "reread", "flagcheck", "dbcheck", "keep", "finalize",
            "abort", "cleanup", "kept"}
Left(e) == IF e.pc = "run" /\ ~EarlyMetadata THEN {IF e.gid THEN "gallery" ELSE "file"}
           ELSE IF e.pc \in Pending /\ e.filed THEN {"gallery"}
           ELSE {}

\* A task cannot import into a gallery that was deleted.
StrayWithout(g) == IF g.st = "none" THEN stray \ {"gallery"} ELSE stray

\* settle_stale_downloading_galleries: unless an active job owns the gallery.
Settled ==
  IF gallery.st # "downloading" \/ (linked /\ status \in Active) THEN gallery
  ELSE [gallery EXCEPT !.st = IF gallery.pages > 0 THEN "partial" ELSE "proxy_only"]

-----------------------------------------------------------------------------
Init ==
  /\ status = "queued" /\ stopAt = FALSE /\ owned = FALSE /\ retries = 0
  /\ gallery \in IF Held = 0 THEN {NoGallery}
                 ELSE [st : {"complete", "partial"}, pages : {Held}, replaced : {0}]
  /\ linked = (Repair /\ Held > 0)
  /\ flag = "none" /\ pauseKey = FALSE
  /\ exec = NoExec
  /\ stray = {} /\ keeper = "idle" /\ handoff = FALSE
  /\ canceller = "none" /\ asked = FALSE /\ stopper = FALSE
  /\ req = NoReq
  /\ boot = [phase |-> "up", loaded |-> FALSE, hit |-> FALSE, stop |-> FALSE]
  /\ faults = 0

-----------------------------------------------------------------------------
(* The execution. *)

\* DownloadAdmission: the claim commits the token and "running".
Claim ==
  /\ Up /\ At("idle") /\ status = "queued" /\ ~owned /\ ~RowLocked
  /\ status' = "running" /\ owned' = TRUE
  /\ exec' = [NoExec EXCEPT !.pc = "confirm"]
  /\ UNCHANGED <<stopAt, linked, retries, redis, gallery, workers, users, faults>>

Confirm ==
  /\ At("confirm")
  /\ IF status = "running" THEN Go("load") ELSE Leave
  /\ UNCHANGED <<row, redis, gallery, workers, users, faults>>

\* Missing credentials, no persona or no disk space: before the row is read.
PreflightFails ==
  /\ At("load") /\ GoSet("failed")
  /\ UNCHANGED <<row, redis, gallery, workers, users, faults>>

\* Read the row once: its stop, and the gallery of an earlier attempt.
Load ==
  /\ At("load")
  /\ LET e == [exec EXCEPT !.pc = "metadata", !.seen = stopAt]
     IN exec' = IF linked /\ gallery.st # "none" THEN Attach(e) ELSE e
  /\ UNCHANGED <<row, redis, gallery, workers, users, faults>>

LoadFails ==
  /\ At("load") /\ Fault
  /\ Go("metadata")
  /\ UNCHANGED <<row, redis, gallery, workers, users>>

\* The upsert of ensure_gallery*, common to metadata and to the first file.
Ensure ==
  /\ linked \/ ~RowLocked
  /\ gallery' = [gallery EXCEPT !.st = "downloading"]
  /\ linked' = TRUE
  /\ UNCHANGED <<status, stopAt, owned, retries, redis, keeper, handoff, boot, users, faults>>

ResolveMetadata ==
  /\ At("metadata") /\ EarlyMetadata /\ ~exec.seen
  /\ Ensure
  /\ exec' = [Ensured(exec) EXCEPT !.pc = "gate"]
  /\ UNCHANGED stray

NoMetadata ==
  /\ At("metadata") /\ Go("gate")
  /\ UNCHANGED <<row, redis, gallery, workers, users, faults>>

\* A stop that was seen goes to the keep path, ahead of the pause gate.
Gate ==
  /\ At("gate")
  /\ IF exec.seen THEN Go("keep")
     ELSE IF pauseKey THEN GoSet("paused")
     ELSE Go("run")
  /\ UNCHANGED <<row, redis, gallery, workers, users, faults>>

\* on_file, called by the plugin while it runs and for staged leftovers.
Importing == At("run") \/ At("keep")

OnFile ==
  /\ Importing /\ ~exec.filed
  /\ \/ exec.gid /\ UNCHANGED <<row, redis, gallery, keeper, handoff, boot, users, faults>>
     \/ ~exec.gid /\ Ensure
  /\ exec' = [Ensured(exec) EXCEPT !.filed = TRUE]
  /\ UNCHANGED stray

\* A task imports a file: a new page, another version of a page that was there, or
\* another version of a hidden page or of one that this run added.
ImportPage ==
  /\ exec.pc \in Pending /\ exec.gid /\ exec.filed
  /\ \/ /\ HasRoom(1, 0)
        /\ gallery' = Imported(1, 0)
        /\ exec' = [exec EXCEPT !.got = TRUE, !.added = @ + 1]
     \/ /\ HasRoom(0, 1) /\ exec.held > 0
        /\ gallery' = Imported(0, 1)
        /\ exec' = [exec EXCEPT !.got = TRUE, !.added = @ + 1, !.held = @ - 1]
     \/ UNCHANGED gallery /\ exec' = [exec EXCEPT !.got = TRUE]
  /\ UNCHANGED <<row, redis, workers, users, faults>>

\* What others import beside an execution: a version of a page that it found.
Beside(new, changed) ==
  /\ HasRoom(new, changed)
  /\ IF exec.gid THEN changed <= exec.held /\ exec' = [exec EXCEPT !.held = @ - changed]
     ELSE changed <= gallery.pages /\ UNCHANGED exec

\* Importers that a timeout, or a failure before the drain, left behind go on.
StrayImports ==
  /\ "gallery" \in stray
  /\ \E new \in 0..1 : Beside(new, 1 - new) /\ gallery' = Imported(new, 1 - new)
  /\ UNCHANGED <<row, redis, workers, users, faults>>

StrayEnsures ==
  /\ "file" \in stray
  /\ Ensure
  /\ stray' = {"gallery"}
  /\ UNCHANGED exec

\* The plugin returns.  It reports "cancelled" when it saw the flag.
EndDownload ==
  /\ At("run")
  /\ \E r \in Results :
       /\ r = "cancelled" => flag # "none" \/ Spurious
       /\ exec' = [exec EXCEPT !.pc = "verdict", !.res = r]
  /\ UNCHANGED <<row, redis, gallery, workers, users, faults>>

DownloadRaises ==
  /\ At("run") /\ Go("raised")
  /\ UNCHANGED <<row, redis, gallery, workers, users, faults>>

Abort ==
  /\ At("abort")
  /\ gallery' = Aborted(exec, gallery)
  /\ GoSet("failed")
  /\ UNCHANGED <<row, redis, workers, users, faults>>

Raised ==
  /\ At("raised")
  /\ \E i \in {"none", "cancel", "stop"} :
       ReadsIntent(i) /\ Go(IF i = "stop" THEN "keep" ELSE "abort")
  /\ UNCHANGED <<row, redis, gallery, workers, users>>

\* A stop keeps any run that did not finish; a failed run that fetched nothing aborts.
Verdict ==
  /\ At("verdict")
  /\ \/ exec.res = "done" /\ Go("flagcheck") /\ UNCHANGED faults
     \/ /\ exec.res # "done"
        /\ \E i \in {"none", "cancel", "stop"} :
             /\ ReadsIntent(i)
             /\ IF i = "stop" THEN Go("keep")
                ELSE \/ exec.res = "cancelled" /\ Go("reread")
                     \/ exec.res = "partial" /\ Go("flagcheck")
                     \/ exec.res = "failed" /\ ~exec.got /\ Go("abort")
                     \/ exec.res = "failed" /\ exec.gid /\ Go("flagcheck")
  /\ UNCHANGED <<row, redis, gallery, workers, users>>

\* The plugin said cancelled: the intent is read once more before the run is lost.
Reread ==
  /\ At("reread")
  /\ \E i \in {"none", "cancel", "stop"} :
       ReadsIntent(i) /\ Go(IF i = "stop" THEN "keep" ELSE "cleanup")
  /\ UNCHANGED <<row, redis, gallery, workers, users>>

\* The importer discards the run; a cancelled keep path writes no status.
Cleanup ==
  /\ At("cleanup")
  /\ gallery' = Cleaned(exec)
  /\ linked' = (linked /\ gallery'.st # "none")
  /\ IF exec.out = "cancelled" THEN Leave ELSE GoSet("cancelled")
  /\ stray' = StrayWithout(gallery')
  /\ UNCHANGED <<status, stopAt, owned, retries, redis, keeper, handoff, boot, users, faults>>

\* The post-download guard on the flag, which stop shares with cancel.
FlagCheck ==
  /\ At("flagcheck")
  /\ \/ flag = "none" /\ Go("dbcheck") /\ UNCHANGED faults
     \/ /\ flag # "none"
        /\ \E i \in {"none", "cancel", "stop"} :
             /\ ReadsIntent(i)
             /\ Go(IF i # "stop" THEN "cleanup" ELSE IF exec.res = "done" THEN "dbcheck" ELSE "keep")
  /\ UNCHANGED <<row, redis, gallery, workers, users>>

\* The last check, against the row; a failed lookup counts as not cancelled.
DbCheck ==
  /\ At("dbcheck")
  /\ \/ /\ status = "cancelled"
        /\ \E i \in {"none", "cancel", "stop"} :
             ReadsIntent(i) /\ Go(IF i = "stop" THEN "keep" ELSE "cleanup")
     \/ status # "cancelled" /\ Go("finalize") /\ UNCHANGED faults
     \/ status = "cancelled" /\ Go("finalize") /\ Fault
  /\ UNCHANGED <<row, redis, gallery, workers, users>>

NewPagesTouch(touched) == touched = (exec.gid /\ exec.got)

\* The gallery is finalized when the plugin counts a download, which it does for
\* every file it hands over, imported or not, and for pages already held.  A failed
\* run gets here only with a fetched page, a native plugin is done only with all.
Touches(touched) ==
  /\ touched => exec.gid
  /\ exec.filed => touched
  /\ exec.gid /\ exec.res = "failed" => touched
  /\ exec.gid /\ exec.res = "done" /\ EarlyMetadata => touched

\* All imports failed fails the job, some of them make it partial.
Finalize ==
  /\ At("finalize")
  /\ \E bad, touched \in BOOLEAN :
       /\ Touches(touched)
       /\ bad => touched
       /\ gallery' = IF touched /\ gallery.st # "none"
                     THEN Finalized(gallery, exec.got, exec.res # "done", bad) ELSE gallery
       /\ GoSet(IF bad /\ ~exec.got THEN "failed"
                ELSE IF bad \/ exec.res # "done" THEN "partial" ELSE "done")
  /\ UNCHANGED <<row, redis, workers, users, faults>>

\* An exception before the tasks were drained, or after the gallery was finalized.
FinalizeFails ==
  /\ At("finalize") /\ Fault
  /\ \/ stray' = stray \cup Left(exec) /\ UNCHANGED gallery
     \/ /\ exec.gid /\ gallery.st # "none"
        /\ gallery' = Finalized(gallery, exec.got, exec.res # "done", FALSE)
        /\ UNCHANGED stray
  /\ \E out \in {"partial", "failed"} : (exec.got => out = "partial") /\ GoSet(out)
  /\ UNCHANGED <<row, redis, keeper, handoff, boot, users>>

\* _set_job_status overwrites whatever the row says.
SetStatus ==
  /\ At("set") /\ ~RowLocked
  /\ status' = exec.out
  /\ Leave
  /\ UNCHANGED <<stopAt, owned, linked, retries, redis, gallery, workers, users, faults>>

SetStatusFails ==
  /\ At("set") /\ Fault
  /\ Leave
  /\ UNCHANGED <<row, redis, gallery, workers, users>>

\* claim_stop_finish: one conditional UPDATE decides between cancel and stop.
ClaimOrLeave ==
  /\ At("keep") /\ ~RowLocked
  /\ status' = IF status \in Active /\ stopAt THEN "done" ELSE status
  /\ IF status \in Active /\ stopAt THEN Go("kept") ELSE Leave
  /\ UNCHANGED <<stopAt, owned, linked, retries, redis, gallery, workers, users, faults>>

ClaimStopFinish ==
  /\ At("keep") /\ ~RowLocked
  /\ IF status \in Active /\ stopAt THEN status' = "done" /\ Go("kept") /\ UNCHANGED stray
     ELSE /\ UNCHANGED status
          /\ IF status = "cancelled"
             THEN exec' = [exec EXCEPT !.pc = "cleanup", !.out = "cancelled"] /\ UNCHANGED stray
             ELSE Leave /\ stray' = stray \cup Left(exec)
  /\ UNCHANGED <<stopAt, owned, linked, retries, redis, gallery, keeper, handoff, boot, users, faults>>

\* A failure before the claim hands the job over, if that can be enqueued, and waits
\* for no task.
KeepFails ==
  /\ At("keep") /\ Fault
  /\ handoff' \in {TRUE, handoff}
  /\ Leave
  /\ stray' = stray \cup Left(exec)
  /\ UNCHANGED <<row, redis, gallery, keeper, boot, users>>

FinalizeKept ==
  /\ At("kept")
  /\ \E bad \in BOOLEAN :
       gallery' = IF exec.gid /\ gallery.st # "none"
                  THEN Kept(exec, gallery, exec.got, bad) ELSE gallery
  /\ linked' = (linked /\ gallery'.st # "none")
  /\ Leave
  /\ stray' = StrayWithout(gallery')
  /\ UNCHANGED <<status, stopAt, owned, retries, redis, keeper, handoff, boot, users, faults>>

\* After the claim a failure aborts, or settles the gallery when that fails too or the
\* subscription could not be written.
FinalizeKeptFails ==
  /\ At("kept") /\ Fault
  /\ \/ gallery' = Aborted(exec, gallery) /\ UNCHANGED stray
     \/ gallery' = Settled /\ stray' = stray \cup Left(exec)
  /\ Leave
  /\ UNCHANGED <<row, redis, keeper, handoff, boot, users>>

\* The SAQ timeout cuts the coroutine wherever it is, and neither the import tasks nor
\* gallery-dl; only the fence is released.
TimeOut ==
  /\ exec.pc \notin {"idle", "release"} /\ Fault
  /\ Leave
  /\ stray' = stray \cup Left(exec)
  /\ UNCHANGED <<row, redis, gallery, keeper, handoff, boot, users>>

Release ==
  /\ At("release") /\ ~RowLocked
  /\ owned' = FALSE
  /\ exec' = NoExec
  /\ UNCHANGED <<status, stopAt, linked, retries, redis, gallery, workers, users, faults>>

ReleaseFails ==
  /\ At("release") /\ Fault
  /\ exec' = NoExec
  /\ UNCHANGED <<row, redis, gallery, workers, users>>

-----------------------------------------------------------------------------
(* The user: stop, cancel, pause, resume. *)

\* request_stop: the intent commits; without an execution the finalizer is
\* scheduled first.  A cancelled repair keeps what it fetched: it is a stop.
RequestStop ==
  /\ status \in Active /\ ~stopAt /\ ~RowLocked
  /\ stopAt' = TRUE /\ stopper' = TRUE
  /\ handoff' = (handoff \/ ~owned)
  /\ UNCHANGED <<status, owned, linked, retries, redis, gallery, exec, stray, keeper, boot,
                 canceller, asked, req, faults>>

\* The flag follows the commit, and is set again by a repeated stop.
SetStopFlag ==
  /\ stopper \/ (status \in Active /\ stopAt /\ owned)
  /\ flag' = "stop" /\ stopper' = FALSE
  /\ UNCHANGED <<row, pauseKey, gallery, exec, workers, canceller, asked, req, faults>>

StopFlagLost ==
  /\ stopper /\ Fault
  /\ stopper' = FALSE
  /\ UNCHANGED <<row, redis, gallery, exec, workers, canceller, asked, req>>

\* cancel_job: the UPDATE locks the row, the flag is set, then it commits.
CancelLock ==
  /\ ~Repair /\ status \in Active /\ ~RowLocked
  /\ canceller' = "locked"
  /\ UNCHANGED <<row, redis, gallery, exec, workers, asked, stopper, req, faults>>

CancelFlag ==
  /\ canceller = "locked"
  /\ canceller' = "flagged" /\ flag' = "cancel" /\ asked' = TRUE
  /\ UNCHANGED <<row, pauseKey, gallery, exec, workers, stopper, req, faults>>

CancelCommit ==
  /\ canceller = "flagged"
  /\ canceller' = "none" /\ status' = "cancelled"
  /\ UNCHANGED <<stopAt, owned, linked, retries, redis, gallery, exec, workers,
                 asked, stopper, req, faults>>

CancelRollsBack ==
  /\ RowLocked /\ Fault
  /\ canceller' = "none"
  /\ UNCHANGED <<row, redis, gallery, exec, workers, asked, stopper, req>>

ReadRow(op) ==
  /\ req = NoReq
  /\ req' = [op |-> op, status |-> status, owned |-> owned]
  /\ UNCHANGED <<row, flag, gallery, exec, workers, canceller, asked, stopper, faults>>

PauseRead  == Pausing /\ status \in {"queued", "running"} /\ pauseKey' = TRUE /\ ReadRow("pause")
ResumeRead == Pausing /\ status \in {"queued", "paused"} /\ pauseKey' = FALSE /\ ReadRow("resume")

\* The reaper: a running row that nobody owns is failed, unless it was stopped.
ReapRead ==
  /\ Up /\ status = "running" /\ ~owned /\ ~stopAt
  /\ UNCHANGED pauseKey /\ ReadRow("reap")

ReapStopped ==
  /\ Up /\ status = "running" /\ ~owned /\ stopAt
  /\ handoff' = TRUE
  /\ UNCHANGED <<row, redis, gallery, exec, stray, keeper, boot, users, faults>>

\* The flush writes the columns that differ from the snapshot, and only those.
Written == CASE req.op = "pause"  -> "paused"
             [] req.op = "resume" -> IF req.owned THEN "running" ELSE "queued"
             [] req.op = "reap"   -> "failed"

CommitRow ==
  /\ req # NoReq /\ ~RowLocked
  /\ status' = IF Written = req.status THEN status ELSE Written
  /\ req' = NoReq
  /\ UNCHANGED <<stopAt, owned, linked, retries, redis, gallery, exec, workers,
                 canceller, asked, stopper, faults>>

\* The automatic retry skips a stopped job and a locked row.
CronRetryForever ==
  /\ Up /\ ~RowLocked
  /\ status \in {"failed", "partial"} /\ ~stopAt
  /\ status' = "queued" /\ owned' = FALSE /\ retries' = retries + 1
  /\ UNCHANGED <<stopAt, linked, redis, gallery, exec, workers, users, faults>>

CronRetry ==
  /\ Up /\ ~RowLocked
  /\ status \in {"failed", "partial"} /\ retries < MaxRetries /\ ~stopAt
  /\ status' = "queued" /\ owned' = FALSE /\ retries' = retries + 1
  /\ UNCHANGED <<stopAt, linked, redis, gallery, exec, workers, users, faults>>

LoseFlag ==
  /\ flag # "none" /\ Fault
  /\ flag' = "none"
  /\ UNCHANGED <<row, pauseKey, gallery, exec, workers, users>>

-----------------------------------------------------------------------------
(* finalize_stopped_job. *)

StoppedAnyway == stopAt /\ status \in Active
StoppedParked == stopAt /\ status \in {"queued", "paused"} /\ ~owned
Stopped == stopAt /\ status \in Active /\ ~owned

\* The claim ends the job under a row lock; otherwise the delivery is ignored.
FinalizeStopped ==
  /\ Up /\ handoff /\ keeper = "idle" /\ ~RowLocked
  /\ handoff' = FALSE
  /\ IF Stopped
     THEN /\ status' = "done" /\ flag' = "none" /\ pauseKey' = FALSE
          /\ keeper' = IF linked THEN "keep" ELSE "drop"
     ELSE UNCHANGED <<status, keeper, redis>>
  /\ UNCHANGED <<stopAt, owned, linked, retries, gallery, exec, stray, boot, users, faults>>

\* Staged leftovers join the gallery the job was linked to, or are dropped.
KeepGallery ==
  /\ keeper # "idle"
  /\ IF keeper = "keep" /\ gallery.st # "none"
     THEN \E new, changed \in 0..MaxPages, got, bad \in BOOLEAN :
            /\ Beside(new, changed)
            /\ new + changed > 0 => got
            /\ gallery' = Kept(Attach(NoExec), Imported(new, changed), got, bad)
     ELSE UNCHANGED <<gallery, exec>>
  /\ keeper' = "idle"
  /\ UNCHANGED <<row, redis, stray, handoff, boot, users, faults>>

\* A failure aborts, after some of the leftovers or none.
KeepGalleryFails ==
  /\ keeper # "idle" /\ Fault
  /\ IF keeper = "keep" /\ gallery.st # "none"
     THEN \E new, changed \in 0..MaxPages :
            /\ Beside(new, changed)
            /\ gallery' = Aborted(Attach(NoExec), Imported(new, changed))
     ELSE UNCHANGED <<gallery, exec>>
  /\ keeper' = "idle"
  /\ UNCHANGED <<row, redis, stray, handoff, boot, users>>

HandoffLost ==
  /\ handoff /\ Fault
  /\ handoff' = FALSE
  /\ UNCHANGED <<row, redis, gallery, exec, stray, keeper, boot, users>>

-----------------------------------------------------------------------------
(* Worker death and startup recovery; the API keeps serving. *)

Phase(p) == [phase |-> p, loaded |-> FALSE, hit |-> FALSE, stop |-> FALSE]
After(p) == CASE p = "running" -> "queued" [] p = "queued" -> "paused" [] p = "paused" -> "settle"

\* The cancel flags of the dead session are deleted first.
Crash ==
  /\ Fault
  /\ exec' = NoExec /\ stray' = {} /\ keeper' = "idle"
  /\ flag' = "none"
  /\ req' = IF req.op = "reap" THEN NoReq ELSE req
  /\ boot' = Phase("running")
  /\ UNCHANGED <<row, pauseKey, gallery, handoff, canceller, asked, stopper>>

BootLoad ==
  /\ boot.phase \in Active /\ ~boot.loaded
  /\ boot' = [boot EXCEPT !.loaded = TRUE, !.hit = (status = boot.phase), !.stop = stopAt]
  /\ UNCHANGED <<row, redis, gallery, exec, stray, keeper, handoff, users, faults>>

\* The gallery of a row found running is no longer downloading.
BootGallery == IF boot.phase = "running" /\ linked /\ gallery.st = "downloading"
               THEN [gallery EXCEPT !.st = "partial"] ELSE gallery

BootMiss ==
  /\ boot.loaded /\ ~boot.hit
  /\ boot' = Phase(After(boot.phase))
  /\ UNCHANGED <<row, redis, gallery, exec, stray, keeper, handoff, users, faults>>

\* _finish_stop_requested: a stopped job is handed over whatever the policy.
BootHandOver ==
  /\ boot.hit /\ boot.stop /\ ~RowLocked
  /\ handoff' = TRUE /\ owned' = FALSE
  /\ gallery' = BootGallery
  /\ pauseKey' = (pauseKey /\ boot.phase # "paused")
  /\ boot' = Phase(After(boot.phase))
  /\ UNCHANGED <<status, stopAt, linked, retries, flag, exec, stray, keeper, users, faults>>

\* The policy: a running row is queued or failed, a queued one sent again, a paused
\* one kept, queued or failed (also when its retry cannot be sent, which counts); a
\* stopped row too when it cannot be handed over.
BootPolicy ==
  /\ boot.hit /\ ~RowLocked
  /\ IF boot.stop THEN Fault ELSE UNCHANGED faults
  /\ \/ boot.phase # "running" /\ UNCHANGED <<status, retries, pauseKey>>
     \/ /\ boot.phase # "queued"
        /\ pauseKey' = (pauseKey /\ boot.phase = "running")
        /\ \/ status' = "queued" /\ retries' = retries + 1
           \/ status' = "failed" /\ retries' = retries
           \/ boot.phase = "paused" /\ status' = "failed" /\ retries' = retries + 1
  /\ owned' = FALSE
  /\ gallery' = BootGallery
  /\ boot' = Phase(After(boot.phase))
  /\ UNCHANGED <<stopAt, linked, flag, exec, stray, keeper, handoff, users>>

\* recover_stale_tokens, then the galleries nobody is downloading any more; either may
\* fail, and the worker starts all the same.
BootSettle ==
  /\ boot.phase = "settle"
  /\ \/ owned' = FALSE /\ gallery' = Settled /\ UNCHANGED faults
     \/ /\ Fault
        /\ owned' = FALSE \/ UNCHANGED owned
        /\ gallery' = Settled \/ UNCHANGED gallery
  /\ boot' = Phase("up")
  /\ UNCHANGED <<status, stopAt, linked, retries, redis, exec, stray, keeper, handoff, users>>

-----------------------------------------------------------------------------
\* What an execution does by itself once it is claimed.
ExecStep ==
  \/ Confirm \/ PreflightFails \/ Load \/ ResolveMetadata \/ NoMetadata \/ Gate
  \/ EndDownload \/ DownloadRaises \/ Raised \/ Verdict \/ Reread \/ Abort \/ Cleanup
  \/ FlagCheck \/ DbCheck \/ Finalize \/ SetStatus \/ ClaimStopFinish \/ FinalizeKept \/ Release

FileStep == OnFile \/ ImportPage
StrayStep == StrayImports \/ StrayEnsures

ExecFault ==
  \/ LoadFails \/ FinalizeFails \/ SetStatusFails \/ KeepFails \/ FinalizeKeptFails
  \/ TimeOut \/ ReleaseFails

UserStep ==
  \/ RequestStop \/ SetStopFlag \/ StopFlagLost
  \/ CancelLock \/ CancelFlag \/ CancelCommit \/ CancelRollsBack
  \/ PauseRead \/ ResumeRead \/ CommitRow

KeeperStep == FinalizeStopped \/ KeepGallery \/ KeepGalleryFails \/ HandoffLost
CronStep == ReapRead \/ ReapStopped \/ CronRetry
BootStep == BootLoad \/ BootMiss \/ BootHandOver \/ BootPolicy \/ BootSettle

Next == Claim \/ ExecStep \/ FileStep \/ ExecFault \/ UserStep \/ KeeperStep \/ CronStep
        \/ LoseFlag \/ Crash \/ BootStep \/ StrayStep

Spec == Init /\ [][Next]_vars

(***************************************************************************)
(* Fairness.  Admission claims a queued row (DownloadAdmission), a coroutine*)
(* that was started goes on, the plugin returns (inactivity watchdog), the *)
(* API finishes a request it began, SAQ runs what is scheduled, the cron   *)
(* hands a stopped row over every fifteen minutes, and a dead worker is    *)
(* restarted.  Faults, and the user's own requests, have no fairness.      *)
(***************************************************************************)
FairSpec ==
  /\ Spec
  /\ WF_vars(Claim) /\ WF_vars(ExecStep) /\ WF_vars(EndDownload)
  /\ WF_vars(CancelFlag) /\ WF_vars(CancelCommit) /\ WF_vars(CommitRow)
  /\ WF_vars(FinalizeStopped) /\ WF_vars(KeepGallery)
  /\ WF_vars(ReapStopped) /\ WF_vars(BootStep)

-----------------------------------------------------------------------------
(* Properties. *)

Working == {"metadata", "run", "keep", "abort", "cleanup", "finalize", "kept"}

\* finalize_stopped_job never works on a gallery together with an execution that still
\* may import, roll back or finalize.  Only what a fault left behind, the import tasks
\* of an execution that was cut short, may still write beside it.
OneKeeper == keeper = "keep" => exec.pc \notin Working /\ (stray # {} => faults > 0)

\* Pages are thrown away only after the user asked to cancel: a stop, a failure,
\* a retry, a restart or a lost flag never discards what was imported.
DiscardsOnlyCancelled ==
  [][gallery'.pages < gallery.pages => asked]_vars

\* The rows a gallery had before the job survive it, each active or marked replaced by
\* another version; and unless the user asked to cancel, every page stays active.  (The
\* rollback of a cancelled run takes the new versions and does not restore the old.)
HistoryKept == gallery.pages + gallery.replaced >= Held /\ (~asked => gallery.pages >= Held)

\* worker/download.py:482-484: unless an operation failed, the job never ends
\* `cancelled` with a kept gallery nor `done` with a discarded one, however stop
\* and cancel race: a cancelled run leaves, of the pages it found, those that it had
\* not replaced, and of its own none; a done run leaves both.
CancelXorKeep ==
  faults = 0 /\ At("release") /\ owned /\ exec.gid =>
    /\ status = "cancelled" => gallery.pages = exec.held
    /\ status = "done" => gallery.pages = exec.held + exec.added

\* When a job is over, no operation failed on the way and nobody works on its
\* gallery, the gallery is settled.
GallerySettled ==
  faults = 0 /\ status \in Terminal /\ At("idle") /\ keeper = "idle" => gallery.st # "downloading"

\* A stop is served: the job ends, whatever failed on the way.  Only where a second
\* failure leaves its token behind, with nobody to return it, does it wait for the next
\* startup.
Leaked == Up /\ owned /\ At("idle")
StopServed == stopAt /\ status \in Active ~> status \in Terminal \/ (faults > 1 /\ Leaked)

\* worker/download.py:116-117: "DB `cancelled` always wins over a completed
\* download".
CancelWins == [][status = "cancelled" => status' # "done"]_vars

\* worker/download_stop.py:104-107: once it is marked done, "a second delivery, a
\* late `download_job` dispatch and a cancel all see a terminal job".
StoppedStaysTerminal == [][keeper # "idle" => status' \in Terminal]_vars

-----------------------------------------------------------------------------
(* The inductive strengthening of TypeOK and of the first part of HistoryKept. *)

\* Startup recovery counts at most one retry for a running row and one for a
\* paused row, whatever max_retries says.
Uncounted == CASE boot.phase = "running"             -> 2
               [] boot.phase \in {"queued", "paused"} -> 1
               [] OTHER                              -> 0
RetryInv == retries + Uncounted <= MaxRetries + 2 * faults

\* What an execution still holds, and what it added and did not yet throw away, is in
\* the gallery; a page is imported only after a file was handed over.
Unsettled == {"confirm", "load", "metadata", "gate", "run", "raised", "verdict", "reread",
              "flagcheck", "dbcheck", "finalize", "keep"}
Counting == Unsettled \cup {"abort", "cleanup", "kept"}
ImportInv ==
  /\ gallery.pages + gallery.replaced <= MaxPages
  /\ gallery.st = "none" => gallery.pages = 0 /\ gallery.replaced = 0
  /\ exec.pc \in Counting => exec.held + exec.added <= gallery.pages
  /\ exec.pc \in {"idle", "confirm", "load", "metadata", "gate"} => exec.added = 0 /\ ~exec.filed
  /\ ~exec.gid => ~exec.pre /\ ~exec.filed
  /\ ~exec.pre => exec.base = 0 /\ exec.held = 0
  /\ exec.pc \in Counting => (exec.added > 0 => exec.got) /\ (exec.got => exec.filed)
  /\ exec.gid /\ exec.pc \in Counting => gallery.st # "none"
  /\ "gallery" \in stray => gallery.st # "none"

\* A row that is being executed is owned, and neither failed nor partial: no
\* retry, reaper or recovery takes it away.
OwnerInv ==
  /\ exec.pc \notin {"idle", "release"} =>
       owned /\ Up /\ status \notin {"failed", "partial"}
  /\ req.op = "reap" => ~owned /\ Up /\ status \in {"running", "cancelled", "done"}

\* A verdict is there when it is written; a request in flight has an operation.
VerdictInv ==
  /\ At("set") => exec.out # "none"
  /\ req # NoReq => req.op # "none"

\* Without pause and resume nothing brings the job back while it is kept.
KeeperInv ==
  /\ ~Up => keeper = "idle" /\ stray = {}
  /\ boot.loaded \/ boot.hit => boot.phase \in Active
  /\ ~Pausing => req.op \in {"none", "reap"}
  /\ ~Pausing /\ keeper # "idle" =>
       /\ stopAt /\ ~RowLocked /\ ~owned
       /\ status \in {"done", "failed"}

\* The pages an execution holds, and those that were replaced, are at least what the
\* gallery had before the job; an importer without a snapshot made the gallery itself.
SnapshotInv ==
  /\ Held > 0 => gallery.st # "none"
  /\ exec.pre => exec.held + gallery.replaced >= Held
  /\ exec.pre /\ exec.pc \in Counting => exec.snap # "none"
  /\ exec.gid /\ ~exec.pre => Held = 0
RowsKept == gallery.pages + gallery.replaced >= Held

LifecycleInv ==
  /\ TypeOK /\ RetryInv /\ ImportInv /\ OwnerInv /\ VerdictInv /\ KeeperInv
  /\ SnapshotInv /\ RowsKept
-----------------------------------------------------------------------------
(* The inductive strengthening of HistoryKept, OneKeeper, CancelXorKeep,   *)
(* DiscardsOnlyCancelled and GallerySettled, on top of LifecycleInv.       *)

\* The flag, an execution that saw a stop and one that keeps its pages all
\* come from a stop that was committed, and a commit is not taken back.
IntentInv ==
  /\ stopper \/ flag = "stop" \/ exec.seen \/ At("keep") => stopAt
  /\ RowLocked => status \in Active

\* With honest plugins and at most two faults a run is thrown away only when the
\* user asked: a plugin that stopped for a stop is taken for cancelled only if
\* the flag was lost (one fault) and both reads of the intent failed (two more).
DiscardInv ==
  ~Spurious /\ MaxFaults <= 2 =>
    /\ status = "cancelled" \/ flag = "cancel" \/ canceller = "flagged" => asked
    /\ At("cleanup") \/ exec.out = "cancelled" => asked
    /\ At("verdict") /\ exec.res = "cancelled" =>
         asked \/ (stopAt /\ (flag # "none" \/ faults >= 1))
    /\ At("reread") => asked \/ (stopAt /\ faults >= 2)
    /\ ~asked => gallery.pages >= Held

\* Where nothing was left behind, an execution that is not over has imported what is
\* new in its gallery.
TallyInv ==
  ~Pausing /\ stray = {} /\ exec.gid /\ exec.pc \in Counting =>
    gallery.pages = exec.held + exec.added

\* The status that a job ends with says what became of the pages, and a job that
\* may still be cancelled after its execution has none to lose.  Only a fault leaves
\* an importer behind.
EndInv ==
  /\ stray # {} => faults > 0
  /\ exec.pc \in (Counting \cup {"set"}) \ {"kept"} => status # "done"
  /\ ~Pausing /\ At("kept") => status = "done"
  /\ ~Pausing /\ faults = 0 /\ exec.gid /\ At("set") =>
       /\ exec.out \in {"cancelled", "paused"} => gallery.pages = exec.held
       /\ exec.out = "done" => gallery.pages = exec.held + exec.added
  /\ ~Pausing /\ faults = 0 /\ exec.gid /\ At("release") /\ owned =>
       /\ status \in Active \cup {"cancelled"} => gallery.pages = exec.held
       /\ status = "done" => gallery.pages = exec.held + exec.added

\* Without early metadata, a gallery is downloading while an execution that had
\* a file for it has not yet ended, and nobody snapshots it meanwhile.
SettledInv ==
  ~EarlyMetadata /\ faults = 0 =>
    /\ gallery.st = "downloading" =>
         exec.filed /\ exec.pc \in Counting \ {"confirm", "load", "metadata", "gate"}
    /\ exec.snap # "downloading"

OutcomeInv == LifecycleInv /\ IntentInv /\ DiscardInv /\ TallyInv /\ EndInv /\ SettledInv
=============================================================================
