-------------------------- MODULE SubscriptionCheck --------------------------
(***************************************************************************)
(* One subscription whose works are discovered one by one, and the group   *)
(* it is checked in (worker/subscription.py, worker/subscription_group.py, *)
(* routers/subscription_groups.py).                                        *)
(*                                                                         *)
(* The scheduler claims a due, idle group and enqueues a group check; a    *)
(* user enqueues group checks, single checks and forced re-scans at will.  *)
(* Each loads the subscription, takes the check lock of the subscription   *)
(* in Redis or gives up, lists what is newer than the boundary it loaded,  *)
(* queues a job per work that has none active, and only then moves the     *)
(* boundary to the newest work listed.                                     *)
(*                                                                         *)
(* Works are numbered as they are published: a larger one is newer.  What  *)
(* happens to a queued job is DownloadAdmission and DownloadLifecycle; here*)
(* its row is active until it ends.                                        *)
(***************************************************************************)
EXTENDS Integers, FiniteSets

CONSTANTS
  Groups,     \* coroutines that can run check_subscription_group
  Singles,    \* coroutines that can run check_single_subscription
  None,
  Paid,       \* works that only a session with the site lists
  MaxPosts,   \* bound: works published
  MaxSent,    \* bound: group checks queued, more are dropped
  MaxFaults   \* bound: failures, crashes, works a listing misses or the user queues

Checks == Groups \cup Singles

ASSUME SubscriptionAssumption ==
  /\ MaxPosts \in Nat /\ MaxSent \in Nat /\ MaxFaults \in Nat
  /\ None \notin Checks /\ "orphan" \notin Checks /\ None # "orphan"

VARIABLES
  posts,     \* the newest work published, 0 before the first
  removed,   \* works that the creator took down
  status,    \* SubscriptionGroup.status
  held,      \* history: the user paused the group and did not resume it
  claimed,   \* the scheduler has claimed the group and not enqueued its check
  sent,      \* check_subscription_group deliveries in the queue
  checks,    \* [Checks -> CheckState]
  lock,      \* subscription:check_lock: its holder, None, or "orphan" after a crash
  boundary,  \* Subscription.last_item_id, 0 when null
  rows,      \* [works -> none, active, ended]: the latest DownloadJob of a work
  passed,    \* history: works that a listing could not see and the boundary passes over
  up,        \* the worker is running
  faults

group == <<status, held, claimed, sent>>
world == <<posts, removed>>
vars == <<world, group, checks, lock, boundary, rows, passed, up, faults>>

Works == 1..MaxPosts
Steps == {"idle", "loaded", "locked", "listed", "selected", "committed", "release", "finish"}
CheckState == [step : Steps, kind : {"group", "single", "force"}, last : 0..MaxPosts,
               works : SUBSET Works, latest : 0..MaxPosts]
IdleCheck == [step |-> "idle", kind |-> "single", last |-> 0, works |-> {}, latest |-> 0]

SubTypeOK ==
  /\ posts \in 0..MaxPosts /\ removed \subseteq Works
  /\ status \in {"idle", "running", "paused"} /\ held \in BOOLEAN
  /\ claimed \in BOOLEAN /\ sent \in 0..MaxSent
  /\ checks \in [Checks -> CheckState]
  /\ lock \in Checks \cup {None, "orphan"}
  /\ boundary \in 0..MaxPosts
  /\ rows \in [Works -> {"none", "active", "ended"}]
  /\ passed \subseteq Works
  /\ up \in BOOLEAN /\ faults \in 0..MaxFaults

Fault == faults < MaxFaults /\ faults' = faults + 1

At(c, step) == up /\ checks[c].step = step
Go(c, step) == checks' = [checks EXCEPT ![c].step = step]
\* What a check carried is forgotten once it has no more use for it.
End(c, step) ==
  checks' = [checks EXCEPT ![c] = [IdleCheck EXCEPT !.step = step, !.kind = checks[c].kind]]

\* The works of the creator that are online, and the newest of a set of works.
Online == (1..posts) \ removed
IsNewest(n, S) == IF S = {} THEN n = 0 ELSE n \in S /\ \A p \in S : p <= n

Init ==
  /\ posts = 0 /\ removed = {}
  /\ status = "idle" /\ held = FALSE /\ claimed = FALSE /\ sent = 0
  /\ checks = [c \in Checks |-> IdleCheck]
  /\ lock = None /\ boundary = 0 /\ passed = {}
  /\ rows = [p \in Works |-> "none"]
  /\ up = TRUE /\ faults = 0

-----------------------------------------------------------------------------
(* The scheduler. *)

\* _released_status: idle, unless the group was paused meanwhile.
ReleasedIdle == "idle"
Released == IF status = "paused" THEN "paused" ELSE "idle"

\* subscription_scheduler, every minute: the group is due.
Claim ==
  /\ up /\ ~claimed /\ status = "idle"
  /\ status' = "running" /\ claimed' = TRUE
  /\ UNCHANGED <<world, held, sent, checks, lock, boundary, rows, passed, up, faults>>

OneMore == IF sent < MaxSent THEN sent + 1 ELSE sent

Dispatch ==
  /\ up /\ claimed
  /\ claimed' = FALSE /\ sent' = OneMore
  /\ UNCHANGED <<world, status, held, checks, lock, boundary, rows, passed, up, faults>>

DispatchFails ==
  /\ up /\ claimed /\ Fault
  /\ claimed' = FALSE /\ status' = Released
  /\ UNCHANGED <<world, held, sent, checks, lock, boundary, rows, passed, up>>

-----------------------------------------------------------------------------
(* A check. *)

Load(c, kind) ==
  checks' = [checks EXCEPT ![c] = [IdleCheck EXCEPT !.step = "loaded", !.kind = kind,
                                                    !.last = boundary]]

\* check_subscription_group, up to its first commit: a paused group is skipped.
StartGroup(c) ==
  /\ At(c, "idle") /\ sent > 0
  /\ sent' = sent - 1
  /\ IF status = "paused" THEN UNCHANGED checks ELSE Load(c, "group")
  /\ UNCHANGED <<world, status, held, claimed, lock, boundary, rows, passed, up, faults>>

\* check_single_subscription, on request or as a forced re-scan.
StartSingle(c) ==
  /\ At(c, "idle")
  /\ \E kind \in {"single", "force"} : Load(c, kind)
  /\ UNCHANGED <<world, group, lock, boundary, rows, passed, up, faults>>

\* acquire_lock: SET NX; who does not get it gives up.
AcquireAnyway(c) ==
  /\ At(c, "loaded")
  /\ Go(c, "locked") /\ lock' = c
  /\ UNCHANGED <<world, group, boundary, rows, passed, up, faults>>
Acquire(c) ==
  /\ At(c, "loaded")
  /\ IF lock = None THEN Go(c, "locked") /\ lock' = c
                    ELSE End(c, "finish") /\ UNCHANGED lock
  /\ UNCHANGED <<world, group, boundary, rows, passed, up, faults>>

\* discover_posts: newest first, until the boundary is met; everything when it was
\* taken down or the re-scan is forced.
Since(c) == IF checks[c].kind = "force" THEN 0 ELSE checks[c].last
NewWorks(c, listed) ==
  IF Since(c) \in listed THEN {p \in Online : p > Since(c)} ELSE Online

\* A page that cannot be read is skipped, and so are paid works without a session.
List(c, unread, hidden, latest) ==
  LET new == NewWorks(c, Online \ unread) IN
  /\ IsNewest(latest, Online \ unread)
  /\ checks' = [checks EXCEPT ![c].step = "listed", ![c].latest = latest,
                              ![c].works = new \ (unread \cup hidden),
                              ![c].kind = IF @ = "group" THEN @ ELSE "single"]
  /\ passed' = passed \cup
       {p \in new \cap (unread \cup hidden) : p <= latest /\ rows[p] = "none"}

Discover(c) ==
  /\ At(c, "locked")
  /\ \E unread \in SUBSET Online, hidden \in {{}, Paid} : \E latest \in 0..MaxPosts :
       /\ List(c, unread, hidden, latest)
       /\ IF unread \cup hidden = {} THEN UNCHANGED faults ELSE Fault
  /\ UNCHANGED <<world, group, lock, boundary, rows, up>>

\* The works that have no active job, looked up one by one.
Select(c) ==
  /\ At(c, "listed")
  /\ checks' = [checks EXCEPT ![c].step = "selected",
                              ![c].works = {p \in @ : rows[p] # "active"}]
  /\ UNCHANGED <<world, group, lock, boundary, rows, passed, up, faults>>

\* One commit for all rows; a work that got an active job in between violates the
\* unique index, and nothing is queued.
CommitWhatFits(c) ==
  /\ At(c, "selected")
  /\ IF \E p \in checks[c].works : rows[p] = "active"
     THEN Go(c, "committed") /\ UNCHANGED rows
     ELSE /\ Go(c, "committed")
          /\ rows' = [p \in Works |-> IF p \in checks[c].works THEN "active" ELSE rows[p]]
  /\ UNCHANGED <<world, group, lock, boundary, passed, up, faults>>
Commit(c) ==
  /\ At(c, "selected")
  /\ IF \E p \in checks[c].works : rows[p] = "active"
     THEN End(c, "release") /\ UNCHANGED rows
     ELSE /\ checks' = [checks EXCEPT ![c].step = "committed", ![c].works = {}]
          /\ rows' = [p \in Works |-> IF p \in checks[c].works THEN "active" ELSE rows[p]]
  /\ UNCHANGED <<world, group, lock, boundary, passed, up, faults>>

\* The deliveries are sent; latest_id or sub.last_item_id is the new boundary.
Advance(c) ==
  /\ At(c, "committed")
  /\ boundary' = IF checks[c].latest # 0 THEN checks[c].latest ELSE checks[c].last
  /\ End(c, "release")
  /\ UNCHANGED <<world, group, lock, rows, passed, up, faults>>

\* Backoff, a disabled source, a failed listing, commit or enqueue, or the time
\* that is left for the group runs out: the check ends where it is.
Fail(c) ==
  /\ up /\ checks[c].step \in {"locked", "listed", "selected", "committed"} /\ Fault
  /\ End(c, "release")
  /\ UNCHANGED <<world, group, lock, boundary, rows, passed, up>>

\* release_lock compares the value it wrote.
Release(c) ==
  /\ At(c, "release") /\ Go(c, "finish")
  /\ lock' = IF lock = c THEN None ELSE lock
  /\ UNCHANGED <<world, group, boundary, rows, passed, up, faults>>

\* A group check releases its group, a single check is over.
Finish(c) ==
  /\ At(c, "finish")
  /\ checks' = [checks EXCEPT ![c] = IdleCheck]
  /\ status' = IF checks[c].kind = "group" THEN Released ELSE status
  /\ UNCHANGED <<world, held, claimed, sent, lock, boundary, rows, passed, up, faults>>

-----------------------------------------------------------------------------
(* The user, the creator, the jobs. *)

\* run_group does not look at the status.
RunGroup ==
  /\ sent' = OneMore
  /\ UNCHANGED <<world, status, held, claimed, checks, lock, boundary, rows, passed, up, faults>>

PauseGroup ==
  /\ status' = "paused" /\ held' = TRUE
  /\ UNCHANGED <<world, claimed, sent, checks, lock, boundary, rows, passed, up, faults>>

ResumeGroup ==
  /\ status = "paused"
  /\ status' = "idle" /\ held' = FALSE
  /\ UNCHANGED <<world, claimed, sent, checks, lock, boundary, rows, passed, up, faults>>

\* The user queues the URL of a work, or retries its job.
QueueWork(p) ==
  /\ p <= posts /\ rows[p] # "active" /\ Fault
  /\ rows' = [rows EXCEPT ![p] = "active"]
  /\ UNCHANGED <<world, group, checks, lock, boundary, passed, up>>

EndJob(p) ==
  /\ rows[p] = "active"
  /\ rows' = [rows EXCEPT ![p] = "ended"]
  /\ UNCHANGED <<world, group, checks, lock, boundary, passed, up, faults>>

Publish ==
  /\ posts < MaxPosts /\ posts' = posts + 1
  /\ UNCHANGED <<removed, group, checks, lock, boundary, rows, passed, up, faults>>

TakeDown(p) ==
  /\ p \in Online /\ Fault
  /\ removed' = removed \cup {p}
  /\ UNCHANGED <<posts, group, checks, lock, boundary, rows, passed, up>>

-----------------------------------------------------------------------------
(* The worker dies and starts again. *)

\* The queue and the lock stay in Redis.
Crash ==
  /\ up /\ Fault
  /\ up' = FALSE /\ claimed' = FALSE
  /\ checks' = [c \in Checks |-> IdleCheck]
  /\ lock' = IF lock = None THEN None ELSE "orphan"
  /\ UNCHANGED <<world, status, held, sent, boundary, rows, passed>>

\* The lock outlives every check that holds it, and expires.
ExpireLock ==
  /\ lock = "orphan" /\ lock' = None
  /\ UNCHANGED <<world, group, checks, boundary, rows, passed, up, faults>>

\* startup: groups that were running are idle again.
StartupKeeping ==
  /\ ~up /\ up' = TRUE
  /\ UNCHANGED <<world, group, checks, lock, boundary, rows, passed, faults>>
Startup ==
  /\ ~up /\ up' = TRUE
  /\ status' = IF status = "running" THEN "idle" ELSE status
  /\ UNCHANGED <<world, held, claimed, sent, checks, lock, boundary, rows, passed, faults>>

-----------------------------------------------------------------------------
CheckStep(c) ==
  Acquire(c) \/ Discover(c) \/ Select(c) \/ Commit(c) \/ Advance(c) \/ Release(c) \/ Finish(c)

UserStep == RunGroup \/ PauseGroup \/ ResumeGroup \/ \E c \in Singles : StartSingle(c)

WorldStep == Publish \/ \E p \in Works : QueueWork(p) \/ EndJob(p) \/ TakeDown(p)

Next ==
  \/ Claim \/ Dispatch \/ DispatchFails
  \/ \E c \in Groups : StartGroup(c)
  \/ \E c \in Checks : CheckStep(c) \/ Fail(c)
  \/ UserStep \/ WorldStep \/ Crash \/ ExpireLock \/ Startup

Spec == Init /\ [][Next]_vars

(***************************************************************************)
(* Fairness.  The cron fires every minute, a coroutine that was started    *)
(* goes on, SAQ runs what is queued, a dead worker is restarted, and Redis *)
(* expires the lock.  Neither the user, nor the creator, nor a failure, nor*)
(* the end of a job has any.                                               *)
(***************************************************************************)
FairSpec ==
  /\ Spec
  /\ WF_vars(Claim) /\ WF_vars(Dispatch)
  /\ SF_vars(\E c \in Groups : StartGroup(c))
  /\ \A c \in Checks : WF_vars(CheckStep(c))
  /\ WF_vars(Startup) /\ WF_vars(ExpireLock)

-----------------------------------------------------------------------------
(* Properties. *)

\* Every work up to b that is still online has had a job, or a listing missed it.
Covered(b) == \A p \in (1..b) \ removed : rows[p] # "none" \/ p \in passed

Excluding == {"locked", "listed", "selected", "committed", "release"}

\* A check holds the lock from its listing to its release, so no two list and queue
\* at once (worker/subscription.py:165-178).
LockHeld == \A c \in Checks : checks[c].step \in Excluding => lock = c

\* What a check carries: what it loaded is covered; what it listed is covered or about
\* to be queued, and covered once its rows are committed.
Safe(k) ==
  /\ k.step # "idle" => k.last <= posts /\ Covered(k.last)
  /\ k.step \in {"listed", "selected", "committed"} => k.latest <= posts
  /\ k.step \in {"listed", "selected"} =>
       \A p \in (1..k.latest) \ removed :
         rows[p] # "none" \/ p \in passed \/ p \in k.works
  /\ k.step = "committed" => Covered(k.latest)

ListedCovered == \A c \in Checks : Safe(checks[c])

\* The inductive invariant: the check lock excludes, and whatever snapshot of the
\* boundary a check carries, everything it will advance past has a job
\* (worker/subscription.py:62-128).
SubscriptionInv ==
  /\ SubTypeOK
  /\ LockHeld
  /\ boundary <= posts
  /\ ListedCovered

\* Neither the release of a run that was in flight, nor a failed dispatch, nor a
\* restart undoes a pause (worker/subscription_group.py:41-47).
PauseHolds == held => status = "paused"

\* The boundary never passes a work that is online and never had a job, except one
\* that a listing could not see: not when a commit fails, a check is cut off, two
\* checks overlap or the boundary itself was taken down
\* (worker/subscription.py:62-128).
NothingPassedOver == Covered(boundary)

Wanted(p) == p \in Online /\ rows[p] = "none"
Excused(p) == p \in passed \cup removed \/ status = "paused"

\* A published work gets its job in the end, whatever crashed, failed or overlapped,
\* unless a listing missed it, it was taken down, or the group was paused.
EventuallyQueued ==
  \A p \in Works : Wanted(p) ~> (rows[p] # "none" \/ Excused(p))
=============================================================================
