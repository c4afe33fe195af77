# Jyzrox: TLA+ models

Jyzrox is a self-hosted gallery archive. A FastAPI backend keeps galleries, images and jobs in
PostgreSQL, hands background work to SAQ workers over Redis, and downloads from E-Hentai, Pixiv,
Fanbox and whatever gallery-dl supports. A PWA browses the archive and the sites. These modules model
the parts of it in which the order of events decides whether a user loses pages, a download hangs, a
subscription skips a work or a list shows what it should not: how a download is admitted, executed and
ended; how a subscription is checked; how the PWA loads, leaves and restores a list, which tab owns
the snapshots it restores from, and which pages the Reader asks for ahead of time.

Contents: [modules](#modules), [inventory](#inventory), [DownloadAdmission](#downloadadmission),
[DownloadLifecycle](#downloadlifecycle), [SubscriptionCheck](#subscriptioncheck),
[BrowseSession](#browsesession), [TabScope](#tabscope), [ReaderPrefetch](#readerprefetch), [runs](#runs),
[findings](#findings), [fairness](#fairness), [proofs](#proofs), [not modelled](#what-is-not-modelled).

To check a run: `tlc -config subscription.cfg SubscriptionCheck`; to prove:
`tlapm SubscriptionCheck_proofs.tla`. The proofs take some minutes.

## Modules

| Module | What it is |
| --- | --- |
| `AdmissionPool` | Abstract specification: a pool of permits per capacity key. |
| `DownloadAdmission` | Tickets, the claim, tokens, delivery, retry, reaper, recovery: the state of `download_jobs` and of SAQ for any number of rows. |
| `DownloadLifecycle` | One job, its executions, its gallery, and everyone who may end it. |
| `SubscriptionCheck` | One subscription, its group, the checks that list and queue its works, and the boundary. |
| `BrowseSession` | One mounted list of the PWA: reducer, requests, snapshots, patches. |
| `TabScope` | The documents that contend for a browse-tab id over BroadcastChannel. |
| `ReaderPrefetch` | The prefetcher of one open Reader: its slots, chains and window. |
| `DownloadAdmission_proofs`, `DownloadExecution_proofs`, `DownloadLifecycle_proofs`, `SubscriptionCheck_proofs`, `BrowseSession_proofs`, `BrowseBuffer_proofs`, `TabScope_proofs`, `ReaderPrefetch_proofs` | Inductive invariants and what follows from them, proved with TLAPS. |
| `MCDownloadAdmission`, `MCAdmissionQueue`, `MCBrowse` | The small instances TLC checks; the last two run two and three instances side by side. |

The two download models cut the system at the token. `DownloadAdmission` decides who executes a row and
when, for many rows, and treats an execution as "confirm, look at the pause key, end with a status".
`DownloadLifecycle` opens that execution for one row, and treats admission as "a queued row without a
token is eventually claimed", which is what `LeavesQueue` establishes. `SubscriptionCheck` sees of both
only whether the row of a work is active. In the PWA, `BrowseSession` takes the scope as something that
is claimed and released at any time, and `TabScope` says who may have it. `ReaderPrefetch` shares no state
with the others.

## Inventory

| Component | State | Operations | Hard behaviour | Correct when |
| --- | --- | --- | --- | --- |
| Download admission (`services/download_admission.py`) | `status`, `admission_key`, `admission_ticket`, `admission_token`, `retry_count` of `download_jobs`; SAQ entries; per-key advisory lock | enter queue, claim, release, requeue, oldest waiting, recover stale tokens | duplicate, late and lost deliveries; snapshots read before an enqueue; restart | capacity of a source holds; rows are admitted in order; a token fences its execution; every waiting row gets its turn |
| Execution, cancel, stop (`worker/download.py`, `services/download_stop.py`, `worker/download_stop.py`, `routers/download.py`) | `stop_requested_at`, `gallery_id`, Redis cancel and pause keys, the coroutine | run, cancel, stop, pause, resume, retry, clear, detached finalizer | cancel and stop race the end of the run; flags are evicted; hand-offs are lost; SAQ cuts the coroutine | only a cancel discards; a stop ends the job; one actor at a time works on the gallery |
| Progressive importer (`worker/progressive.py`) | gallery status and page rows, a snapshot of both, import tasks | attach, ensure gallery, import file, finalize, finalize kept, abort, cleanup | a gallery that already has pages; pages replaced by newer versions; half-finished attempts; tasks that outlive their coroutine | only a cancel takes pages, and leaves the rows of what was there; no gallery stays downloading |
| Startup recovery and cron (`worker/__init__.py`, `worker/retry.py`) | the rows a dead session left | recover running, queued and paused jobs, stale tokens, stuck galleries; retry; reap | the API keeps serving meanwhile; its enqueues may fail | nothing is stuck and nothing is recovered twice |
| Egress personas (`services/egress_persona.py`) | personas, cooldowns, lane tokens | claim with personas, cool down, release | a second lock, a persona that vanishes after the claim | one execution per persona lane |
| Credentials (`services/credential.py`) | encrypted rows, cookies | read, write back after a run | concurrent write-back | the newest cookie survives |
| Subscriptions (`worker/subscription.py`, `worker/subscription_group.py`, `routers/subscription_groups.py`) | `last_item_id`, `last_success_at`, group status, check lock, failure counters | schedule, check a group or one subscription, run now, pause, resume, re-scan | checks overlap on a boundary read early; a batch is rolled back; a pause during a run; a crash between claim and enqueue | no published work is skipped; a group is never stuck running; a pause holds |
| Pixiv author collections (`worker/pixiv_collection.py`) | job rows without token, a Redis lock | collect, stop, cancel | liveness is a lock with a TTL | as for downloads |
| Content store, thumbnails (`services/cas.py`, `services/thumbnail_lifecycle.py`, `services/image_purge.py`) | blobs, reference counts, files, exclusions | store, reference, purge, clean up | an import re-references what a cleanup removes | no referenced file is deleted |
| Local import and scan (`worker/importer.py`, `worker/import_recovery.py`, `worker/scan.py`) | import batches, link pages | import, recover, rescan | recovery of an import that is still queued; moves under a scan | every file is imported once |
| Library watcher (`core/watcher.py`) | pending timers, paused events | debounce, pause, resume, pair moves | timers against replay | each change is rescanned after it settles |
| Reconciliation (`worker/reconciliation.py`) | orphan sets | weekly cleanup | races imports | only orphans are removed |
| Duplicate detection (`worker/dedup_*.py`) | scan progress, Redis signals, pairs | tiers 1 to 3, pause, resume, stop | one-shot signals | a signal takes effect; no pair is missed |
| Rate limiting (`core/rate_limit.py`, `core/adaptive.py`) | window counters, multipliers | acquire, record | concurrent windows | the limit holds |
| Site plugins (`plugins/builtin/*`, `services/*_downloader.py`) | none that outlives a run | resolve metadata, download | report cancelled on their own | their verdict is truthful |
| Gallery management (`services/workbench_*.py`) | gallery and image rows | merge, undo, edit | few interleavings | undo restores |
| Browse sessions (`pwa/src/hooks/useBrowseSession.ts`, `pwa/src/lib/browse/*`) | reducer state, generation, requests in flight, snapshots, patches | load, append, refresh, retry, change identity, checkpoint, restore, patch | answers late and out of order; identity changes under requests; stale snapshots; committed and dispatched state differ | a list holds its own items, once, without holes, forgets no change it knew of, and stops loading |
| Browse tab scope (`pwa/src/lib/browse/tabScope.ts`, `pwa/src/hooks/useBrowseTabScope.ts`) | the id in sessionStorage, the channel, the contender id | contend, claim, answer, rotate, release | duplicated tabs; late messages; the back-forward cache | two tabs do not keep one id |
| Reader prefetch (`pwa/src/components/Reader/hooks.ts`) | pages in flight and in the cache, a count of slots, an epoch | go over a window, march on, abort, time out | answers and timeouts after a page turn; lists refreshed under requests | the cap holds; nothing is fetched twice or for pages left behind; the next page is there |
| Progress save, live updates and other pages of the PWA | save timers, the socket, the share queue | save progress, reconnect, replay | timers that outlive what they were for; lost events | the last page read is saved; events refresh what they concern |
| Library, search, reader, admin API; novels; events; memory, disk, backup; authentication; deployment | request-scoped or outside the gallery pipeline | see `PROJECT.json` | | |

How they interact. A request or a subscription inserts a row, commits, and enqueues a SAQ delivery.
The interactive worker takes the delivery, claims a token under an advisory lock, and runs a plugin;
the plugin calls the importer for every file and polls Redis for the cancel flag. Cancel and stop
write PostgreSQL and the same Redis flag; a stopped row that nobody executes goes to
`finalize_stopped_job`, a SAQ function of its own. The cron retries failed rows and reaps dead ones.
On start the worker recovers what the previous session left while the API already serves requests.
PostgreSQL runs READ COMMITTED and Redis evicts (`allkeys-lru`), so PostgreSQL is the truth and Redis
a hint that may be missing.

In the PWA a page renders a list for an identity taken from its URL; the session fetches pages from the backend,
which answers Pixiv pages from a Redis cache for some minutes, keeps the buffer in a reducer, and writes
snapshots to sessionStorage under the tab's id, which it uses only once that id is claimed. A card that changes
an item publishes a patch to the saved lists and to the mounted one.

The list of hazards in `PROJECT.json` names, line by line, what is hard to test in the modelled code, which
property covers it, and why none does where none does. Those of the parts without a model are
[below](#what-is-not-modelled).

## DownloadAdmission

| State | Code |
| --- | --- |
| `status`, `token`, `retries` | columns `status`, `admission_token`, `retry_count`; `absent` before the insert, `deleted` after `clear_finished_jobs` |
| `ahead[j]` | the rows with a smaller `admission_ticket`. The sequence is unbounded, its order is not: only the comparisons are kept |
| `canonical[j]`, `dispatch[j]` | live SAQ entries of the row under `compute_job_key(id, retry_count)` and under `dispatch:` keys |
| `unsent` | rows whose request has committed the insert and not yet enqueued |
| `slot[w]` | a coroutine of the interactive worker: its step, row, token, FIFO position, counted holders |
| `lock[k]` | `pg_advisory_xact_lock` on a key; a row lock is `RowLocked` |
| `req[r]` | an ORM handler: operation and the snapshot it read |
| `pauseKey`, `boot` | Redis `download:pause:{id}`; the phase of startup recovery and the rows it loaded |

| Actions | Code |
| --- | --- |
| `Submit`, `SendSubmitted`, `SendSubmittedFails`, `Cancel`, `ClearFinished` | `routers/download.py`: insert and commit, enqueue, the except branch, `cancel_job`, `clear_finished_jobs` |
| `ReadRow`, `Send`, `CommitPlain`, `CommitRequeue`, `Abandon` | `pause_resume_job`, `retry_job`, and the reaper: snapshot, enqueue, flush of the changed columns |
| `CronRetry`, `CronRetryFails`, `RestoreTransport` | `worker/retry.py` |
| `Ignore`, `Enter`, `CountHolders`, `TakeToken`, `Redeliver` | `_enter_queue`, `claim`, `_take_token`, and the waiting branch of `download_job` |
| `Confirm`, `PauseGate`, `Pause`, `EndRun`, `TimeOut`, `Release`, `Wake`, `StepLost` | `download_job` and `_wake_next_admission` around the run |
| `Crash`, `BootLoad`, `BootRunning`, `BootQueued`, `BootPaused`, `RecoverStaleTokens` | worker death and `worker/__init__.py` |

Granularity. A transaction is one step, except where another can commit between its statements: the
claim is three steps (lock and read the position, count the holders, take the token). An ORM handler
is two or three steps, and writes only the columns that differ from what it read, which is what
SQLAlchemy flushes. That is where the stale-snapshot behaviour comes from. Startup recovery reads the
rows of one status, and commits them together afterwards. Its last step, `recover_stale_tokens`, may fail, and
the worker starts all the same.

Approximations. Egress personas, which lock a second key in the same claim, are left out. The
automatic retry, one transaction over up to ten rows, retries each row on its own. More than
`MaxDispatch` live redeliveries of one row are indistinguishable from `MaxDispatch`: a delivery beyond
the bound is dropped, which only removes duplicates of a delivery that is still there.

## DownloadLifecycle

| State | Code |
| --- | --- |
| `status`, `stopAt`, `owned`, `linked`, `retries` | `status`, `stop_requested_at` set, `admission_token` set, `gallery_id` set, `retry_count` |
| `flag`, `pauseKey` | Redis `download:cancel:{id}` with the value of a cancel or of a stop; `download:pause:{id}` |
| `gallery` | `download_status`, the number of active pages of the gallery, and of the rows marked `replaced` |
| `exec` | the execution: `pc`, whether it saw a stop (`seen`), whether its importer has a gallery (`gid`), found one it did not create (`pre`) with `base` pages and status `snap`; how many of those it found are still active (`held`) and how many active ones it brought (`added`); whether it imported (`got`) and was handed a file (`filed`); what the plugin said (`res`) and what will be written (`out`) |
| `stray` | import tasks and a gallery-dl reader that their coroutine left behind: with a gallery, or still before their first file |
| `keeper`, `handoff` | `finalize_stopped_job` after its claim, with a gallery to keep or staged files to drop; a scheduled delivery of it |
| `canceller`, `stopper`, `req` | `cancel_job` between UPDATE and commit; `request_stop` between commit and flag; an ORM handler with its snapshot |
| `asked` | the user asked to cancel (history, for the properties) |
| `boot` | the phase of startup recovery and what it read of this row |

| Actions | Code |
| --- | --- |
| `Claim`, `Confirm` | the claim of `DownloadAdmission` and `_set_job_status("running")` |
| `PreflightFails`, `Load`, `LoadFails`, `ResolveMetadata`, `NoMetadata`, `Gate` | `_run_download_job` up to the plugin call |
| `OnFile`, `ImportPage`, `StrayEnsures`, `StrayImports` | `on_file`, `ensure_gallery*`, `import_file` and its tasks; the same of tasks that were left behind |
| `EndDownload`, `DownloadRaises`, `Raised`, `Verdict`, `Reread`, `FlagCheck`, `DbCheck` | the plugin returns; the intent is read; the guards after the download |
| `Finalize`, `FinalizeFails`, `Abort`, `Cleanup`, `SetStatus` | the importer's ends and the status write |
| `ClaimStopFinish`, `KeepFails`, `FinalizeKept`, `FinalizeKeptFails` | `_stop_and_keep` |
| `TimeOut`, `Release`, `ReleaseFails` | the SAQ timeout and the `finally` of `download_job` |
| `RequestStop`, `SetStopFlag`, `StopFlagLost`, `CancelLock`, `CancelFlag`, `CancelCommit`, `CancelRollsBack` | `services/download_stop.py`, `cancel_job` |
| `PauseRead`, `ResumeRead`, `CommitRow`, `ReapRead`, `ReapStopped`, `CronRetry` | `pause_resume_job`, `worker/retry.py` |
| `FinalizeStopped`, `KeepGallery`, `KeepGalleryFails`, `HandoffLost` | `worker/download_stop.py` |
| `Crash`, `BootLoad`, `BootMiss`, `BootHandOver`, `BootPolicy`, `BootSettle`, `LoseFlag` | worker death, startup recovery, eviction |

A step is one transaction, one Redis command or one plugin call. `cancel_job` is three steps because
it sets the flag between its UPDATE and its commit: the row is locked meanwhile and every writer of
the row waits (`RowLocked`), while readers see the old status. `request_stop` is two steps in the
other order, commit and then flag. The database intent (`DurableIntent`) ranks a cancel above a stop; a
lookup that fails falls back to the flag (`ReadsIntent`), as `read_stop_intent`'s callers do.

Pages are counted, not named: the properties ask how many of them survive. An import adds a page, or
replaces one: a source item whose file has changed marks the row it had `replaced` and inserts a new one
(`worker/progressive.py:807-886`), so an active page of before gives way to one of this run, and `held` goes
down as `added` goes up. The rollback of a cancelled run removes what the run added and leaves the replaced
rows as they are (`Cleaned`), as the code does; nothing brings them back. What a plugin may report is
constrained by what it did (`Touches`): a run that is handed a file counts it, a failed run reaches
finalize only with a fetched page, a native plugin says done only when it has every page.

Files are imported by tasks of their own (`worker/progressive.py:781`), and gallery-dl's output is read by
another, which outlives a cancelled coroutine (`plugins/builtin/gallery_dl/source.py:1131`). The ends that wait
for them or cancel them (`Abort`, `Cleanup`, `Finalize`, `FinalizeKept`) leave none. `TimeOut`, a failure before
the drain and a job that somebody else has ended leave what is `Left`: it may import a page at any later time,
beside the detached finalizer, a second execution or the user, until the worker dies.

Approximations. One job works on the gallery. The tasks that several executions left are not told apart:
`stray` is a set of two kinds, and what is left may import any number of pages. Files that
no callback announced (the fallback import), trashed galleries, the link to an already saved gallery and Pixiv
collections are left out. The finalizer deletes its Redis keys in the same step as its commit. User retry and
row deletion are in `DownloadAdmission` only. `boot` lets the policy choose any of its values at each restart.

## SubscriptionCheck

| State | Code |
| --- | --- |
| `posts`, `removed` | what the creator has published, numbered from old to new, and taken down |
| `status`, `held` | `SubscriptionGroup.status`; history: paused by the user and not resumed |
| `claimed`, `sent` | the scheduler between its claim and its enqueue; deliveries of `check_subscription_group` |
| `checks[c]` | a coroutine: its step, what kind of check it is, the boundary it loaded (`last`), the works it listed, the newest of them |
| `lock` | Redis `subscription:check_lock:{id}`: its holder, or an orphan after a crash |
| `boundary`, `rows` | `Subscription.last_item_id`; the latest `DownloadJob` of each work |
| `passed` | history: works that a listing could not see and whose boundary moved past them |

| Actions | Code |
| --- | --- |
| `Claim`, `Dispatch`, `DispatchFails` | `subscription_scheduler` |
| `StartGroup`, `StartSingle` | `check_subscription_group`, `check_single_subscription` up to the load of the subscription |
| `Acquire`, `Release` | the check lock |
| `Discover`, `Select`, `Commit`, `Advance`, `Fail`, `Finish` | `_enqueue_for_subscription`, `_enqueue_discovered_works`, `FanboxSource.discover_posts`, the release of the group |
| `RunGroup`, `PauseGroup`, `ResumeGroup` | `routers/subscription_groups.py` |
| `QueueWork`, `EndJob`, `Publish`, `TakeDown` | other jobs for the same works; the creator |
| `Crash`, `ExpireLock`, `Startup` | worker death, the TTL of the lock, the reset of running groups |

A check loads its subscription before it takes the lock, so what it carries may be older than what
another check has written meanwhile. The look-up of active jobs and the commit of the batch are two
steps; in between a job for one of the works may become active, and the partial unique index
`uq_download_jobs_active_canonical` rolls the batch back. A listing skips a page it cannot read and, while no
session is there, works that cost something; which works are concerned is chosen freely. Coroutines that
run group checks and those that run single checks are two constants, which may overlap; the theorems hold
for any choice, the run has one of each.

Approximations. One subscription is in the group. The backoff, the disabled source and the missing
credential are one `Fail`. A delivery in the queue is not lost, and deliveries beyond `MaxSent` are
dropped, since one in the queue does what two do. The sources that do not list their works (one archive
job per check, boundary `last_success_at`) are left out.

## BrowseSession

| State | Code |
| --- | --- |
| `source`, `wanted`, `key`, `ready` | the page (Pixiv, Library, E-Hentai); the identity of the next render and of the last commit; whether the scope is claimed |
| `live`, `shown` | the reducer state with every dispatched action applied; the committed one, which callbacks read through `stateRef` |
| `gen`, `inflight`, `replay` | `generationRef`, the request in flight, the patches that arrived while it was |
| `flights` | requests the network will answer, with what was asked and in whose name |
| `store`, `age` | the snapshots of the partition and their order of use |
| `version`, `toggle`, `published` | the bookmark of each item at Pixiv, its call in progress; history: the last published patch of each item that no later answer has contradicted |

`LoadMore`, `Refresh`, `Retry`, `Checkpoint`, `Navigate`, `ShowExternal` are what a user does, `Commit`,
`IdentityCommit`, `Mount`, `Unmount`, `ClaimScope`, `ReleaseScope` what React and the tab do, `Reply`,
`Receive`, `ServerToggle`, `Publish`, `LosePatch` what the network and the cards do, `Lapse` the expiry of a
snapshot. `Receive` is the whole of the continuation after an await: staleness check, replay of patches,
dispatch and the next page of a batch.

What the server answers. Pages of searches, the feed and the bookmarks carry `is_bookmarked` and come from a
Redis cache for 300 s (`services/cache.py:114`, `plugins/builtin/pixiv/_browse.py:444-465, 994-1033,
1205-1227`). A toggle drops those of the bookmarks only, after Pixiv has answered and on a best-effort basis,
and a page that was fetched before may be written after it (`_browse.py:1064-1106`). `Reply` therefore answers a
page as of any earlier version of each item (`Earlier`). That has more behaviours than the code: the cache
expires, and the items of one page are of one time. A request carries, as history, what was published when it
was sent (`known`), and an answer that is older than that withdraws its items from `published` (`Outdated`): the
user sees the old bookmark again, which the code does. A toggle may ask for what is so already, when the card
showed such an answer; then the version stays as it is.

An E-Hentai image lookup has results that cannot be fetched again; `ShowExternal` shows them, and
`Navigate` and `Init` enter them again by browser history or a reload (`useEhBrowse.ts:63-70, 528-543`).

Items are a set per page; their order, the scroll anchor and the
page jump are left out. `Saves` lets a write be refused whenever `Tight`, and then evicts as the store
does. Pixiv changes identity in a React transition, so what is pending commits first; the other pages may
commit both together (`Batched`).

## TabScope

State: the id in each document's sessionStorage (`stored`), its phase, the id it contends for or owns, its
contender id, whether a probe found somebody (`collision`), the messages under way (`mail`), and, as
history, who heard whom contend and stayed (`beaten`). `Acquire`, `Release`, `Duplicate` are the hook, the
back-forward cache and the browser's copy of a tab; `Claim`, `Yield`, `RotateAgain` end a probe; `Deliver`
is the listener, one case per branch. A message reaches the channels open when it was posted, once each,
in any order and as late as one likes; a probe does not wait for it. New ids are ids nothing mentions any
more, as `randomUUID` gives. A browser without BroadcastChannel or storage is left out.

## ReaderPrefetch

| State | Code |
| --- | --- |
| `proxy`, `mounted`, `currentPage`, `listing` | `isProxyMode`; not `unmountedRef`; `currentPageRef`; `imagesRef`, of which only matters whether a page is listed and has a URL |
| `active`, `fresh`, `count`, `prefetched` | `activeImagesRef` and `inflightPagesRef`, which have the same pages; those whose captured epoch is the current one; `inflightCountRef`; `prefetchedRef` |
| `at`, `again`, `pixels`, `kept` | `startPrefetchWindow` while it runs: the step of its loop, passes still due in the commit, its sum of pixels, whether it kept a page |
| `passedOver`, `masked` | history: pages that timed out in their chain since the last page turn; the list has changed under one `prefetchableKey` and nothing has gone over it since |

| Actions | Code |
| --- | --- |
| `Render` | a commit with another page or another list: the effect of the page (epoch, `cleanupImagesOutsideWindow`, a pass) and the effect of `prefetchableKey` (a pass) |
| `PassStep` | one page of the loop of `startPrefetchWindow`: `ProxyStep` starts a chain, `LocalStep` a page within the budget, `SkipStep` passes over one that does not count |
| `Settle`, `TimeOut` | `onload` and `onerror` of a request; its timer, in a proxied gallery only: `GoOn` continues the chain, `TopUp` goes over the window again |
| `Close` | the cleanup of the unmount, which clears what is in flight and leaves the count |

`Starts` is `prefetchPage`: the hop over covered pages, the cap, the page without a URL. Nothing else happens
while a pass runs (`at # 0`), because React runs the effects of a commit and the browser a handler to the
end; the loop is cut into steps so that the invariant can speak of a pass that is half done. An epoch is
only compared, so `fresh` keeps the comparison. A list is in page order, and that of a proxied gallery has
every page with a URL, as `app/e-hentai/read/[gid]/[token]/page.tsx` builds it; that of a stored gallery lacks
pages that are hidden or not downloaded yet. The width of a page is a number of pixels, known or
estimated. Left out: a gallery that stops being proxied while it is open.

## Runs

Every run is a small instance on which the case its property is about does happen; each property is
broken by at least one plausible bug in the code it covers (`mutants` in `PROJECT.json`). All runs but
`subscription` turn deadlock checking off: a job that has settled, with nobody asking anything of it, is
a legitimate end, and so is a list at rest. A group is always due again.

| Run | Checks | Instance |
| --- | --- | --- |
| `admission_handlers` | `AdmissionInv`, `StaleReleaseHarmless` | 1 row, 2 coroutines, 3 tokens, 1 request with every operation, 1 retry, 2 redeliveries, 2 faults |
| `admission_pause` | `ExecutionInv`, `OneExecution`, `ExecutionsWithinCapacity` | 2 rows on one key of concurrency 0, 2 coroutines, pause and resume by one request, no faults |
| `admission_queue` | `FifoInv`, `LeavesQueue`, `LeavesQueueDespiteFaults`, `FifoAdmission`, `ImplementsPool` | 2 rows on one key of concurrency 0; either 2 coroutines without faults, cron and recovery (`ChainSpec`), or 1 coroutine and 1 fault of any kind |
| `lifecycle_repair` | `LifecycleInv`, `HistoryKept` | repair of a gallery with one page, early metadata, pause, resume, 2 pages, 1 retry, 1 fault |
| `lifecycle_end` | `OutcomeInv`, `HistoryKept`, `OneKeeper`, `CancelXorKeep`, `GallerySettled`, `DiscardsOnlyCancelled`, `StopServed` | `FairSpec`, download into a gallery with one page, cancel and stop, 3 pages, no retry, 2 faults |
| `subscription` | `SubscriptionInv`, `PauseHolds`, `NothingPassedOver`, `EventuallyQueued` | `FairSpec`, one group and one single check, 2 works of which one is paid, 1 fault |
| `browse` | the invariants of `BrowseSession`, `TabScope` and `ReaderPrefetch`, `EventuallySettled` | either one tab on any of the three pages, from the first list on, 3 lists of up to 3 items, pages of one, 2 snapshots, 3 steps, toggles of one bookmarked and one other item; or 2 documents, 4 ids, 4 claims; or a Reader, proxied or stored, with 6 pages of which one is a video and one too large, 2 slots, a window of 2 ahead and 1 behind, 5 lists, 2 commits |
| `admission_token`, `lifecycle_cancel_late`, `lifecycle_spurious`, `lifecycle_resume`, `browse_restore` | one statement of a comment each, violated | the smallest instance that shows it |

Why these bounds are enough. Admission: the conflicts are between two claims of one key, so two rows and two
coroutines meet in every way; a third token is needed for a stale execution whose row has been requeued,
claimed, requeued and claimed again. Concurrency 0 is the boundary of `max(1, ...)`. Two faults are a crash
during the recovery of a crash, or a lost delivery before one. Life cycle: one page that was there and one that
was added tell history from work; a third lets a run add one and replace the other. In `lifecycle_repair` one
retry and one fault give a second attempt something to attach to, and pauses meet each fault alone; in
`lifecycle_end` two faults combine a timeout with a lost hand-off, a lost flag with a failed read, and a crash
with a recovery that fails, whose policy gives the second attempt. What two attempts without a fault in between
do to `CancelXorKeep` and `GallerySettled` is not in a run: `OutcomeCorrect` has any number of retries.
Subscription: two works make a batch of which one conflicts, a boundary with something before and after it, and
a boundary that is taken down; a group check and a single check overlap in every way, and the theorems have any
number of each. Browse: three lists are one that is left, one that is entered and one that evicts, with one of
them ephemeral and one that shifts under its offsets; pages of one item make every append a boundary; three
steps are an identity change under a request and a toggle. Tabs: two documents conflict for one id; the third
and fourth id are for rotations, and the theorem has any number. Reader: two slots are a slot and another's; two
commits are a page turned and turned back, or a turn and a refresh; the video is behind the window and the large
page in it, so that both are hopped over and cut; of the five lists two have one key. Rows, coroutines, tokens
and requests are symmetric where only safety is checked; the liveness runs use no symmetry, and `LeavesQueue` is
stated for one row, which stands for each as rows are interchangeable.

What the runs do not say. `HistoryKept` does not say that a cancelled run leaves the gallery as it found it:
where it had replaced pages, their old versions stay marked replaced and their new ones are removed.
`NeverOlder` does not say that a bookmark stays on screen: a refresh may bring a cached page of before.
`FifoAdmission` is checked without user requests, and proved where nobody but the reaper and pauses touch a row
(`NoStaleRequeue`): a retry or resume with an old snapshot puts a running row back into the queue, and two of
them together with a pause let a claim count the row before its release and take the token past it. Nothing but
the order is lost then. `DiscardsOnlyCancelled` is checked without pause and with two faults, and proved for
those; three together (the flag is lost and both reads of the intent fail) make the code take a stop for a
cancel, and with pauses a stop that is paused and resumed can race its finalizer so that a kept page is thrown
away, a consequence of `lifecycle_resume`. `CancelXorKeep` and `GallerySettled` speak of behaviours without
faults: a lookup that fails, or a coroutine cut by the SAQ timeout, leaves a gallery for a later recovery.
`GallerySettled` is checked for plugins without early metadata: with it an abort that restores "downloading", or
an E-Hentai run that ends partial with no page counted (`services/eh_downloader.py:294-299`), leaves a gallery
downloading until the next restart settles it. `StopServed` is checked without pause, and excepts a token that
two faults leak: after a timeout whose release fails, or a crash after which the recovery does not return it, a
stop waits for the next restart. `OneKeeper` is checked without pause: a resume older than the finalizer's claim
revives the job while it is kept. It also lets the tasks that a fault left behind write beside the finalizer,
since nothing stops them. `DiscardsOnlyCancelled` is checked, and proved, for a gallery that held pages before:
with none and a fault, a keep path that imported nothing deletes the gallery it thinks empty, with a page that
such a task has imported meanwhile. `OneExecution` and `ExecutionsWithinCapacity` are checked without faults and
proved for the rows and faults that `NoTheft` names. A row has a second execution when the cron retries it while
the first still runs, after something else had failed the row behind it, or when a user retry with an old
snapshot does the same. `NothingPassedOver` and `EventuallyQueued` except works that a listing did not see (a
page it could not read, paid works without a session): the code moves the boundary past those. No property says
that the boundary only grows, because it does not: a check with an old snapshot and an empty listing writes the
old boundary back, and works that have ended are queued again. `NeverOlder` speaks of published changes, too:
one made before the scope is claimed is dropped. `SharedOnlyUntilTold` and `EventuallySettled` except two
documents whose probes overlapped and of which the earlier one stayed: the later one opened its channel after
the earlier one's message, is not answered by a document that owns nothing yet, and both keep the id, although
`lib/browse/tabScope.ts:185` promises one winner. `NotStalled` excepts a page that timed out in its chain (the
next page turn tries it again) and a list that changed under one `prefetchableKey`, of a stored gallery; it
speaks of the first page of the window there, since the budget may cut the others. `SlotsCounted` ends with the
unmount, where the code leaves the count as it is and nothing reads it again.

## Findings

Five comments of the code promise more than the code does, and a run shows each with a shortest trace.

| Run | The comment | What happens |
| --- | --- | --- |
| `admission_token` | `worker/retry.py:119`: a live execution's token "remains authoritative until an actual worker restart/recovery clears it" | `retry_job` writes `admission_token = None` from a snapshot older than the cron's retry and the claim that followed it |
| `lifecycle_cancel_late` | `worker/download.py:116`: "DB `cancelled` always wins over a completed download" | a cancel that commits after the last check is overwritten by the unconditional status write |
| `lifecycle_spurious` | `worker/progressive.py:1317`: cleanup is "Called on user-initiated cancel" | plugins report cancelled on a lost token, an HTML flood or a cancelled task, and the pages are deleted |
| `lifecycle_resume` | `worker/download_stop.py:104`: everyone sees "a terminal job" | a pause or resume with an older snapshot commits over done |
| `browse_restore` | `useLibraryBrowseSession.ts:148-151`: a job event "is news only to a session that was already live" | an event that commits together with a filter change refreshes the list that is left under the identity that is entered, and the new list stays loading |

Ten more disagreements are in the models and constrain what the runs check, without a run of their own:

- `worker/retry.py:145` calls a queued row stale only without a live SAQ entry, but the reaper looks up
  only `compute_job_key`; a row that waited lives under a `dispatch:` key and gets one more chain per
  cron tick (`RestoreTransport`). Duplicates are harmless, as the admission runs show.
- `worker/download.py:535` says a stop always ends done; a preflight failure or a verdict already
  decided writes failed or partial over it (`PreflightFails`, `SetStatus`). The cron does not retry
  it, and `StopServed` accepts any end.
- `worker/download.py:1053` puts the stop ahead of the pause gate; only a stop seen when the row was
  loaded is. A later one meets the gate (`Gate`), the job is parked, nothing hands it over, and only a
  resume or a restart ends it. With `Pausing = TRUE`, `StopServed` fails.
- `worker/progressive.py:1273` says abort settles the gallery; the snapshot it restores may itself say
  downloading (`Aborted`), after an attempt with early metadata that ended at the pause gate.
- `worker/progressive.py:1409-1412` says that the rollback of a cancelled run restores the gallery and that its
  prior images survive. A page that the run had replaced is not restored (`Cleaned`): its row stays marked
  replaced, the new version is deleted, and the page is gone from the gallery. No later run brings it
  back: the next importer takes the replaced row for the state of the source item, skips the file if its hash is
  that of the row, and otherwise inserts it under the row's negative page number, which conflicts.
- `worker/download.py:683-691` releases the token as the fence of the execution; after a SAQ timeout its import
  tasks and the gallery-dl reader are still running and import beside whoever comes next (`StrayImports`).
- A bookmark is undone on screen by a refresh within five minutes: the toggle drops the cached pages of the
  bookmarks only (`plugins/builtin/pixiv/_browse.py:1079-1083`), not those of searches and of the feed, which
  `usePixivBrowseSession.ts:321-337` asks for.
- `plugins/models.py:74` says a listing without a newest work keeps the previous boundary; it writes the
  boundary the check loaded before it had the lock (`Advance`), which may be an older one.
- `lib/browse/tabScope.ts:185` promises one winner of two simultaneous contenders; see above (`Overlapped`).
- `components/Reader/hooks.ts:209` says that `prefetchableKey` changes when the set of prefetchable pages
  does. It has a symbol per listed page and no page number: a refresh that hides one page and brings
  another between the same neighbours leaves it as it is, and the new next page is asked for only after a page turn
  or a request that ends (`masked`). Without that exception TLC finds `NotStalled` violated.

## Fairness

Users and faults have none: nobody is obliged to cancel, resume or crash. Assumed are:

- `DeliveryFairness`: a coroutine that took a delivery goes on (the event loop runs it, and the
  inactivity watchdog, the 24-hour pause key and the SAQ timeout end a run); a request that inserted a
  row goes on to enqueue it; a dead container is restarted and recovers. `Enter` has strong fairness
  per row, since a delivery waits for a free coroutine and for an advisory lock that others take in
  turn, and both SAQ and PostgreSQL serve in arrival order.
- `ReaperFairness`: the cron runs every fifteen minutes. The first part of `admission_queue` does without it, to
  show that the redelivery chain and the wake-up need no repair while nothing fails.
- `FairSpec` of `DownloadLifecycle`: admission claims a queued row, the execution goes on, the plugin returns, a
  request in progress finishes, SAQ delivers the finalizer, the cron hands over a stopped row that nobody owns,
  recovery proceeds. Importing a page has no fairness: a run may import nothing, and tasks left behind may do
  nothing for ever.
- `FairSpec` of `SubscriptionCheck`: the scheduler runs every minute and goes on after a claim, a check that
  was started goes on, the dead worker is restarted, the lock expires. `StartGroup` has strong fairness,
  since a delivery waits for a free coroutine. Publishing, pausing and the end of a download have none.
- `Progress` of `BrowseSession`, `Protocol` of `TabScope` and `ReaderProgress`: React commits, the network
  answers or fails, a timer fires, a message is delivered, a pass that runs goes on. Users, job events and the
  browser's page cache have none.

## Proofs

The inductive invariants of admission, lifecycle, subscriptions, tabs and the prefetcher, and `ListInv` of the
browse session, are also invariants of a run, so that TLC and TLAPS speak of the same formula; `BrowseInv` is
stated with its proof in `BrowseSession_proofs`.

### DownloadAdmission_proofs

For every finite set of rows, and any keys, coroutines, tokens, requests and bounds:

| Theorem | Statement |
| --- | --- |
| `AdmissionCorrect` | `Spec => []AdmissionInv` |
| `TypeCorrect`, `CapacityHolds`, `TokensAreFences` | its parts `TypeOK`, `CapacityRespected`, `TokensDistinct` |
| `AdmissionImplementsPool` | `Spec => ImplementsPool`: the claim protocol refines the pool of permits |
| `ReleaseHarmless` | `Spec => StaleReleaseHarmless` |

Assumptions: `KeysAssumption` (every row has a key), `ConcurrencyAssumption` (a concurrency is any
integer, also zero or negative), `FiniteAssumption` (finitely many rows), `NoneAssumption` (NULL is
not a value), `BoundsAssumption` (the bounds are natural numbers). TLC evaluates them in every run.

The argument. `CapacityRespected` is not inductive: `TakeToken` writes a token two statements after the
holders were counted. What makes it safe is that between them nobody else can take a token of that
key. So the invariant carries what the claim relies on: a claiming coroutine holds the lock of its key
and a row that still waits (`ClaimInv`), hence there is one claim per key (`ClaimExclusive`); what it
counted can only have shrunk, and its position fits in what was left (`CountInv`); a busy coroutine has
a row and an execution a token (`WorkInv`); nothing executes while the worker is down (`DownInv`,
because recovery clears tokens without looking at locks); a handler that is past its enqueue is a
retry or a resume (`RequestInv`, for what it may write). `TakeTokenGrants` turns that into one more
permit below the limit, which is both the step of the invariant and the only step of the refinement
that is not a withdrawal. `QuietStep` covers all actions that take no token. `ReleaseHarmless` follows
from `TokensDistinct` and a case split on who clears a token.

### DownloadExecution_proofs

For the same rows, keys, coroutines and requests:

| Theorem | Statement |
| --- | --- |
| `ExecutionCorrect` | `Spec => []ExecutionInv` |
| `ExecutionsAreAlone`, `ExecutionsAreBounded` | `NoTheft` implies `Spec => []OneExecution` and `Spec => []ExecutionsWithinCapacity` |
| `PositionsHold` | `Spec => []FifoInv` |
| `AdmissionIsFifo` | `NoStaleRequeue` implies `Spec => FifoAdmission` |

`NoTheft` is a condition on the bounds: no row is retried (`MaxRetries = 0`), with every operation and any
number of faults; or rows are retried by the cron and paused and resumed by the user, and nothing fails. A
user retry is outside: it clears the token from an old snapshot, as `admission_token` shows.

The argument for executions. `TokensAreFences` says that two coroutines never have one token; so two
executions of a row need a token that was taken from the first. `FenceInv` says that the row of an admitted
execution carries its token or was deleted. Its hard steps are those that write a token from a snapshot or
without one: a requeue, a resume and the recovery. `MildRequests` says that no request in progress is of the
kind that would, and where the cron retries, that no row failed behind its execution. A deleted row is never
admitted again. So the executions of one source map one to one to the rows of it that hold a token,
and `CapacityRespected` bounds those; the rows that the user has cleared are the exception that the
property makes.

The argument for the order. The position is read when the claim begins and used two statements later.
Between them, rows join the queue behind it (`NewTicket`), and no row comes to wait ahead of it,
because a row in the queue has no token: its release, which would make it wait, is over. `PositionInv` is that,
and with `CountInv` (the holders counted can only have shrunk) the claim grants what it may.

### DownloadLifecycle_proofs

For every mode, with and without early metadata, spurious reports and pause, for any number of pages,
retries and faults:

| Theorem | Statement |
| --- | --- |
| `LifecycleCorrect` | `Spec => []LifecycleInv`: types, and the parts below |
| `HistoryIsKept` | `~Spurious` and `MaxFaults <= 2` imply `Spec => []HistoryKept`: no stop, failure or restart takes a page that the gallery held before the job, and a cancel leaves its row, active or marked replaced |
| `KeeperIsAlone` | `Spec => []OneKeeper` where nobody pauses (`ASSUME ~Pausing`) |

Assumptions: `ModeAssumption`, `FlagAssumption` (the flags are Boolean) and `PagesAssumption` (the
bounds are natural numbers, and the gallery holds at most `MaxPages` pages to begin with).

The argument. `HistoryKept` is not inductive, because `Cleanup` sets the pages to what is left of those that
were found long before. `SnapshotInv` says what that may be: the pages an execution still holds and those marked
replaced are never fewer than the gallery held before the job, and an execution that has a gallery without a
snapshot made it, so there was none. That holds for every plugin and any number of faults (`RowsKept`). The
second part of `HistoryKept`, that without a cancel every page stays active, needs that nobody else sends a run
to `Cleanup`: `DiscardInv`, below, and with it the two assumptions. `ImportInv` is for the counts: what a run
holds and added is in the gallery, whatever others import beside it. `RetryInv` bounds the retries;
`max_retries` does not, since startup recovery increments `retry_count` without looking at it: once for a row
that it found running, and once more if the same row is paused when the recovery comes to the paused ones, so a
restart costs up to two. `OneKeeper` rests on two facts. While a row is executed it is owned and neither failed
nor partial (`OwnerInv`), so no retry, reaper or recovery takes it, and `finalize_stopped_job` claims only a row
without an owner. The tasks of an execution are not fenced by the token; that they outlive it only after a fault
is in `EndInv`. While it is kept, a stop is recorded, nobody owns it, nobody holds its row lock and it is done
or failed (`KeeperInv`), so that no claim finds it queued. Only a resume whose snapshot is older can break the
second fact, and does (`lifecycle_resume`), hence `~Pausing`. The steps are split by what they can disturb: the
Boolean flags, the execution record, the numbers, the control state and the gallery each have a lemma over
`Next`.

How a job ends is proved on top of that, in the same module and for the same constants:

| Theorem | Statement |
| --- | --- |
| `OutcomeCorrect` | `Spec => []OutcomeInv` |
| `CancelExcludesKeep` | `~Pausing` implies `Spec => []CancelXorKeep` |
| `GalleryIsSettled` | `~EarlyMetadata` implies `Spec => []GallerySettled`, with pauses too |
| `OnlyCancelDiscards` | `~Spurious`, `MaxFaults <= 2`, and `Held > 0` or neither faults nor pauses imply `Spec => DiscardsOnlyCancelled` |

TLC finds a counterexample without any one of these conditions; those of `OnlyCancelDiscards` and
`GalleryIsSettled` are described above. With pauses, a resume that is older than the end of the job puts it
back, and a second execution with a base of its own cancels what the first has kept.

The argument. A run is rolled back at the end of a long chain: a plugin stopped, the flag was read, the database
was asked, perhaps twice. `IntentInv` says that there is a recorded stop behind every flag that says stop, every
execution that saw it and everybody who keeps a gallery. `DiscardInv` follows what is known along the chain: a
plugin that reports cancelled without a cancel met a stop whose flag was lost, which is one fault; it is taken
for cancelled only if both reads of the intent then fail, which are two more. So with two faults `Cleanup` has a
cancel behind it. `TallyInv` says that, where no task was left behind, the pages of the gallery are those the
execution still holds and those it added, until it rolls back or hands over; `EndInv` carries that through the
status write to the release: what the job says is what became of the pages, and a job that can still be
cancelled after its execution has none to lose. The latter is the point of `CancelExcludesKeep`: a late cancel
is overwritten by a run that kept its pages (`lifecycle_cancel_late`), never the other way round. `SettledInv`
says that a gallery is downloading only while an execution that was handed a file for it has not ended, and that
no snapshot that could be restored says so.

### SubscriptionCheck_proofs

For any coroutines, works, deliveries and faults:

| Theorem | Statement |
| --- | --- |
| `SubscriptionSafe` | `Spec => [](SubscriptionInv /\ NothingPassedOver /\ PauseHolds)` |
| `ChecksExclude`, `NoWorkPassedOver`, `PauseIsKept` | its parts, by name |

Assumption: `SubscriptionAssumption` (the bounds are natural numbers; no coroutine is called `None` or
"orphan").

The argument. `NothingPassedOver` is not inductive: `Advance` writes a boundary that was listed several
steps before, or loaded before that. `Safe` says of every coroutine that what it loaded is covered, that
what it listed is covered or still among the works it will queue, and that all of it is covered once its
rows are committed. Coverage never shrinks (`KeptStep`): rows are not forgotten, works that are removed or
passed over stay so. So a snapshot may be old, but it is covered, and a check does not need the lock to be
safe; the lock is for what it queues (`LockHeld`). `ListSafe` is the step that matters: what is newer than
the boundary is in the listing or passed over, and if the boundary was taken down the listing is
everything. `CheckSafe` lifts one changed coroutine to all.

### BrowseSession_proofs

For any lists, items, page size, snapshot quota and number of steps, and any of the three pages:

| Theorem | Statement |
| --- | --- |
| `BrowseCorrect` | `Spec => [](BrowseInv /\ BrowseTypeOK)` |
| `ItemsAreOwn`, `ItemsAreDistinct`, `EphemeralIsNeverFetched` | `OwnItems`, `NoDuplicates`, `EphemeralNeverFetched` always hold |
| `LoadingIsServed` | `~Batched` implies `Spec => []LoadingIsAnswered` |

Assumptions: `ListsAssumption` (finite lists and items), `RankAssumption` (a list ranks items with natural
numbers), `BoundsAssumption` (pages have an item, bounds are natural numbers). `LoadingIsServed` also assumes
that no job event commits together with an identity change, as `browse_restore` shows what happens where one
does.

The argument. The two reducer states are those of the last committed list, own and without repetition
(`BufferInv`). A request is taken by its generation, not by its list; so what makes its answer right is that
a request of the current generation is for the committed list, even if a job event sent it in the name of
the list that was left (`FlightInv`). A snapshot holds what the buffer of its own list held (`StoreOK`), so a
restore cannot mix lists. A list that cannot be fetched again says that it has no more, in its
snapshot and in the buffer restored from it (`EphemeralInv`): that is what keeps every handler from asking.
`LoadInv` says that whatever is loading waits for a request of the current generation that was not aborted; a list that
does not load by itself gives it up when the user leaves it, hence its exception.

### BrowseBuffer_proofs

Under the same assumptions, for any of the three pages and with job events that commit together with an
identity change:

| Theorem | Statement |
| --- | --- |
| `ListCorrect` | `Spec => []ListInv` |
| `BufferHasNoGaps` | `Spec => []NoGaps` |
| `ChangesAreNotUndone` | `Spec => []NeverOlder`, whatever earlier versions the server answers with |

The argument. Both rest on `RequestInv`: of all requests the network still answers at most one was not aborted,
it is of the current generation, the reducer is loading for it, and it is answered only after the commit that
started it, so that the callbacks already see a list that is loading when the buffer changes. Hence `TiledInv`:
a buffer that is not loading has as many pages in the committed state as in the dispatched one, and the cursor
that `loadMore` or `retry` reads from the committed state is still the end of the buffer the answer is appended
to. A failed append remembers that cursor, a snapshot keeps it with its pages, and a refresh collects its pages
from offset 0. `FreshInv` says where an item may still be older than a published change: in an answer to a
request that was sent before the change and therefore remembers its patch, which is replayed onto it (for every
item, either what the request knew is still what is published, or `replay` has it, in which case an older answer
withdraws nothing); in an answer to a request sent after it, which `Outdated` takes out of `published` when it
arrives; and in the snapshot of the mounted list, which a checkpoint may take of a state that was committed
before the patch. That snapshot is written again when the list is left, since what is pending commits first
(`Transition`). The lists that do not commit first (Library and E-Hentai) publish no bookmark, and that is part
of the invariant, because the argument fails for them: a page of that kind which published changes would have to
save the dispatched state.

### TabScope_proofs

| Theorem | Statement |
| --- | --- |
| `TabsCorrect` | `TabSpec => []TabInv`, for any documents, ids and messages in any order |
| `TabsSeparate` | `TabSpec => []SharedOnlyUntilTold` |

Assumption: `TabAssumption` (ids and contender ids are integers, 0 and `NoTab` are none of them). The argument:
phases and contender ids fit together (`ChannelInv`: a closed document has contender id 0 and no candidate,
an open one has an id of its own, and only a probe in progress knows of a collision), and of every two
documents with one id, one knows of the collision, or is about to be told, or heard the other contend and
stayed (`SeparateInv`); each action is a lemma.

### ReaderPrefetch_proofs

For any number of pages, slots, widths of the window, budget, sizes of pages, videos and lists, proxied or stored:

| Theorem | Statement |
| --- | --- |
| `ReaderCorrect` | `ReaderSpec => []ReaderInv` |
| `SlotsAreCounted`, `PagesAreFetchedOnce`, `RequestsAreInReach`, `PrefetchDoesNotStall` | its parts `SlotsCounted`, `FetchedOnce`, `InReach`, `NotStalled` |

Assumption: `PrefetchAssumption` (the numbers are natural, there is a slot and a page ahead). The argument:
`NotStalled` is about a moment when nothing is in flight, and what makes it true happened while something was.
For a stored gallery it is enough that the last request that ended went over the window with every slot free
(`PassInv`: the first page of the window that counts is asked for whatever the budget, and `kept` is whether
that was reached). For a proxied one no pass comes at the end: the last chain stops behind the last page. So
`ChainInv` says that between the page shown and a chain started for it nothing is left out. As first written,
with covered pages only, it did not hold, and TLC gave the counterexample: a request from before the page turn
times out behind which a chain has gone on; it re-enters at the current page, and what it starts there is not
its own page but an earlier one that had timed out in its chain, so its own page is not covered and a chain is
past it. `Due` is the repair: a page is covered, or a chain is still before it. When nothing is in flight no
chain is before anything, and `Due` is `Covered`. That `prefetchPage` starts the first page of the chain that
can be started, or none can, needs a least number, which `LeastNatural` gets from the well-foundedness of the
natural numbers.

### Only model-checked

All liveness: `StopServed`, `LeavesQueue`, `LeavesQueueDespiteFaults`, `EventuallyQueued`,
`EventuallySettled`. Every invariant and every action property of a passing run is stated by a theorem. Liveness
under fairness, and `ENABLED`, are out of the prover's reach and stay with TLC, as would induction over data
with an operator as its parameter or a RECURSIVE operator; these modules have neither.

## What is not modelled

`PROJECT.json` gives the reason for each component. In short: the personas, the content store, the importers,
the watcher, duplicate detection and rate limiting have protocols of their own that no module covers; the
progress save, live updates and the share queue of the PWA have timers and no model; translations, pages and
components, request-scoped CRUD, events, monitoring, authentication and deployment have no state machine worth a
model, and they are most of the lines of the repository. Of the modelled components, what is left out is listed
above under "Approximations".

What is hard to test there, and no property speaks of:

| Where (`src/backend`, `src/pwa/src`) | What can go wrong |
| --- | --- |
| `services/egress_persona.py:171` | the stored key is read before the claim locks the row: a requeue in between claims under the other key |
| `worker/import_recovery.py:24` | recovery replays an import whose queue entry survived; only the SAQ job id keeps it from running twice |
| `worker/dedup_helpers.py:303` | a signal is consumed by whichever poll comes first: a resume sent before the scan has paused is lost |
| `core/watcher.py:152` | paused events are replayed with new timers, and may overtake what came later |
| `worker/retry.py:205` | the cron retries up to ten rows in one transaction; one unique violation rolls all back |
| `worker/download.py:250` | archive jobs of one subscription move its boundary in the order in which they finish |
| `worker/subscription_group.py:101` | a claimed group whose delivery is lost stays running until the worker restarts |
| `components/Reader/hooks.ts:633` | a save that fails after the page has turned arms a retry, which overwrites the newer page |
| `lib/requestCoalescer.ts:19` | a refresh asked for while one is in flight is remembered and made up for after the interval; a `run` that a timer starts finds another in flight |
| `hooks/useGalleries.ts:300` | batches of tokens asked for by page turns and seeks, answered in any order |
| `services/thumbnail_lifecycle.py:114` | an import adds a reference to a blob between the count and the removal of its thumbnail directory |
| `services/image_purge.py:158` | the purge unlinks the bytes after its commit: an import that inserts the row again in between finds the file there, links nothing, and keeps a row without bytes |
| `worker/reconciliation.py:542` | the age that spares files of an import in flight is the `mtime` a hard link or `copy2` took over from the download, which may be years old |
| `lib/ws.tsx:148` | events sent while the socket is down are lost, and of two in one batch only the last is kept |

What would come next: two jobs on one gallery (`DownloadLifecycle` with a shared gallery and snapshots of
each other's work); the archive sources of subscriptions, whose boundary is moved by jobs that finish in any
order; the reference counts of the content store against purge and reconciliation; the persona lanes as a
second lock of the claim, refining `AdmissionPool` on both keys.
