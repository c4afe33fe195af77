------------------------- MODULE DownloadAdmission -------------------------
(***************************************************************************)
(* Durable FIFO admission of download jobs.                                *)
(*                                                                         *)
(* A download is a row of download_jobs.  PostgreSQL owns the order and    *)
(* the ownership of the work; a SAQ delivery is disposable: it may be      *)
(* lost, late or duplicated, and enters the pipeline only after claiming a *)
(* fenced token on the row (services/download_admission.py).  Around the   *)
(* claim stand the worker wrapper that confirms, runs, releases and wakes  *)
(* (worker/download.py), the API handlers that pause, resume, retry and    *)
(* cancel (routers/download.py), the cron reaper (worker/retry.py) and     *)
(* startup recovery (worker/__init__.py).                                  *)
(*                                                                         *)
(* Each database transaction is one step, or one step per statement when   *)
(* other transactions can commit between its statements (READ COMMITTED).  *)
(* An ORM handler is two steps, the read of its snapshot and the commit of *)
(* the columns it changed: nothing re-checks the row in between.           *)
(***************************************************************************)
EXTENDS Integers, FiniteSets

CONSTANTS
  Jobs,         \* rows of download_jobs
  Keys,         \* capacity buckets (admission_key)
  KeyOf,        \* [Jobs -> Keys]: the key resolve_admission_key gives a row
  Concurrency,  \* [Keys -> Int]: the configured concurrency of a key
  Slots,        \* coroutines of the interactive SAQ worker
  Tokens,       \* execution tokens (uuid4 values)
  Requests,     \* ORM handlers in flight: API requests and the cron reaper
  Ops,          \* the handlers that run, a subset of RequestOps
  Outcomes,     \* the statuses an execution may end with
  MaxRetries,   \* max_retries of a row
  MaxDispatch,  \* bound: live "dispatch:" deliveries of a row, more are dropped
  MaxFaults,    \* bound: crashes, lost deliveries, failed enqueues and releases
  None          \* SQL NULL

RequestOps == {"pause", "resume", "retry", "reap"}

ASSUME KeysAssumption == KeyOf \in [Jobs -> Keys]
ASSUME ConcurrencyAssumption == Concurrency \in [Keys -> Int]
ASSUME FiniteAssumption == IsFiniteSet(Jobs)
ASSUME NoneAssumption == None \notin Jobs /\ None \notin Tokens /\ None \notin Slots
ASSUME BoundsAssumption ==
  /\ Ops \subseteq RequestOps
  /\ Outcomes \subseteq {"done", "failed", "partial", "cancelled"}
  /\ MaxRetries \in Nat
  /\ MaxDispatch \in Nat \ {0}
  /\ MaxFaults \in Nat

VARIABLES
  status,    \* [Jobs -> Status]
  token,     \* [Jobs -> Tokens or None]: admission_token
  ahead,     \* [Jobs -> SUBSET Jobs]: the rows whose admission_ticket is smaller
  retries,   \* [Jobs -> Nat]: retry_count
  pauseKey,  \* [Jobs -> BOOLEAN]: Redis download:pause:{id}
  canonical, \* [Jobs -> BOOLEAN]: a live SAQ entry under compute_job_key
  dispatch,  \* [Jobs -> Nat]: live SAQ entries under a "dispatch:" key
  unsent,    \* rows inserted by a request that has not enqueued them yet
  slot,      \* [Slots -> SlotState]: what each worker coroutine is doing
  lock,      \* [Keys -> Slots or None]: holder of the advisory lock of a key
  req,       \* [Requests -> ReqState]: ORM handlers and their snapshots
  boot,      \* startup recovery: its phase and the rows it has read
  faults     \* faults so far

vars == <<status, token, ahead, retries, pauseKey, canonical, dispatch, unsent,
          slot, lock, req, boot, faults>>

Active   == {"queued", "running", "paused"}
Terminal == {"done", "failed", "partial", "cancelled"}
Status   == {"absent", "deleted"} \cup Active \cup Terminal

Executing == {"confirm", "gate", "pausing", "run", "release", "wake"}
Live      == {"gate", "pausing", "run"}
Claiming  == {"entered", "counted"}
SlotStep  == {"idle", "waiting"} \cup Claiming \cup Executing

SlotState == [step : SlotStep, job : Jobs \cup {None}, tok : Tokens \cup {None},
              pos : Nat, held : Nat]
IdleSlot  == [step |-> "idle", job |-> None, tok |-> None, pos |-> 0, held |-> 0]

ReqState == [step : {"idle", "read", "sent"}, op : RequestOps \cup {None},
             job : Jobs \cup {None}, status : Status, owned : BOOLEAN, count : Nat]
IdleReq  == [step |-> "idle", op |-> None, job |-> None,
             status |-> "absent", owned |-> FALSE, count |-> 0]

Phases == {"up", "running", "queued", "paused", "tokens"}
BootState == [phase : Phases, read : SUBSET Jobs, loaded : BOOLEAN]

TypeOK ==
  /\ status \in [Jobs -> Status]
  /\ token \in [Jobs -> Tokens \cup {None}]
  /\ ahead \in [Jobs -> SUBSET Jobs]
  /\ retries \in [Jobs -> Nat]
  /\ pauseKey \in [Jobs -> BOOLEAN]
  /\ canonical \in [Jobs -> BOOLEAN]
  /\ dispatch \in [Jobs -> 0..MaxDispatch]
  /\ unsent \subseteq Jobs
  /\ slot \in [Slots -> SlotState]
  /\ lock \in [Keys -> Slots \cup {None}]
  /\ req \in [Requests -> ReqState]
  /\ boot \in BootState
  /\ faults \in 0..MaxFaults

-----------------------------------------------------------------------------
(* The queries of the admission service. *)

\* max(1, int(max_count)): a key always has room for one execution.
Capacity(k) == IF Concurrency[k] < 1 THEN 1 ELSE Concurrency[k]

HoldersRunning(k) == {j \in Jobs : KeyOf[j] = k /\ token[j] # None /\ status[j] = "running"}
Holders(k) == {j \in Jobs : KeyOf[j] = k /\ token[j] # None}

Waiting(j) == status[j] = "queued" /\ token[j] = None

\* The waiting rows of the same key up to and including j, in ticket order.
UpTo(j) == {i \in ahead[j] \cup {j} : Waiting(i) /\ KeyOf[i] = KeyOf[j]}

\* The oldest waiting rows of a key: no waiting row of the key is ahead of them.
Oldest(k) == {j \in Jobs : Waiting(j) /\ KeyOf[j] = k /\ UpTo(j) = {j}}

\* The FIFO position of a row, counted before its claim reads the holders.
PositionExclusive(j) == Cardinality(UpTo(j) \ {j})
Position(j) == Cardinality(UpTo(j))

\* SELECT ... FOR UPDATE of a claim keeps every other writer off the row.
RowUnlocked(j) == FALSE
RowLocked(j) == \E w \in Slots : slot[w].step \in Claiming /\ slot[w].job = j

\* uuid4: a token nobody holds or remembers.
Fresh(t) == /\ \A j \in Jobs : token[j] # t
            /\ \A w \in Slots : slot[w].tok # t

-----------------------------------------------------------------------------
(* Effects shared by the handlers. *)

\* next_admission_ticket: the row goes behind every other row.
NewTicketInFront(j) == ahead' = [i \in Jobs |-> IF i = j THEN {} ELSE ahead[i] \cup {j}]
NewTicket(j) == ahead' = [i \in Jobs |-> IF i = j THEN Jobs \ {j} ELSE ahead[i] \ {j}]

OneMore(n) == IF n < MaxDispatch THEN n + 1 ELSE n

\* Enqueue under a fresh "dispatch:" key.
Dispatch(j) == /\ dispatch' = [dispatch EXCEPT ![j] = OneMore(@)]
               /\ UNCHANGED canonical

\* Enqueue under compute_job_key.  A live entry of the previous retry_count is
\* still a delivery, but no longer the one the reaper looks up.
SendRetry(S) ==
  /\ dispatch' = [j \in Jobs |-> IF j \in S /\ canonical[j] THEN OneMore(dispatch[j])
                                 ELSE dispatch[j]]
  /\ canonical' = [j \in Jobs |-> canonical[j] \/ j \in S]

Fault == faults < MaxFaults /\ faults' = faults + 1

Worker == boot.phase = "up"

-----------------------------------------------------------------------------
(* API: submit, clear, cancel (one conditional statement each). *)

Init ==
  /\ status = [j \in Jobs |-> "absent"]
  /\ token = [j \in Jobs |-> None]
  /\ ahead = [j \in Jobs |-> {}]
  /\ retries = [j \in Jobs |-> 0]
  /\ pauseKey = [j \in Jobs |-> FALSE]
  /\ canonical = [j \in Jobs |-> FALSE]
  /\ dispatch = [j \in Jobs |-> 0]
  /\ unsent = {}
  /\ slot = [w \in Slots |-> IdleSlot]
  /\ lock = [k \in Keys |-> None]
  /\ req = [r \in Requests |-> IdleReq]
  /\ boot = [phase |-> "up", read |-> {}, loaded |-> FALSE]
  /\ faults = 0

\* The row is committed before it is enqueued.
Submit(j) ==
  /\ status[j] = "absent"
  /\ status' = [status EXCEPT ![j] = "queued"]
  /\ NewTicket(j)
  /\ unsent' = unsent \cup {j}
  /\ UNCHANGED <<token, retries, pauseKey, canonical, dispatch, slot, lock, req, boot, faults>>

SendSubmitted(j) ==
  /\ j \in unsent
  /\ unsent' = unsent \ {j}
  /\ canonical' = [canonical EXCEPT ![j] = TRUE]
  /\ UNCHANGED <<status, token, ahead, retries, pauseKey, dispatch, slot, lock, req, boot, faults>>

\* The enqueue raised: the row is marked failed, whatever became of it.
SendSubmittedFails(j) ==
  /\ j \in unsent /\ ~RowLocked(j) /\ Fault
  /\ unsent' = unsent \ {j}
  /\ status' = IF status[j] = "deleted" THEN status ELSE [status EXCEPT ![j] = "failed"]
  /\ UNCHANGED <<token, ahead, retries, pauseKey, canonical, dispatch, slot, lock, req, boot>>

Cancel(j) ==
  /\ status[j] \in Active /\ ~RowLocked(j)
  /\ status' = [status EXCEPT ![j] = "cancelled"]
  /\ UNCHANGED <<token, ahead, retries, pauseKey, canonical, dispatch, unsent,
                 slot, lock, req, boot, faults>>

ClearFinished ==
  /\ \E j \in Jobs : status[j] \in Terminal
  /\ status' = [j \in Jobs |-> IF status[j] \in Terminal THEN "deleted" ELSE status[j]]
  /\ token' = [j \in Jobs |-> IF status[j] \in Terminal THEN None ELSE token[j]]
  /\ UNCHANGED <<ahead, retries, pauseKey, canonical, dispatch, unsent,
                 slot, lock, req, boot, faults>>

-----------------------------------------------------------------------------
(* ORM handlers: read a snapshot, enqueue where the handler does, commit. *)

Accepts(op, j) ==
  CASE op = "pause"  -> status[j] \in {"queued", "running"}
    [] op = "resume" -> status[j] \in {"queued", "paused"}
    [] op = "retry"  -> status[j] \in {"failed", "partial"} /\ retries[j] < MaxRetries
    [] op = "reap"   -> Worker /\ status[j] = "running" /\ token[j] = None

\* Redis is written between the read and the commit, hence seen before it.
ReadRow(r, op, j) ==
  /\ req[r].step = "idle" /\ op \in Ops
  /\ Accepts(op, j)
  /\ req' = [req EXCEPT ![r] = [step |-> "read", op |-> op, job |-> j,
                                status |-> status[j], owned |-> token[j] # None,
                                count |-> retries[j]]]
  /\ pauseKey' = CASE op = "pause"  -> [pauseKey EXCEPT ![j] = TRUE]
                   [] op = "resume" -> [pauseKey EXCEPT ![j] = FALSE]
                   [] OTHER         -> pauseKey
  /\ UNCHANGED <<status, token, ahead, retries, canonical, dispatch, unsent,
                 slot, lock, boot, faults>>

\* Resume of a token-less row and retry enqueue before they commit.
MustSendAny(q) == q.op \in {"retry", "resume"}
MustSend(q) == q.op = "retry" \/ (q.op = "resume" /\ ~q.owned)

Send(r) ==
  LET j == req[r].job IN
  /\ req[r].step = "read" /\ MustSend(req[r])
  /\ req' = [req EXCEPT ![r].step = "sent"]
  /\ IF req[r].op = "retry" THEN SendRetry({j}) ELSE Dispatch(j)
  /\ UNCHANGED <<status, token, ahead, retries, pauseKey, unsent, slot, lock, boot, faults>>

\* A handler that dies or whose enqueue fails commits nothing.
Abandon(r) ==
  /\ req[r].step # "idle" /\ Fault
  /\ req' = [req EXCEPT ![r] = IdleReq]
  /\ UNCHANGED <<status, token, ahead, retries, pauseKey, canonical, dispatch, unsent,
                 slot, lock, boot>>

\* The flush writes the columns that differ from the snapshot, and only those.
Written(q, s) == IF q.status = s THEN status
                 ELSE [status EXCEPT ![q.job] = s]

CommitPlain(r) ==
  LET q == req[r] IN
  /\ q.step = "read" /\ ~MustSend(q) /\ ~RowLocked(q.job)
  /\ IF status[q.job] = "deleted" THEN UNCHANGED status
     ELSE status' = Written(q, CASE q.op = "pause"  -> "paused"
                                 [] q.op = "resume" -> "running"
                                 [] q.op = "reap"   -> "failed")
  /\ req' = [req EXCEPT ![r] = IdleReq]
  /\ UNCHANGED <<token, ahead, retries, pauseKey, canonical, dispatch, unsent,
                 slot, lock, boot, faults>>

CommitRequeue(r) ==
  LET q == req[r]
      j == q.job IN
  /\ q.step = "sent" /\ ~RowLocked(j)
  /\ req' = [req EXCEPT ![r] = IdleReq]
  /\ IF status[j] = "deleted" THEN UNCHANGED <<status, token, ahead, retries>>
     ELSE /\ status' = Written(q, "queued")
          /\ token' = IF q.owned THEN [token EXCEPT ![j] = None] ELSE token
          /\ retries' = IF q.op = "retry" THEN [retries EXCEPT ![j] = q.count + 1] ELSE retries
          /\ NewTicket(j)
  /\ UNCHANGED <<pauseKey, canonical, dispatch, unsent, slot, lock, boot, faults>>

-----------------------------------------------------------------------------
(* The cron: automatic retry under a row lock, transport repair. *)

CronRetry(j) ==
  /\ Worker
  /\ status[j] \in {"failed", "partial"} /\ retries[j] < MaxRetries /\ ~RowLocked(j)
  /\ status' = [status EXCEPT ![j] = "queued"]
  /\ token' = [token EXCEPT ![j] = None]
  /\ retries' = [retries EXCEPT ![j] = @ + 1]
  /\ NewTicket(j)
  /\ SendRetry({j})
  /\ UNCHANGED <<pauseKey, unsent, slot, lock, req, boot, faults>>

\* The enqueue raised: the row stays failed, but its token and ticket are gone.
CronRetryFails(j) ==
  /\ Worker /\ Fault
  /\ status[j] \in {"failed", "partial"} /\ retries[j] < MaxRetries /\ ~RowLocked(j)
  /\ status' = [status EXCEPT ![j] = "failed"]
  /\ token' = [token EXCEPT ![j] = None]
  /\ NewTicket(j)
  /\ UNCHANGED <<retries, pauseKey, canonical, dispatch, unsent, slot, lock, req, boot>>

RestoreRetryable(j) ==
  /\ Worker
  /\ status[j] = "queued" /\ ~canonical[j] /\ retries[j] < MaxRetries
  /\ Dispatch(j)
  /\ UNCHANGED <<status, token, ahead, retries, pauseKey, unsent, slot, lock, req, boot, faults>>

\* A queued row whose compute_job_key has no live SAQ entry gets a new delivery.
RestoreTransport(j) ==
  /\ Worker
  /\ status[j] = "queued" /\ ~canonical[j]
  /\ Dispatch(j)
  /\ UNCHANGED <<status, token, ahead, retries, pauseKey, unsent, slot, lock, req, boot, faults>>

-----------------------------------------------------------------------------
(* A worker coroutine: deliver, claim, run, release, wake. *)

Deliverable(j) == canonical[j] \/ dispatch[j] > 0

Consume(j) == IF canonical[j]
              THEN canonical' = [canonical EXCEPT ![j] = FALSE] /\ UNCHANGED dispatch
              ELSE dispatch' = [dispatch EXCEPT ![j] = @ - 1] /\ UNCHANGED canonical

\* _enter_queue on a row that cannot claim: rolled back, the delivery is ignored.
Ignore(w, j) ==
  /\ Worker /\ slot[w].step = "idle" /\ Deliverable(j)
  /\ lock[KeyOf[j]] = None /\ ~RowLocked(j)
  /\ ~Waiting(j)
  /\ Consume(j)
  /\ UNCHANGED <<status, token, ahead, retries, pauseKey, unsent, slot, lock, req, boot, faults>>

\* _enter_queue: lock the key, lock the row, read its FIFO position.
Enter(w, j) ==
  /\ Worker /\ slot[w].step = "idle" /\ Deliverable(j)
  /\ lock[KeyOf[j]] = None /\ ~RowLocked(j)
  /\ Waiting(j)
  /\ Consume(j)
  /\ lock' = [lock EXCEPT ![KeyOf[j]] = w]
  /\ slot' = [slot EXCEPT ![w] = [IdleSlot EXCEPT !.step = "entered", !.job = j,
                                                  !.pos = Position(j)]]
  /\ UNCHANGED <<status, token, ahead, retries, pauseKey, unsent, req, boot, faults>>

\* claim: count the holders; a position beyond the free capacity commits and waits.
CountHolders(w) ==
  LET k    == KeyOf[slot[w].job]
      held == Cardinality(Holders(k)) IN
  /\ slot[w].step = "entered"
  /\ IF slot[w].pos <= Capacity(k) - held
     THEN /\ slot' = [slot EXCEPT ![w].step = "counted", ![w].held = held]
          /\ UNCHANGED lock
     ELSE /\ slot' = [slot EXCEPT ![w].step = "waiting", ![w].pos = 0]
          /\ lock' = [lock EXCEPT ![k] = None]
  /\ UNCHANGED <<status, token, ahead, retries, pauseKey, canonical, dispatch, unsent,
                 req, boot, faults>>

\* _take_token and commit.
TakeToken(w) ==
  LET j == slot[w].job IN
  /\ slot[w].step = "counted"
  /\ \E t \in Tokens :
       /\ Fresh(t)
       /\ token' = [token EXCEPT ![j] = t]
       /\ slot' = [slot EXCEPT ![w] = [IdleSlot EXCEPT !.step = "confirm", !.job = j, !.tok = t]]
  /\ status' = [status EXCEPT ![j] = "running"]
  /\ lock' = [lock EXCEPT ![KeyOf[j]] = None]
  /\ UNCHANGED <<ahead, retries, pauseKey, canonical, dispatch, unsent, req, boot, faults>>

DropDelivery(w) ==
  /\ slot[w].step = "waiting"
  /\ slot' = [slot EXCEPT ![w] = IdleSlot]
  /\ UNCHANGED <<status, token, ahead, retries, pauseKey, canonical, dispatch, unsent,
                 lock, req, boot, faults>>

\* A delivery that found no room schedules the next one before it ends.
Redeliver(w) ==
  /\ slot[w].step = "waiting"
  /\ Dispatch(slot[w].job)
  /\ slot' = [slot EXCEPT ![w] = IdleSlot]
  /\ UNCHANGED <<status, token, ahead, retries, pauseKey, unsent, lock, req, boot, faults>>

\* _set_job_status(running, required_current_status="running").
Confirm(w) ==
  /\ slot[w].step = "confirm"
  /\ slot' = [slot EXCEPT ![w].step = IF status[slot[w].job] = "running" THEN "gate" ELSE "release"]
  /\ UNCHANGED <<status, token, ahead, retries, pauseKey, canonical, dispatch, unsent,
                 lock, req, boot, faults>>

\* The pre-download pause gate reads Redis.
PauseGate(w) ==
  /\ slot[w].step = "gate"
  /\ slot' = [slot EXCEPT ![w].step = IF pauseKey[slot[w].job] THEN "pausing" ELSE "run"]
  /\ UNCHANGED <<status, token, ahead, retries, pauseKey, canonical, dispatch, unsent,
                 lock, req, boot, faults>>

\* _set_job_status without a required status: it overwrites whatever is there.
SetStatus(w, s) ==
  LET j == slot[w].job IN
  /\ ~RowLocked(j)
  /\ status' = IF status[j] = "deleted" THEN status ELSE [status EXCEPT ![j] = s]
  /\ slot' = [slot EXCEPT ![w].step = "release"]
  /\ UNCHANGED <<token, ahead, retries, pauseKey, canonical, dispatch, unsent,
                 lock, req, boot, faults>>

Pause(w) == slot[w].step = "pausing" /\ SetStatus(w, "paused")

\* The run ends with a status, or is cut by the SAQ timeout and writes none.
EndRun(w) == slot[w].step = "run" /\ \E s \in Outcomes : SetStatus(w, s)

TimeOut(w) ==
  /\ slot[w].step = "run"
  /\ slot' = [slot EXCEPT ![w].step = "release"]
  /\ UNCHANGED <<status, token, ahead, retries, pauseKey, canonical, dispatch, unsent,
                 lock, req, boot, faults>>

\* release: only the exact token is cleared.
OwnsAny(w) == token[slot[w].job] # None
Owns(w) == token[slot[w].job] = slot[w].tok

Release(w) ==
  LET j == slot[w].job IN
  /\ slot[w].step = "release" /\ ~RowLocked(j)
  /\ IF Owns(w)
     THEN /\ token' = [token EXCEPT ![j] = None]
          /\ slot' = [slot EXCEPT ![w].step = "wake"]
     ELSE /\ slot' = [slot EXCEPT ![w] = IdleSlot]
          /\ UNCHANGED token
  /\ UNCHANGED <<status, ahead, retries, pauseKey, canonical, dispatch, unsent,
                 lock, req, boot, faults>>

\* _wake_next_admission: an immediate delivery for the oldest waiting row of the key.
Wake(w) ==
  LET k == KeyOf[slot[w].job] IN
  /\ slot[w].step = "wake"
  /\ IF Oldest(k) = {} THEN UNCHANGED <<canonical, dispatch>>
     ELSE \E j \in Oldest(k) : Dispatch(j)
  /\ slot' = [slot EXCEPT ![w] = IdleSlot]
  /\ UNCHANGED <<status, token, ahead, retries, pauseKey, unsent, lock, req, boot, faults>>

\* The redelivery, the release or the wake-up failed: logged, nothing is retried.
StepLost(w) ==
  /\ slot[w].step \in {"waiting", "release", "wake"} /\ Fault
  /\ slot' = [slot EXCEPT ![w] = IdleSlot]
  /\ UNCHANGED <<status, token, ahead, retries, pauseKey, canonical, dispatch, unsent,
                 lock, req, boot>>

\* Redis loses a delivery.
LoseDelivery(j) ==
  /\ Deliverable(j) /\ Fault
  /\ Consume(j)
  /\ UNCHANGED <<status, token, ahead, retries, pauseKey, unsent, slot, lock, req, boot>>

-----------------------------------------------------------------------------
(* Worker death and startup recovery. *)

\* Open transactions roll back; every coroutine and its token is forgotten.
\* The cron handler dies with the worker, API requests do not.
Crash ==
  /\ Fault
  /\ slot' = [w \in Slots |-> IdleSlot]
  /\ lock' = [k \in Keys |-> None]
  /\ req' = [r \in Requests |-> IF req[r].op = "reap" THEN IdleReq ELSE req[r]]
  /\ boot' = [phase |-> "running", read |-> {}, loaded |-> FALSE]
  /\ UNCHANGED <<status, token, ahead, retries, pauseKey, canonical, dispatch, unsent>>

\* Each phase loads the rows of one status and commits them together.
BootLoad ==
  /\ boot.phase \in Active /\ ~boot.loaded
  /\ boot' = [boot EXCEPT !.loaded = TRUE, !.read = {j \in Jobs : status[j] = boot.phase}]
  /\ UNCHANGED <<status, token, ahead, retries, pauseKey, canonical, dispatch, unsent,
                 slot, lock, req, faults>>

Overwrite(S, s) == status' = [j \in Jobs |-> IF j \in S /\ status[j] # "deleted" THEN s
                                             ELSE status[j]]
DropTokens(S) == token' = [j \in Jobs |-> IF j \in S THEN None ELSE token[j]]
Count(S) == retries' = [j \in Jobs |-> IF j \in S THEN retries[j] + 1 ELSE retries[j]]
Unpause(S) == pauseKey' = [j \in Jobs |-> pauseKey[j] /\ j \notin S]
NextPhase(p) == boot' = [phase |-> p, read |-> {}, loaded |-> FALSE]

\* Some of the enqueues of a phase may fail, each row's on its own.
Enqueued(sent, S) == IF sent = S THEN UNCHANGED faults ELSE Fault

\* auto_retry: queued again, whether the enqueue fails or not; mark_failed: failed.
BootRunning ==
  /\ boot.phase = "running" /\ boot.loaded
  /\ DropTokens(boot.read)
  /\ \/ /\ \E sent \in SUBSET boot.read : Enqueued(sent, boot.read) /\ SendRetry(sent)
        /\ Overwrite(boot.read, "queued") /\ Count(boot.read)
     \/ /\ Overwrite(boot.read, "failed")
        /\ UNCHANGED <<retries, canonical, dispatch, faults>>
  /\ NextPhase("queued")
  /\ UNCHANGED <<ahead, pauseKey, unsent, slot, lock, req>>

BootQueued ==
  /\ boot.phase = "queued" /\ boot.loaded
  /\ DropTokens(boot.read)
  /\ \E sent \in SUBSET boot.read :
       /\ Enqueued(sent, boot.read)
       /\ dispatch' = [j \in Jobs |-> IF j \in sent THEN OneMore(dispatch[j]) ELSE dispatch[j]]
  /\ NextPhase("paused")
  /\ UNCHANGED <<status, ahead, retries, pauseKey, canonical, unsent, slot, lock, req>>

\* keep_paused; auto_retry, failed when the enqueue fails; mark_failed.
BootPaused ==
  /\ boot.phase = "paused" /\ boot.loaded
  /\ DropTokens(boot.read)
  /\ \/ \E sent \in SUBSET boot.read :
          /\ Enqueued(sent, boot.read)
          /\ canonical' = [j \in Jobs |-> canonical[j] \/ j \in sent]
          /\ UNCHANGED <<status, retries, pauseKey, dispatch>>
     \/ \E sent \in SUBSET boot.read :
          /\ Enqueued(sent, boot.read) /\ SendRetry(sent)
          /\ status' = [j \in Jobs |-> IF j \notin boot.read \/ status[j] = "deleted" THEN status[j]
                                       ELSE IF j \in sent THEN "queued" ELSE "failed"]
          /\ Count(boot.read) /\ Unpause(boot.read)
     \/ /\ Overwrite(boot.read, "failed") /\ Unpause(boot.read)
        /\ UNCHANGED <<retries, canonical, dispatch, faults>>
  /\ NextPhase("tokens")
  /\ UNCHANGED <<ahead, unsent, slot, lock, req>>

\* recover_stale_tokens: no token survives a restart, whatever the status.  When it
\* fails the worker starts all the same, and a token on a row that no other phase
\* read stays until the next restart.
RecoverStaleTokens ==
  /\ boot.phase = "tokens"
  /\ \/ token' = [j \in Jobs |-> None] /\ UNCHANGED faults
     \/ Fault /\ UNCHANGED token
  /\ NextPhase("up")
  /\ UNCHANGED <<status, ahead, retries, pauseKey, canonical, dispatch, unsent,
                 slot, lock, req>>

-----------------------------------------------------------------------------
JobStep(j) ==
  \/ Submit(j) \/ SendSubmitted(j) \/ SendSubmittedFails(j) \/ Cancel(j)
  \/ CronRetry(j) \/ CronRetryFails(j) \/ RestoreTransport(j) \/ LoseDelivery(j)

RequestStep(r) ==
  \/ \E op \in RequestOps, j \in Jobs : ReadRow(r, op, j)
  \/ Send(r) \/ Abandon(r) \/ CommitPlain(r) \/ CommitRequeue(r)

\* What a coroutine does with the delivery it took.
SlotProgress(w) ==
  \/ CountHolders(w) \/ TakeToken(w) \/ Redeliver(w) \/ Confirm(w) \/ PauseGate(w)
  \/ Pause(w) \/ EndRun(w) \/ TimeOut(w) \/ Release(w) \/ Wake(w)

SlotStepAction(w) ==
  \/ \E j \in Jobs : Ignore(w, j) \/ Enter(w, j)
  \/ SlotProgress(w) \/ StepLost(w)

BootStep == BootLoad \/ BootRunning \/ BootQueued \/ BootPaused \/ RecoverStaleTokens

Next ==
  \/ \E j \in Jobs : JobStep(j)
  \/ ClearFinished
  \/ \E r \in Requests : RequestStep(r)
  \/ \E w \in Slots : SlotStepAction(w)
  \/ Crash
  \/ BootStep

Spec == Init /\ [][Next]_vars

(***************************************************************************)
(* Fairness.  The worker's event loop runs every coroutine it has started, *)
(* an execution ends (inactivity watchdog, 24 h pause key, SAQ timeout),   *)
(* an API request that inserted a row goes on to enqueue it, and the       *)
(* container is restarted after a crash.  A delivery waits for a free      *)
(* coroutine and for the advisory lock, both of which others take again    *)
(* and again: SAQ and PostgreSQL serve them in arrival order, hence strong *)
(* fairness.  Users owe nothing: submit, cancel, pause, resume and retry   *)
(* have none.                                                              *)
(***************************************************************************)
DeliveryFairness ==
  /\ \A w \in Slots : WF_vars(SlotProgress(w))
  /\ \A j \in Jobs : SF_vars(\E w \in Slots : Enter(w, j)) /\ WF_vars(SendSubmitted(j))
  /\ WF_vars(BootStep)

\* The cron runs every fifteen minutes.
ReaperFairness == \A j \in Jobs : WF_vars(RestoreTransport(j))

ChainSpec == Spec /\ DeliveryFairness
FairSpec  == ChainSpec /\ ReaperFairness

-----------------------------------------------------------------------------
(* Properties. *)

\* The concurrency configured for a source is never exceeded, whatever mixture
\* of duplicate deliveries, retries, resumes and restarts claims on it: the
\* rows of a key that hold a token never outnumber the capacity of the key.
CapacityRespected == \A k \in Keys : Cardinality(Holders(k)) <= Capacity(k)

\* A token is a fence: no two rows hold the same one, and a coroutine that owns
\* a row's current token is the only one that does.
TokensDistinct ==
  /\ \A i, j \in Jobs : token[i] = token[j] /\ token[i] # None => i = j
  /\ \A v, w \in Slots : slot[v].tok = slot[w].tok /\ slot[v].tok # None => v = w

\* A row is admitted in ticket order: when it takes a token, the waiting rows of
\* its key with a smaller ticket all fit in the capacity that is left.
FifoAdmission ==
  [][\A j \in Jobs : token[j] = None /\ token'[j] # None =>
       Cardinality(UpTo(j)) + Cardinality(Holders(KeyOf[j])) <= Capacity(KeyOf[j])]_vars

\* Only its own execution, a retry of the row, its deletion or a restart takes a
\* token from a row (services/download_admission.py, release): the release of a
\* stale execution never takes the token of the execution that replaced it.
StaleReleaseHarmless ==
  [][\A j \in Jobs : token[j] # None /\ token'[j] = None =>
       \/ \E w \in Slots : slot[w].tok = token[j] /\ slot[w].step = "release"
       \/ status[j] \in {"failed", "partial"} \/ status'[j] \in {"queued", "deleted"}
       \/ ~Worker]_vars

\* Two executions of one row never run at the same time.
OneExecution ==
  \A v, w \in Slots :
    slot[v].step \in Live /\ slot[w].step \in Live /\ slot[v].job = slot[w].job => v = w

\* The concurrency of a source bounds the coroutines that work on it, not only
\* the tokens: no execution outlives the token it was admitted with, unless the
\* user cleared its cancelled row from the list while it was winding down.
ExecutionsWithinCapacity ==
  \A k \in Keys :
    Cardinality({w \in Slots : /\ slot[w].step \in Live
                               /\ KeyOf[slot[w].job] = k
                               /\ status[slot[w].job] # "deleted"}) <= Capacity(k)

\* worker/retry.py:119-120: the token of a live execution "remains authoritative
\* until an actual worker restart/recovery clears it", unless the row is deleted.
TokenAuthoritative ==
  [][\A w \in Slots : slot[w].step = "run" /\ slot'[w].step = "run"
                      /\ token[slot[w].job] = slot[w].tok
                      => \/ token'[slot[w].job] = slot[w].tok
                         \/ status'[slot[w].job] = "deleted"]_vars

\* No wake-up is lost: without faults the redelivery chain and the wake-up alone
\* get every waiting row claimed, unless it is cancelled, paused or failed first.
EventuallyLeavesQueue(j) == Waiting(j) ~> ~Waiting(j)

\* A token on a row whose execution is gone, while the worker is up.
LeakedToken(k) ==
  Worker /\ \E j \in Holders(k) : \A w \in Slots : slot[w].tok # token[j]

\* Under lost deliveries, failed enqueues and crashes the reaper and startup
\* recovery get every waiting row claimed; only a release or a recovery of tokens
\* that failed keeps one waiting, until the next restart.
EventuallyLeavesQueueDespiteFaults(j) ==
  Waiting(j) ~> (~Waiting(j) \/ LeakedToken(KeyOf[j]))

-----------------------------------------------------------------------------
(* The inductive strengthening of CapacityRespected and TokensDistinct. *)

\* A busy coroutine works on a row; an execution has a token; a request has a row.
WorkInv ==
  /\ \A w \in Slots :
       /\ slot[w].step # "idle" => slot[w].job \in Jobs
       /\ slot[w].step \in Executing => slot[w].tok \in Tokens
  /\ \A r \in Requests :
       req[r].step # "idle" => req[r].job \in Jobs /\ req[r].op \in RequestOps

\* A claim holds the lock of its key and a row that still waits.
ClaimInv ==
  \A w \in Slots : slot[w].step \in Claiming =>
    /\ lock[KeyOf[slot[w].job]] = w
    /\ Waiting(slot[w].job)
    /\ slot[w].pos >= 1

\* What a claim counted can only shrink before it takes its token.
CountInv ==
  \A w \in Slots : slot[w].step = "counted" =>
    /\ Cardinality(Holders(KeyOf[slot[w].job])) <= slot[w].held
    /\ slot[w].pos <= Capacity(KeyOf[slot[w].job]) - slot[w].held

\* Nothing executes while the worker is down or recovering.
DownInv == ~Worker => \A w \in Slots : slot[w].step = "idle"

\* A retry was accepted on a settled row, and only retry and resume enqueue.
RequestInv ==
  \A r \in Requests :
    /\ req[r].step # "idle" /\ req[r].op = "retry" => req[r].status \in {"failed", "partial"}
    /\ req[r].step = "sent" => MustSend(req[r])

\* The invariant the proofs carry: types, the claim protocol, the two results.
AdmissionInv ==
  /\ TypeOK /\ WorkInv /\ ClaimInv /\ CountInv /\ DownInv /\ RequestInv
  /\ CapacityRespected /\ TokensDistinct

-----------------------------------------------------------------------------
(* The inductive strengthening of OneExecution and ExecutionsWithinCapacity. *)

Admitted == {"confirm"} \cup Live

\* Nobody takes the token of an execution that has not ended: no row is retried,
\* or only the cron retries and no row fails behind its execution.
NoTheft == MaxRetries = 0 \/ (MaxFaults = 0 /\ Ops \subseteq {"pause", "resume"})

\* An admitted execution still owns its row, unless the row was deleted, and its
\* row is not one that the cron retries.
FenceInv ==
  \A w \in Slots : slot[w].step \in Admitted =>
    /\ token[slot[w].job] = slot[w].tok \/ status[slot[w].job] = "deleted"
    /\ MaxRetries > 0 => status[slot[w].job] \notin {"failed", "partial"}

\* Only one execution is admitted on a row.
AloneInv ==
  \A v, w \in Slots : slot[v].step \in Admitted /\ slot[w].step \in Admitted
                      /\ slot[v].job = slot[w].job => v = w

\* No request retries a row or fails it behind its execution.
MildRequests ==
  \A r \in Requests : req[r].step # "idle" =>
    req[r].op # "retry" /\ (MaxRetries > 0 => req[r].op \in {"pause", "resume"})

\* What keeps the executions of a row apart, where no token is stolen: each owns
\* its row (services/download_admission.py, claim and release).
ExecutionInv == NoTheft => FenceInv /\ AloneInv /\ MildRequests

-----------------------------------------------------------------------------
(* The inductive strengthening of FifoAdmission. *)

\* No handler puts a row back into the queue behind its execution.
NoStaleRequeue == Ops \subseteq {"pause", "reap"}

\* The position a claim has read bounds the rows ahead of its row until it takes
\* the token: a row joins the queue behind it, and no queued row is running.
PositionInv ==
  \A w \in DOMAIN slot : slot[w].step \in Claiming => Position(slot[w].job) <= slot[w].pos

FifoInv ==
  NoStaleRequeue =>
    /\ \A r \in Requests : req[r].step # "idle" => req[r].op \in {"pause", "reap"}
    /\ \A j \in Jobs : status[j] \in {"absent", "queued"} => token[j] = None
    /\ PositionInv

\* The permits of AdmissionPool are the rows that hold a token.
Pool == INSTANCE AdmissionPool WITH
  held <- {j \in Jobs : token[j] # None},
  Limit <- [k \in Keys |-> Capacity(k)]

\* The claim protocol implements the abstract pool: permits are granted one at a
\* time and only below the limit of their key.
ImplementsPool == Pool!Spec
=============================================================================
