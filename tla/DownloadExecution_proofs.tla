---------------------- MODULE DownloadExecution_proofs ----------------------
(***************************************************************************)
(* What the claim protocol of DownloadAdmission gives the executions, for  *)
(* every set of rows, keys, coroutines, tokens and requests: one execution *)
(* of a row at a time and no more executions of a source than its          *)
(* concurrency, as long as no token is taken from under its owner; and     *)
(* admission in ticket order, as long as no row is put back into the queue *)
(* behind its execution.                                                   *)
(***************************************************************************)
EXTENDS DownloadAdmission_proofs, FunctionTheorems

USE KeysAssumption, ConcurrencyAssumption, FiniteAssumption, NoneAssumption,
    BoundsAssumption

-----------------------------------------------------------------------------
(* The executions of a row. *)

\* Without faults allowed, none happens.
LEMMA NoFault ==
  ASSUME TypeOK, MaxFaults = 0
  PROVE  ~Fault
  BY DEF TypeOK, Fault

\* In the initial state nothing executes and nothing is requested.
LEMMA InitExecution == Init => ExecutionInv
  BY DEF Init, ExecutionInv, FenceInv, AloneInv, MildRequests, IdleSlot, IdleReq, Admitted, Live

\* A request is accepted for a handler that runs; a row without retries left is
\* never accepted for one (routers/download.py, retry_job).
LEMMA MildStep ==
  ASSUME TypeOK, NoTheft, MildRequests, [Next]_vars
  PROVE  MildRequests'
<1> USE DEF MildRequests
<1>1. CASE req' = req
  BY <1>1
<1>2. ASSUME NEW r \in Requests, RequestStep(r)
      PROVE  MildRequests'
  <2>1. ASSUME NEW op \in RequestOps, NEW j \in Jobs, ReadRow(r, op, j)
        PROVE  MildRequests'
    <3>1. op # "retry"
      <4>1. retries[j] \in Nat
        BY DEF TypeOK
      <4>2. CASE MaxRetries = 0
        <5> SUFFICES ASSUME op = "retry" PROVE FALSE
          OBVIOUS
        <5>1. Accepts("retry", j)
          BY <2>1 DEF ReadRow
        <5>2. retries[j] < MaxRetries
          BY <5>1 DEF Accepts
        <5> QED BY <4>1, <4>2, <5>2
      <4>3. CASE Ops \subseteq {"pause", "resume"}
        BY <2>1, <4>3 DEF ReadRow
      <4> QED BY <4>2, <4>3 DEF NoTheft
    <3>2. MaxRetries > 0 => op \in {"pause", "resume"}
      BY <2>1 DEF ReadRow, NoTheft
    <3> QED BY <2>1, <3>1, <3>2 DEF ReadRow, TypeOK
  <2>2. CASE Send(r)
    BY <2>2 DEF Send, TypeOK, ReqState
  <2>3. CASE Abandon(r) \/ CommitPlain(r) \/ CommitRequeue(r)
    BY <2>3 DEF Abandon, CommitPlain, CommitRequeue, IdleReq, TypeOK
  <2> QED BY <1>2, <2>1, <2>2, <2>3 DEF RequestStep
<1>3. CASE Crash
  BY <1>3 DEF Crash, IdleReq
<1>4. CASE (\E j \in Jobs : JobStep(j)) \/ ClearFinished \/ BootStep
  BY <1>1, <1>4 DEF JobStep, Submit, SendSubmitted, SendSubmittedFails, Cancel, CronRetry, CronRetryFails,
                    RestoreTransport, LoseDelivery, ClearFinished, BootStep, BootLoad,
                    BootRunning, BootQueued, BootPaused, RecoverStaleTokens
<1>5. ASSUME NEW w \in Slots, SlotStepAction(w)
      PROVE  req' = req
  BY <1>5 DEF SlotStepAction, SlotProgress, Ignore, Enter, CountHolders, TakeToken, Redeliver,
              Confirm, PauseGate, Pause, EndRun, SetStatus, TimeOut, Release, Wake, StepLost
<1> QED BY <1>1, <1>2, <1>3, <1>4, <1>5 DEF Next, vars

\* The frame of the executions: a step that admits nobody keeps the fence, if it
\* takes no token from the row of an execution without deleting the row, deletes
\* no row twice, and fails no row behind an execution that the cron could retry.
LEMMA ExecutionFrame ==
  ASSUME FenceInv, AloneInv,
         \A w \in Slots : slot'[w].step \in Admitted =>
           /\ slot[w].step \in Admitted
           /\ slot'[w].job = slot[w].job /\ slot'[w].tok = slot[w].tok
           /\ LET j == slot[w].job IN
                /\ token'[j] = token[j] \/ status'[j] = "deleted"
                /\ status[j] = "deleted" => status'[j] = "deleted"
                /\ MaxRetries > 0 /\ status'[j] \in {"failed", "partial"}
                     => status[j] \in {"failed", "partial"}
  PROVE  FenceInv' /\ AloneInv'
<1>1. FenceInv'
  BY DEF FenceInv
<1>2. AloneInv'
  BY DEF AloneInv
<1> QED BY <1>1, <1>2

\* The API and cron steps on a row disturb no execution.
LEMMA JobStepExecution ==
  ASSUME AdmissionInv, NoTheft, FenceInv, AloneInv, NEW i \in Jobs, JobStep(i)
  PROVE  FenceInv' /\ AloneInv'
<1> USE DEF AdmissionInv
<1>1. slot' = slot
  BY DEF JobStep, Submit, SendSubmitted, SendSubmittedFails, Cancel, CronRetry, CronRetryFails,
         RestoreTransport, LoseDelivery
<1> SUFFICES ASSUME NEW w \in Slots, slot[w].step \in Admitted, NEW j \in Jobs, j = slot[w].job
             PROVE  /\ token'[j] = token[j] \/ status'[j] = "deleted"
                    /\ status[j] = "deleted" => status'[j] = "deleted"
                    /\ MaxRetries > 0 /\ status'[j] \in {"failed", "partial"}
                         => status[j] \in {"failed", "partial"}
  BY <1>1, ExecutionFrame DEF WorkInv, Admitted, Live
<1>2. retries[i] \in Nat /\ (MaxRetries > 0 => ~Fault)
  BY NoFault DEF TypeOK, NoTheft
<1>3. MaxRetries > 0 => status[j] \notin {"failed", "partial"}
  BY DEF FenceInv
<1>4. CASE CronRetry(i) \/ CronRetryFails(i)
  <2>1. MaxRetries > 0
    BY <1>2, <1>4 DEF CronRetry, CronRetryFails
  <2>2. i # j /\ CronRetry(i)
    BY <1>2, <1>3, <1>4, <2>1 DEF CronRetry, CronRetryFails
  <2> QED BY <2>2 DEF CronRetry, TypeOK
<1>5. CASE SendSubmittedFails(i)
  BY <1>2, <1>5 DEF SendSubmittedFails, TypeOK
<1>6. CASE Submit(i) \/ SendSubmitted(i) \/ Cancel(i) \/ RestoreTransport(i) \/ LoseDelivery(i)
  BY <1>6 DEF Submit, SendSubmitted, Cancel, RestoreTransport, LoseDelivery, TypeOK, Active
<1> QED BY <1>4, <1>5, <1>6 DEF JobStep

\* The ORM handlers disturb no execution: a resume leaves the token alone, and a
\* deleted row stays deleted.
LEMMA RequestStepExecution ==
  ASSUME AdmissionInv, NoTheft, FenceInv, AloneInv, MildRequests, NEW r \in Requests,
         RequestStep(r)
  PROVE  FenceInv' /\ AloneInv'
<1> USE DEF AdmissionInv
<1>1. slot' = slot
  BY DEF RequestStep, ReadRow, Send, Abandon, CommitPlain, CommitRequeue
<1> SUFFICES ASSUME NEW w \in Slots, slot[w].step \in Admitted, NEW j \in Jobs, j = slot[w].job
             PROVE  /\ token'[j] = token[j] \/ status'[j] = "deleted"
                    /\ status[j] = "deleted" => status'[j] = "deleted"
                    /\ MaxRetries > 0 /\ status'[j] \in {"failed", "partial"}
                         => status[j] \in {"failed", "partial"}
  BY <1>1, ExecutionFrame DEF WorkInv, Admitted, Live
<1>2. CASE CommitRequeue(r)
  <2>1. req[r].job \in Jobs /\ req[r].op = "resume" /\ ~req[r].owned
    BY <1>2 DEF CommitRequeue, WorkInv, RequestInv, MildRequests, MustSend
  <2> QED BY <1>2, <2>1 DEF CommitRequeue, Written, TypeOK
<1>3. CASE CommitPlain(r)
  <2>1. /\ req[r].job \in Jobs /\ req[r].op \in RequestOps /\ req[r].op # "retry"
        /\ MaxRetries > 0 => req[r].op \in {"pause", "resume"}
    BY <1>3 DEF CommitPlain, WorkInv, MildRequests
  <2> QED BY <1>3, <2>1 DEF CommitPlain, Written, RequestOps, TypeOK
<1>4. CASE status' = status /\ token' = token
  BY <1>4
<1> QED BY <1>2, <1>3, <1>4 DEF RequestStep, ReadRow, Send, Abandon

\* The token a claim takes goes to a row that nobody executes.
LEMMA TakeTokenExecution ==
  ASSUME AdmissionInv, FenceInv, AloneInv, NEW w \in Slots, TakeToken(w)
  PROVE  FenceInv' /\ AloneInv'
<1> USE DEF AdmissionInv
<1> SUFFICES ASSUME NEW j, j = slot[w].job
             PROVE  FenceInv' /\ AloneInv'
  OBVIOUS
<1>1. j \in Jobs /\ Waiting(j)
  BY DEF TakeToken, WorkInv, ClaimInv, Claiming
<1>2. PICK t \in Tokens :
        /\ token' = [token EXCEPT ![j] = t]
        /\ slot' = [slot EXCEPT ![w] = [IdleSlot EXCEPT !.step = "confirm", !.job = j, !.tok = t]]
  BY DEF TakeToken
<1>3. status' = [status EXCEPT ![j] = "running"]
  BY DEF TakeToken
<1>4. \A v \in Slots : slot[v].step \in Admitted => slot[v].job \in Jobs /\ slot[v].job # j
  BY <1>1 DEF FenceInv, WorkInv, Waiting, Admitted, Live, Executing
<1>5. /\ slot'[w].job = j /\ slot'[w].tok = t
      /\ \A v \in Slots : v # w => slot'[v] = slot[v]
      /\ token'[j] = t /\ status'[j] = "running"
      /\ \A i \in Jobs : i # j => token'[i] = token[i] /\ status'[i] = status[i]
  BY <1>1, <1>2, <1>3 DEF TypeOK, IdleSlot
<1>6. FenceInv'
  BY <1>4, <1>5 DEF FenceInv
<1>7. AloneInv'
  BY <1>4, <1>5 DEF AloneInv
<1> QED BY <1>6, <1>7

\* A coroutine that ends its execution, or moves on in it, disturbs no other.
LEMMA SlotStepExecution ==
  ASSUME AdmissionInv, FenceInv, AloneInv, NEW w \in Slots, SlotStepAction(w)
  PROVE  FenceInv' /\ AloneInv'
<1> USE DEF AdmissionInv
<1> DEFINE Stays(v) == /\ slot[v].step \in Admitted
                       /\ slot'[v].job = slot[v].job /\ slot'[v].tok = slot[v].tok
<1>1. CASE TakeToken(w)
  BY <1>1, TakeTokenExecution
<1>2. CASE Release(w)
  <2>0. /\ slot'[w].step \in {"wake", "idle"}
        /\ \A v \in Slots : v # w => slot'[v] = slot[v]
    BY <1>2 DEF Release, TypeOK, SlotState, IdleSlot
  <2>1. \A v \in Slots : slot'[v].step \in Admitted => v # w /\ Stays(v) /\ slot[v].job \in Jobs
    BY <2>0 DEF Admitted, Live, WorkInv
  <2>2. \A v \in Slots : slot'[v].step \in Admitted =>
          token'[slot[v].job] = token[slot[v].job] \/ status[slot[v].job] = "deleted"
    <3> SUFFICES ASSUME NEW v \in Slots, slot'[v].step \in Admitted,
                        status[slot[v].job] # "deleted"
                 PROVE  token'[slot[v].job] = token[slot[v].job]
      OBVIOUS
    <3>1. v # w /\ slot[v].job \in Jobs /\ token[slot[v].job] = slot[v].tok /\ slot[v].tok \in Tokens
      BY <2>1 DEF FenceInv, WorkInv, Admitted, Live, Executing
    <3>2. slot[v].tok # slot[w].tok
      BY <3>1 DEF TokensDistinct
    <3> QED BY <1>2, <3>1, <3>2 DEF Release, Owns, TypeOK
  <2>3. status' = status
    BY <1>2 DEF Release
  <2> QED BY <2>1, <2>2, <2>3, ExecutionFrame
<1>3. CASE Pause(w) \/ EndRun(w)
  <2>1. PICK s : SetStatus(w, s)
    BY <1>3 DEF Pause, EndRun
  <2>2. slot[w].job \in Jobs /\ slot[w].step \in Admitted
    BY <1>3 DEF Pause, EndRun, WorkInv, Admitted, Live
  <2>3. \A v \in Slots : slot'[v].step \in Admitted =>
          v # w /\ Stays(v) /\ slot[v].job \in Jobs /\ slot[v].job # slot[w].job
    BY <2>1, <2>2 DEF SetStatus, TypeOK, Admitted, Live, WorkInv, AloneInv
  <2>4. token' = token /\ \A v \in Slots : slot'[v].step \in Admitted =>
          status'[slot[v].job] = status[slot[v].job]
    BY <2>1, <2>2, <2>3 DEF SetStatus, TypeOK
  <2> QED BY <2>3, <2>4, ExecutionFrame
<1>4. CASE \/ \E j \in Jobs : Ignore(w, j) \/ Enter(w, j)
           \/ CountHolders(w) \/ Redeliver(w) \/ Confirm(w) \/ PauseGate(w)
           \/ TimeOut(w) \/ Wake(w) \/ StepLost(w)
  <2>1. token' = token /\ status' = status
    BY <1>4 DEF Ignore, Enter, CountHolders, Redeliver, Confirm, PauseGate, TimeOut, Wake, StepLost
  <2>2. \A v \in Slots : slot'[v].step \in Admitted => Stays(v)
    <3>1. CASE \E j \in Jobs : Ignore(w, j) \/ Enter(w, j)
      <4>1. CASE slot' = slot
        BY <4>1
      <4>2. CASE \E j \in Jobs : Enter(w, j)
        <5>1. slot'[w].step = "entered" /\ \A v \in Slots : v # w => slot'[v] = slot[v]
          BY <4>2 DEF Enter, TypeOK, IdleSlot
        <5> QED BY <5>1 DEF Admitted, Live
      <4> QED BY <3>1, <4>1, <4>2 DEF Ignore
    <3>2. CASE CountHolders(w)
      <4>1. /\ slot'[w].step \in {"counted", "waiting"}
            /\ \A v \in Slots : v # w => slot'[v] = slot[v]
        BY <3>2 DEF CountHolders, TypeOK, SlotState
      <4> QED BY <4>1 DEF Admitted, Live
    <3>3. CASE Redeliver(w) \/ Wake(w) \/ StepLost(w)
      <4>1. slot' = [slot EXCEPT ![w] = IdleSlot]
        BY <3>3 DEF Redeliver, Wake, StepLost
      <4> QED BY <4>1 DEF TypeOK, IdleSlot, Admitted, Live
    <3>4. CASE Confirm(w) \/ PauseGate(w) \/ TimeOut(w)
      <4>1. /\ slot[w].step \in Admitted
            /\ \E s \in {"gate", "pausing", "run", "release"} : slot' = [slot EXCEPT ![w].step = s]
        BY <3>4 DEF Confirm, PauseGate, TimeOut, Admitted, Live
      <4>2. slot'[w].job = slot[w].job /\ slot'[w].tok = slot[w].tok
        BY <4>1 DEF TypeOK, SlotState
      <4>3. \A v \in Slots : v # w => slot'[v] = slot[v]
        BY <4>1 DEF TypeOK
      <4> QED BY <4>1, <4>2, <4>3
    <3> QED BY <1>4, <3>1, <3>2, <3>3, <3>4
  <2> QED BY <2>1, <2>2, ExecutionFrame
<1> QED BY <1>1, <1>2, <1>3, <1>4 DEF SlotStepAction, SlotProgress

\* Every step keeps the executions apart where no token is stolen.
LEMMA ExecutionStep ==
  ASSUME AdmissionInv, ExecutionInv, [Next]_vars
  PROVE  ExecutionInv'
<1> USE DEF AdmissionInv
<1> SUFFICES ASSUME NoTheft, FenceInv, AloneInv, MildRequests
             PROVE  FenceInv' /\ AloneInv' /\ MildRequests'
  BY DEF ExecutionInv, NoTheft
<1>1. MildRequests'
  BY MildStep
<1>2. FenceInv' /\ AloneInv'
  <2>1. CASE UNCHANGED vars
    BY <2>1 DEF vars, FenceInv, AloneInv
  <2>2. CASE ClearFinished
    <3>1. slot' = slot /\ \A w \in Slots : slot[w].step \in Admitted => slot[w].job \in Jobs
      BY <2>2 DEF ClearFinished, WorkInv, Admitted, Live
    <3>2. \A j \in Jobs : /\ token'[j] = token[j] \/ status'[j] = "deleted"
                          /\ status'[j] \in {status[j], "deleted"}
      BY <2>2 DEF ClearFinished, TypeOK
    <3> QED BY <3>1, <3>2, ExecutionFrame
  <2>3. CASE Crash
    BY <2>3 DEF Crash, FenceInv, AloneInv, IdleSlot, Admitted, Live
  <2>4. CASE BootStep
    <3>1. slot' = slot /\ \A w \in Slots : slot[w].step = "idle"
      BY <2>4 DEF BootStep, BootLoad, BootRunning, BootQueued, BootPaused, RecoverStaleTokens,
                  DownInv, Worker, Active
    <3> QED BY <3>1 DEF FenceInv, AloneInv, Admitted, Live
  <2> QED BY <2>1, <2>2, <2>3, <2>4, JobStepExecution, RequestStepExecution, SlotStepExecution
          DEF Next
<1> QED BY <1>1, <1>2

\* The executions of a key inject into the rows that hold its tokens.
LEMMA ExecutionsHold ==
  ASSUME TypeOK, WorkInv, FenceInv, AloneInv, NEW k \in Keys
  PROVE  LET S == {w \in Slots : /\ slot[w].step \in Live
                                 /\ KeyOf[slot[w].job] = k
                                 /\ status[slot[w].job] # "deleted"} IN
         IsFiniteSet(S) /\ Cardinality(S) <= Cardinality(Holders(k))
<1> DEFINE S == {w \in Slots : /\ slot[w].step \in Live
                               /\ KeyOf[slot[w].job] = k
                               /\ status[slot[w].job] # "deleted"}
           f == [w \in S |-> slot[w].job]
<1>1. f \in [S -> Holders(k)]
  BY DEF FenceInv, WorkInv, Holders, Admitted, Live, Executing
<1>2. \A v, w \in S : f[v] = f[w] => v = w
  BY DEF AloneInv, Admitted
<1>3. f \in Injection(S, Holders(k))
  BY <1>1, <1>2, Fun_IsInj
<1>4. IsFiniteSet(Holders(k))
  BY FiniteRows DEF Holders
<1> QED BY <1>3, <1>4, FS_Injection

-----------------------------------------------------------------------------
(* The theorems about executions. *)

\* Where no token is stolen, an execution owns its row until it ends and has it
\* for itself: for any number of crashes, failed enqueues and duplicate deliveries
\* with retries off, and with the cron retry on as long as nothing else fails.
THEOREM ExecutionCorrect == Spec => []ExecutionInv
<1>1. Init => ExecutionInv
  BY InitExecution
<1>2. AdmissionInv /\ ExecutionInv /\ [Next]_vars => ExecutionInv'
  BY ExecutionStep
<1> QED BY <1>1, <1>2, AdmissionCorrect, PTL DEF Spec

\* Two coroutines of the worker never execute one row at the same time.
THEOREM ExecutionsAreAlone ==
  ASSUME NoTheft
  PROVE  Spec => []OneExecution
<1>1. ExecutionInv => OneExecution
  BY DEF ExecutionInv, AloneInv, OneExecution, Admitted
<1> QED BY <1>1, ExecutionCorrect, PTL

\* The configured concurrency of a source bounds the executions themselves.
THEOREM ExecutionsAreBounded ==
  ASSUME NoTheft
  PROVE  Spec => []ExecutionsWithinCapacity
<1>1. AdmissionInv /\ ExecutionInv => ExecutionsWithinCapacity
  <2> SUFFICES ASSUME AdmissionInv, ExecutionInv, NEW k \in Keys,
                      NEW S, S = {w \in Slots : /\ slot[w].step \in Live
                                                /\ KeyOf[slot[w].job] = k
                                                /\ status[slot[w].job] # "deleted"}
               PROVE  Cardinality(S) <= Capacity(k)
    BY DEF ExecutionsWithinCapacity
  <2>1. IsFiniteSet(S) /\ Cardinality(S) <= Cardinality(Holders(k))
    BY ExecutionsHold DEF AdmissionInv, ExecutionInv
  <2>2. Cardinality(S) \in Nat /\ Cardinality(Holders(k)) \in Nat
    BY <2>1, FS_CardinalityType, FiniteRows DEF Holders
  <2>3. Cardinality(Holders(k)) <= Capacity(k)
    BY DEF AdmissionInv, CapacityRespected
  <2> QED BY <2>1, <2>2, <2>3, CapacityPositive
<1> QED BY <1>1, AdmissionCorrect, ExecutionCorrect, PTL

-----------------------------------------------------------------------------
(* The order of admission. *)

\* The parts of FifoInv: who asks, and which rows have no token.
OnlyPauseOrReap ==
  \A r \in Requests : req[r].step # "idle" => req[r].op \in {"pause", "reap"}
QueuedHasNoToken ==
  \A j \in Jobs : status[j] \in {"absent", "queued"} => token[j] = None

\* In the initial state nothing claims and no row has a token.
LEMMA InitFifo == Init => FifoInv
  BY DEF Init, FifoInv, PositionInv, IdleSlot, IdleReq, Claiming

\* Only the handlers that run are requested.
LEMMA OnlyPauseOrReapStep ==
  ASSUME TypeOK, NoStaleRequeue, OnlyPauseOrReap, [Next]_vars
  PROVE  OnlyPauseOrReap'
<1> USE DEF OnlyPauseOrReap
<1>1. CASE req' = req
  BY <1>1
<1>2. ASSUME NEW r \in Requests, RequestStep(r)
      PROVE  OnlyPauseOrReap'
  <2>1. ASSUME NEW op \in RequestOps, NEW j \in Jobs, ReadRow(r, op, j)
        PROVE  OnlyPauseOrReap'
    BY <2>1 DEF ReadRow, NoStaleRequeue, TypeOK
  <2>2. CASE Send(r)
    BY <2>2 DEF Send, TypeOK, ReqState
  <2>3. CASE Abandon(r) \/ CommitPlain(r) \/ CommitRequeue(r)
    BY <2>3 DEF Abandon, CommitPlain, CommitRequeue, IdleReq, TypeOK
  <2> QED BY <1>2, <2>1, <2>2, <2>3 DEF RequestStep
<1>3. CASE Crash
  BY <1>3 DEF Crash, IdleReq
<1>4. CASE (\E j \in Jobs : JobStep(j)) \/ ClearFinished \/ BootStep
  BY <1>1, <1>4 DEF JobStep, Submit, SendSubmitted, SendSubmittedFails, Cancel, CronRetry, CronRetryFails,
                    RestoreTransport, LoseDelivery, ClearFinished, BootStep, BootLoad,
                    BootRunning, BootQueued, BootPaused, RecoverStaleTokens
<1>5. ASSUME NEW w \in Slots, SlotStepAction(w)
      PROVE  req' = req
  BY <1>5 DEF SlotStepAction, SlotProgress, Ignore, Enter, CountHolders, TakeToken, Redeliver,
              Confirm, PauseGate, Pause, EndRun, SetStatus, TimeOut, Release, Wake, StepLost
<1> QED BY <1>1, <1>2, <1>3, <1>4, <1>5 DEF Next, vars

\* Neither a pause nor the reaper's verdict requeues a row.
LEMMA CommitsPlainly ==
  ASSUME AdmissionInv, OnlyPauseOrReap, NEW r \in Requests, RequestStep(r)
  PROVE  /\ slot' = slot /\ token' = token /\ ahead' = ahead
         /\ \A j \in Jobs : status'[j] = status[j] \/ (~RowLocked(j) /\ status'[j] \in {"paused", "failed"})
<1> USE DEF AdmissionInv
<1>1. ~CommitRequeue(r)
  BY DEF CommitRequeue, RequestInv, MustSend, OnlyPauseOrReap
<1>2. CASE CommitPlain(r)
  <2>1. req[r].op \in {"pause", "reap"}
    BY <1>2 DEF CommitPlain, OnlyPauseOrReap
  <2> QED BY <1>2, <2>1 DEF CommitPlain, Written, TypeOK
<1> QED BY <1>1, <1>2 DEF RequestStep, ReadRow, Send, Abandon

\* A row that joins the queue has lost its token, and a row that takes one has
\* left the queue.
LEMMA QueuedHasNoTokenStep ==
  ASSUME AdmissionInv, OnlyPauseOrReap, QueuedHasNoToken, [Next]_vars
  PROVE  QueuedHasNoToken'
<1> USE DEF QueuedHasNoToken, AdmissionInv
<1>1. CASE UNCHANGED vars
  BY <1>1 DEF vars
<1>2. ASSUME NEW i \in Jobs, JobStep(i)
      PROVE  QueuedHasNoToken'
  BY <1>2 DEF JobStep, Submit, SendSubmitted, SendSubmittedFails, Cancel, CronRetry, CronRetryFails,
              RestoreTransport, LoseDelivery, TypeOK
<1>3. CASE ClearFinished
  BY <1>3 DEF ClearFinished, TypeOK
<1>4. ASSUME NEW r \in Requests, RequestStep(r)
      PROVE  QueuedHasNoToken'
  BY <1>4, CommitsPlainly
<1>5. ASSUME NEW w \in Slots, SlotStepAction(w)
      PROVE  QueuedHasNoToken'
  <2>1. CASE TakeToken(w)
    BY <2>1 DEF TakeToken, TypeOK
  <2>2. CASE Release(w)
    BY <2>2 DEF Release, TypeOK
  <2>3. CASE Pause(w) \/ EndRun(w)
    <3>1. PICK s \in {"paused", "done", "failed", "partial", "cancelled"} : SetStatus(w, s)
      BY <2>3 DEF Pause, EndRun
    <3> QED BY <3>1 DEF SetStatus, TypeOK
  <2>4. CASE token' = token /\ status' = status
    BY <2>4
  <2> QED BY <1>5, <2>1, <2>2, <2>3, <2>4
          DEF SlotStepAction, SlotProgress, Ignore, Enter, CountHolders, Redeliver, Confirm,
              PauseGate, TimeOut, Wake, StepLost
<1>6. CASE Crash
  BY <1>6 DEF Crash
<1>7. CASE BootStep
  <2>1. CASE BootLoad
    BY <2>1 DEF BootLoad
  <2>2. CASE BootRunning
    <3>1. DropTokens(boot.read) /\ (Overwrite(boot.read, "queued") \/ Overwrite(boot.read, "failed"))
      BY <2>2 DEF BootRunning
    <3> QED BY <3>1 DEF DropTokens, Overwrite
  <2>3. CASE BootQueued
    BY <2>3 DEF BootQueued, DropTokens
  <2>4. CASE BootPaused
    BY <2>4 DEF BootPaused, DropTokens, Overwrite
  <2>5. CASE RecoverStaleTokens
    BY <2>5 DEF RecoverStaleTokens
  <2> QED BY <1>7, <2>1, <2>2, <2>3, <2>4, <2>5 DEF BootStep
<1> QED BY <1>1, <1>2, <1>3, <1>4, <1>5, <1>6, <1>7 DEF Next

\* The frame of a position: where no row begins to wait ahead of a row that is
\* being claimed, the positions the claims have read stay bounds.
LEMMA PositionFrame ==
  ASSUME AdmissionInv, PositionInv, DOMAIN slot' = Slots,
         \A v \in Slots : slot'[v].step \in Claiming =>
           slot[v].step \in Claiming /\ slot'[v].job = slot[v].job /\ slot'[v].pos = slot[v].pos,
         \A j \in Jobs : RowLocked(j) =>
           /\ ahead'[j] \subseteq ahead[j]
           /\ \A i \in ahead'[j] \cup {j} :
                status'[i] = "queued" /\ token'[i] = None => status[i] = "queued" /\ token[i] = None
  PROVE  PositionInv'
<1> USE DEF AdmissionInv
<1> SUFFICES ASSUME NEW w \in Slots, slot'[w].step \in Claiming, NEW j, j = slot[w].job,
                    slot'[w].job = j
             PROVE  Position(j)' <= slot'[w].pos
  BY DEF PositionInv, Position, UpTo, Waiting
<1>1. slot[w].step \in Claiming /\ slot'[w].pos = slot[w].pos
  OBVIOUS
<1>2. j \in Jobs /\ RowLocked(j)
  BY <1>1 DEF WorkInv, RowLocked, Claiming
<1>3. UpTo(j)' \subseteq UpTo(j) /\ UpTo(j) \subseteq Jobs
  BY <1>2 DEF UpTo, Waiting, TypeOK
<1>4. /\ Cardinality(UpTo(j)') <= Cardinality(UpTo(j))
      /\ Cardinality(UpTo(j)') \in Nat /\ Cardinality(UpTo(j)) \in Nat
  BY <1>3, FewerHolders
<1>5. Cardinality(UpTo(j)) <= slot[w].pos /\ slot[w].pos \in Nat
  BY <1>1 DEF PositionInv, Position, TypeOK, SlotState
<1> QED BY <1>1, <1>4, <1>5 DEF Position

\* A claim reads its position, and no step of a coroutine adds a row ahead of it.
LEMMA SlotStepPosition ==
  ASSUME AdmissionInv, QueuedHasNoToken, PositionInv, NEW w \in Slots, SlotStepAction(w)
  PROVE  PositionInv'
<1> USE DEF AdmissionInv
<1> DEFINE Kept(v) == slot'[v].step \in Claiming =>
             slot[v].step \in Claiming /\ slot'[v].job = slot[v].job /\ slot'[v].pos = slot[v].pos
<1>1. ahead' = ahead
  BY DEF SlotStepAction, SlotProgress, Ignore, Enter, CountHolders, TakeToken, Redeliver,
         Confirm, PauseGate, Pause, EndRun, SetStatus, TimeOut, Release, Wake, StepLost
<1>0. DOMAIN slot' = Slots
  BY DEF SlotStepAction, SlotProgress, Ignore, Enter, CountHolders, TakeToken, Redeliver, TypeOK,
         Confirm, PauseGate, Pause, EndRun, SetStatus, TimeOut, Release, Wake, StepLost
<1>2. ASSUME NEW j \in Jobs, Enter(w, j)
      PROVE  PositionInv'
  <2>1. /\ slot'[w].job = j /\ slot'[w].pos = Position(j)
        /\ \A v \in Slots : v # w => slot'[v] = slot[v]
    BY <1>2 DEF Enter, IdleSlot, TypeOK
  <2>2. status' = status /\ token' = token
    BY <1>2 DEF Enter
  <2>3. \A i : Position(i)' = Position(i)
    BY <1>1, <2>2 DEF Position, UpTo, Waiting
  <2>4. Position(j) \in Nat
    BY <1>2, PositionPositive DEF Enter
  <2> SUFFICES ASSUME NEW v \in Slots, slot'[v].step \in Claiming, NEW i, i = slot'[v].job
               PROVE  Position(i)' <= slot'[v].pos
    BY <1>0 DEF PositionInv, Position, UpTo, Waiting
  <2>5. CASE v = w
    BY <2>1, <2>3, <2>4, <2>5
  <2>6. CASE v # w
    BY <2>1, <2>3, <2>6 DEF PositionInv, TypeOK
  <2> QED BY <2>5, <2>6
<1>3. CASE CountHolders(w)
  <2>1. status' = status /\ token' = token
    BY <1>3 DEF CountHolders
  <2>2. \A v \in Slots : Kept(v)
    <3>1. \A v \in Slots : v # w => slot'[v] = slot[v]
      BY <1>3 DEF CountHolders, TypeOK
    <3>2. /\ slot[w].step \in Claiming /\ slot'[w].job = slot[w].job
          /\ slot'[w].pos = slot[w].pos \/ slot'[w].step \notin Claiming
      BY <1>3 DEF CountHolders, TypeOK, SlotState, Claiming
    <3> QED BY <3>1, <3>2
  <2> QED BY <1>1, <1>0, <2>1, <2>2, PositionFrame
<1>4. CASE TakeToken(w)
  <2>1. \A v \in Slots : Kept(v)
    BY <1>4 DEF TakeToken, TypeOK, IdleSlot, Claiming
  <2>2. slot[w].job \in Jobs
    BY <1>4 DEF TakeToken, WorkInv
  <2>3. \A i \in Jobs : status'[i] = "queued" => status'[i] = status[i] /\ token'[i] = token[i]
    BY <1>4, <2>2 DEF TakeToken, TypeOK
  <2> QED BY <1>1, <1>0, <2>1, <2>3, PositionFrame DEF TypeOK
<1>5. CASE ~(\E j \in Jobs : Enter(w, j)) /\ ~CountHolders(w) /\ ~TakeToken(w)
  <2>1. \A v \in Slots : Kept(v)
    <3>1. CASE slot' = slot
      BY <3>1
    <3>2. CASE \/ slot' = [slot EXCEPT ![w] = IdleSlot]
               \/ \E s \in {"gate", "pausing", "run", "release", "wake"} :
                    slot' = [slot EXCEPT ![w].step = s]
      <4>1. slot'[w].step \notin Claiming /\ \A v \in Slots : v # w => slot'[v] = slot[v]
        BY <3>2 DEF TypeOK, SlotState, IdleSlot, Claiming
      <4> QED BY <4>1
    <3>3. CASE Confirm(w) \/ PauseGate(w) \/ TimeOut(w) \/ Pause(w) \/ EndRun(w)
      BY <3>3, <3>2 DEF Confirm, PauseGate, TimeOut, Pause, EndRun, SetStatus
    <3>4. CASE Redeliver(w) \/ Release(w) \/ Wake(w) \/ StepLost(w)
      BY <3>4, <3>2 DEF Redeliver, Release, Wake, StepLost
    <3> QED BY <1>5, <3>1, <3>3, <3>4 DEF SlotStepAction, SlotProgress, Ignore
  <2>2. \A i \in Jobs : status'[i] = "queued" /\ token'[i] = None =>
          status[i] = "queued" /\ token[i] = None
    <3>1. CASE Release(w)
      <4>1. slot[w].job \in Jobs /\ slot[w].tok # None
        BY <3>1 DEF Release, WorkInv, Executing
      <4> QED BY <3>1, <4>1 DEF Release, Owns, QueuedHasNoToken, TypeOK
    <3>2. CASE Pause(w) \/ EndRun(w)
      <4>1. PICK s \in {"paused", "done", "failed", "partial", "cancelled"} : SetStatus(w, s)
        BY <3>2 DEF Pause, EndRun
      <4> QED BY <4>1 DEF SetStatus, TypeOK
    <3>3. CASE token' = token /\ status' = status
      BY <3>3
    <3> QED BY <1>5, <3>1, <3>2, <3>3
            DEF SlotStepAction, SlotProgress, Ignore, Redeliver, Confirm, PauseGate, TimeOut,
                Wake, StepLost
  <2> QED BY <1>1, <1>0, <2>1, <2>2, PositionFrame DEF TypeOK
<1> QED BY <1>2, <1>3, <1>4, <1>5

\* A row that is submitted or retried goes behind every row that is being claimed.
LEMMA JobStepPosition ==
  ASSUME AdmissionInv, PositionInv, NEW i \in Jobs, JobStep(i)
  PROVE  PositionInv'
<1> USE DEF AdmissionInv
<1>1. slot' = slot
  BY DEF JobStep, Submit, SendSubmitted, SendSubmittedFails, Cancel, CronRetry, CronRetryFails,
         RestoreTransport, LoseDelivery
<1>2. \A j \in Jobs : RowLocked(j) => status[j] = "queued"
  BY DEF RowLocked, ClaimInv, Waiting
<1>3. CASE Submit(i) \/ CronRetry(i) \/ CronRetryFails(i)
  <2>1. NewTicket(i) /\ ~RowLocked(i)
    BY <1>2, <1>3 DEF Submit, CronRetry, CronRetryFails
  <2>2. \A j \in Jobs : j # i => ahead'[j] = ahead[j] \ {i}
    BY <2>1 DEF NewTicket
  <2>3. \A j \in Jobs : j # i => status'[j] = status[j] /\ token'[j] = token[j]
    BY <1>3 DEF Submit, CronRetry, CronRetryFails, TypeOK
  <2> QED BY <1>1, <2>1, <2>2, <2>3, PositionFrame DEF TypeOK
<1>4. CASE SendSubmitted(i) \/ SendSubmittedFails(i) \/ Cancel(i) \/ RestoreTransport(i) \/ LoseDelivery(i)
  <2>1. ahead' = ahead /\ token' = token
    BY <1>4 DEF SendSubmitted, SendSubmittedFails, Cancel, RestoreTransport, LoseDelivery
  <2>2. \A j \in Jobs : status'[j] = status[j] \/ status'[j] \in {"failed", "cancelled"}
    BY <1>4 DEF SendSubmitted, SendSubmittedFails, Cancel, RestoreTransport, LoseDelivery, TypeOK
  <2> QED BY <1>1, <2>1, <2>2, PositionFrame DEF TypeOK
<1> QED BY <1>3, <1>4 DEF JobStep

\* Every step keeps the order of admission, where no row is requeued behind its
\* execution.
LEMMA FifoStep ==
  ASSUME AdmissionInv, FifoInv, [Next]_vars
  PROVE  FifoInv'
<1> USE DEF AdmissionInv
<1> SUFFICES ASSUME NoStaleRequeue, OnlyPauseOrReap, QueuedHasNoToken, PositionInv
             PROVE  OnlyPauseOrReap' /\ QueuedHasNoToken' /\ PositionInv'
  BY DEF FifoInv, NoStaleRequeue, OnlyPauseOrReap, QueuedHasNoToken
<1>1. OnlyPauseOrReap' /\ QueuedHasNoToken'
  BY OnlyPauseOrReapStep, QueuedHasNoTokenStep
<1>2. PositionInv'
  <2>1. CASE UNCHANGED vars
    BY <2>1 DEF vars, PositionInv, Position, UpTo, Waiting
  <2>2. CASE ClearFinished
    <3>1. slot' = slot /\ ahead' = ahead
      BY <2>2 DEF ClearFinished
    <3>2. \A i \in Jobs : status'[i] = "queued" => status[i] = "queued" /\ token'[i] = token[i]
      BY <2>2 DEF ClearFinished, Terminal, TypeOK
    <3> QED BY <3>1, <3>2, PositionFrame DEF TypeOK
  <2>3. ASSUME NEW r \in Requests, RequestStep(r)
        PROVE  PositionInv'
    <3>1. slot' = slot /\ token' = token /\ ahead' = ahead
      BY <2>3, CommitsPlainly
    <3>2. \A i \in Jobs : status'[i] = "queued" => status[i] = "queued"
      BY <2>3, CommitsPlainly
    <3> QED BY <3>1, <3>2, PositionFrame DEF TypeOK
  <2>4. CASE Crash
    BY <2>4 DEF Crash, PositionInv, IdleSlot, Claiming
  <2>5. CASE BootStep
    <3>1. slot' = slot /\ \A w \in Slots : slot[w].step = "idle"
      BY <2>5 DEF BootStep, BootLoad, BootRunning, BootQueued, BootPaused, RecoverStaleTokens,
                  DownInv, Worker, Active
    <3> QED BY <3>1 DEF PositionInv, Claiming, TypeOK
  <2> QED BY <2>1, <2>2, <2>3, <2>4, <2>5, JobStepPosition, SlotStepPosition DEF Next
<1> QED BY <1>1, <1>2

\* The position a claim has read bounds the rows ahead of its own until it takes
\* the token.
THEOREM PositionsHold == Spec => []FifoInv
<1>1. Init => FifoInv
  BY InitFifo
<1>2. AdmissionInv /\ FifoInv /\ [Next]_vars => FifoInv'
  BY FifoStep
<1> QED BY <1>1, <1>2, AdmissionCorrect, PTL DEF Spec

\* Rows are admitted in ticket order: one that takes a token leaves room for every
\* waiting row of its key that came before it.
THEOREM AdmissionIsFifo ==
  ASSUME NoStaleRequeue
  PROVE  Spec => FifoAdmission
<1> DEFINE Admits(j) == token[j] = None /\ token'[j] # None
           Fits(j) == Cardinality(UpTo(j)) + Cardinality(Holders(KeyOf[j])) <= Capacity(KeyOf[j])
<1>1. AdmissionInv /\ FifoInv /\ [Next]_vars => \A j \in Jobs : Admits(j) => Fits(j)
  <2> SUFFICES ASSUME AdmissionInv, FifoInv, [Next]_vars, NEW j \in Jobs, Admits(j)
               PROVE  Fits(j)
    OBVIOUS
  <2>1. PICK w \in Slots : TakeToken(w)
    <3>1. CASE \E w \in Slots : (\E i \in Jobs : Enter(w, i)) \/ CountHolders(w)
      BY <3>1 DEF Enter, CountHolders
    <3>2. CASE Crash
      BY <3>2 DEF Crash
    <3> QED BY <3>1, <3>2, QuietStep
  <2>2. slot[w].step = "counted" /\ slot[w].job = j
    BY <2>1, TakeTokenGrants DEF TakeToken, AdmissionInv, TypeOK
  <2>3. Cardinality(UpTo(j)) <= slot[w].pos
    BY <2>2 DEF FifoInv, PositionInv, Position, Claiming, AdmissionInv, TypeOK
  <2>4. Cardinality(Holders(KeyOf[j])) <= slot[w].held /\ slot[w].pos <= Capacity(KeyOf[j]) - slot[w].held
    BY <2>2 DEF AdmissionInv, CountInv
  <2>5. slot[w].pos \in Nat /\ slot[w].held \in Nat
    BY DEF AdmissionInv, TypeOK, SlotState
  <2>6. Cardinality(UpTo(j)) \in Nat /\ Cardinality(Holders(KeyOf[j])) \in Nat
    BY FiniteRows DEF UpTo, Holders, AdmissionInv, TypeOK
  <2>7. Capacity(KeyOf[j]) \in Int
    BY CapacityPositive
  <2> QED BY <2>3, <2>4, <2>5, <2>6, <2>7
<1>2. AdmissionInv /\ FifoInv /\ [Next]_vars => [\A j \in Jobs : Admits(j) => Fits(j)]_vars
  BY <1>1
<1> QED BY <1>2, AdmissionCorrect, PositionsHold, PTL DEF Spec, FifoAdmission
=============================================================================
