---------------------- MODULE DownloadAdmission_proofs ----------------------
(***************************************************************************)
(* Proofs about DownloadAdmission for every set of rows, keys, coroutines, *)
(* tokens and requests: AdmissionInv is inductive, hence the capacity of a *)
(* source is respected and a token is a fence; and the claim protocol      *)
(* implements the abstract pool of permits.                                *)
(***************************************************************************)
EXTENDS DownloadAdmission, FiniteSetTheorems, TLAPS

USE KeysAssumption, ConcurrencyAssumption, FiniteAssumption, NoneAssumption,
    BoundsAssumption

-----------------------------------------------------------------------------
(* Facts about the queries. *)

\* A query over download_jobs returns a finite set of rows.
LEMMA FiniteRows ==
  ASSUME NEW S, S \subseteq Jobs
  PROVE  IsFiniteSet(S) /\ Cardinality(S) \in Nat
  BY FS_Subset, FS_CardinalityType

\* The capacity of a key is a positive integer.
LEMMA CapacityPositive ==
  ASSUME NEW k \in Keys
  PROVE  Capacity(k) \in Int /\ Capacity(k) >= 1
  BY DEF Capacity

\* Fewer holders are not more holders.
LEMMA FewerHolders ==
  ASSUME NEW S, NEW T, T \subseteq Jobs, S \subseteq T
  PROVE  /\ Cardinality(S) \in Nat /\ Cardinality(T) \in Nat
         /\ Cardinality(S) <= Cardinality(T)
  BY FiniteRows, FS_Subset

\* The FIFO position of a waiting row is a positive number.
LEMMA PositionPositive ==
  ASSUME TypeOK, NEW j \in Jobs, Waiting(j)
  PROVE  Position(j) \in Nat /\ Position(j) >= 1
<1>1. UpTo(j) \subseteq Jobs /\ j \in UpTo(j)
  BY DEF UpTo, TypeOK
<1>2. IsFiniteSet(UpTo(j)) /\ Cardinality(UpTo(j)) \in Nat
  BY <1>1, FiniteRows
<1>3. Cardinality(UpTo(j)) # 0
  BY <1>1, <1>2, FS_EmptySet
<1> QED BY <1>2, <1>3 DEF Position

-----------------------------------------------------------------------------
(* The type invariant. *)

\* The initial state is well typed.
LEMMA InitType == Init => TypeOK
  BY DEF Init, TypeOK, Status, SlotState, SlotStep, IdleSlot, ReqState, IdleReq, BootState,
         Phases

\* An idle coroutine and an idle request are well typed.
LEMMA IdleTypes == IdleSlot \in SlotState /\ IdleReq \in ReqState
  BY DEF SlotState, SlotStep, IdleSlot, ReqState, IdleReq, Status

\* Taking a delivery and adding one keep the counts of deliveries in range.
LEMMA OneMoreType ==
  ASSUME NEW n \in 0..MaxDispatch
  PROVE  OneMore(n) \in 0..MaxDispatch
  BY DEF OneMore

\* Taking a delivery leaves the delivery records well typed.
LEMMA ConsumeType ==
  ASSUME TypeOK, NEW j \in Jobs, Deliverable(j), Consume(j)
  PROVE  canonical' \in [Jobs -> BOOLEAN] /\ dispatch' \in [Jobs -> 0..MaxDispatch]
<1>1. CASE canonical[j]
  BY <1>1 DEF Consume, TypeOK
<1>2. CASE ~canonical[j]
  <2>1. dispatch[j] \in 0..MaxDispatch /\ dispatch[j] > 0
    BY <1>2 DEF Deliverable, TypeOK
  <2>2. dispatch[j] - 1 \in 0..MaxDispatch
    BY <2>1
  <2> QED BY <1>2, <2>2 DEF Consume, TypeOK
<1> QED BY <1>1, <1>2

\* Adding a "dispatch:" delivery leaves the delivery records well typed.
LEMMA DispatchType ==
  ASSUME TypeOK, NEW j \in Jobs, Dispatch(j)
  PROVE  canonical' \in [Jobs -> BOOLEAN] /\ dispatch' \in [Jobs -> 0..MaxDispatch]
  BY OneMoreType DEF Dispatch, TypeOK

\* Adding a delivery under compute_job_key leaves the delivery records well typed.
LEMMA SendRetryType ==
  ASSUME TypeOK, NEW S, SendRetry(S)
  PROVE  canonical' \in [Jobs -> BOOLEAN] /\ dispatch' \in [Jobs -> 0..MaxDispatch]
<1>1. \A j \in Jobs : dispatch[j] \in 0..MaxDispatch /\ OneMore(dispatch[j]) \in 0..MaxDispatch
  BY OneMoreType DEF TypeOK
<1> QED BY <1>1 DEF SendRetry, TypeOK

\* The API steps keep the types.
LEMMA JobStepType ==
  ASSUME TypeOK, NEW j \in Jobs, JobStep(j)
  PROVE  TypeOK'
<1> USE DEF TypeOK, Status, Active, Terminal
<1>1. CASE Submit(j)
  BY <1>1 DEF Submit, NewTicket
<1>2. CASE SendSubmitted(j)
  BY <1>2 DEF SendSubmitted
<1>3. CASE SendSubmittedFails(j)
  BY <1>3 DEF SendSubmittedFails, Fault
<1>4. CASE Cancel(j)
  BY <1>4 DEF Cancel
<1>5. CASE CronRetry(j)
  BY <1>5, SendRetryType DEF CronRetry, NewTicket
<1>6. CASE RestoreTransport(j)
  BY <1>6, DispatchType DEF RestoreTransport
<1>7. CASE LoseDelivery(j)
  <2>1. faults' \in 0..MaxFaults
    BY <1>7 DEF LoseDelivery, Fault
  <2>2. canonical' \in [Jobs -> BOOLEAN] /\ dispatch' \in [Jobs -> 0..MaxDispatch]
    BY <1>7, ConsumeType DEF LoseDelivery
  <2> QED BY <1>7, <2>1, <2>2 DEF LoseDelivery
<1>8. CASE CronRetryFails(j)
  BY <1>8 DEF CronRetryFails, NewTicket, Fault
<1> QED BY <1>1, <1>2, <1>3, <1>4, <1>5, <1>6, <1>7, <1>8 DEF JobStep

\* The ORM handlers (routers/download.py, worker/retry.py) keep the types.
LEMMA RequestStepType ==
  ASSUME TypeOK, WorkInv, NEW r \in Requests, RequestStep(r)
  PROVE  TypeOK'
<1> USE DEF TypeOK
<1>1. ASSUME NEW op \in RequestOps, NEW j \in Jobs, ReadRow(r, op, j)
      PROVE  TypeOK'
  <2>1. req'[r] \in ReqState
    BY <1>1 DEF ReadRow, ReqState
  <2>2. req' \in [Requests -> ReqState]
    BY <1>1, <2>1 DEF ReadRow
  <2>3. pauseKey' \in [Jobs -> BOOLEAN]
    BY <1>1 DEF ReadRow, RequestOps
  <2> QED BY <1>1, <2>2, <2>3 DEF ReadRow
<1>2. CASE Send(r)
  <2>1. req[r].job \in Jobs
    BY <1>2 DEF Send, WorkInv
  <2>2. req' \in [Requests -> ReqState]
    BY <1>2, SMTT(30) DEF Send, ReqState
  <2>3. dispatch' \in [Jobs -> 0..MaxDispatch] /\ canonical' \in [Jobs -> BOOLEAN]
    BY <1>2, <2>1, SendRetryType, DispatchType DEF Send
  <2> QED BY <1>2, <2>2, <2>3 DEF Send
<1>3. CASE Abandon(r)
  BY <1>3, IdleTypes DEF Abandon, Fault
<1>4. CASE CommitPlain(r)
  <2>1. req[r].job \in Jobs /\ req[r].op \in {"pause", "resume", "reap"}
    BY <1>4 DEF CommitPlain, WorkInv, RequestOps, MustSend
  <2>2. status' \in [Jobs -> Status]
    BY <1>4, <2>1 DEF CommitPlain, Written, Status, Active, Terminal
  <2> QED BY <1>4, <2>2, IdleTypes DEF CommitPlain
<1>5. CASE CommitRequeue(r)
  <2>1. req[r].job \in Jobs /\ req[r].count \in Nat
    BY <1>5 DEF CommitRequeue, WorkInv, ReqState
  <2>2. status' \in [Jobs -> Status] /\ token' \in [Jobs -> Tokens \cup {None}]
    BY <1>5, <2>1 DEF CommitRequeue, Written, Status, Active
  <2>3. ahead' \in [Jobs -> SUBSET Jobs] /\ retries' \in [Jobs -> Nat]
    BY <1>5, <2>1 DEF CommitRequeue, NewTicket
  <2> QED BY <1>5, <2>2, <2>3, IdleTypes DEF CommitRequeue
<1> QED BY <1>1, <1>2, <1>3, <1>4, <1>5 DEF RequestStep

\* A coroutine that moves to its next step keeps its type.
LEMMA MoveType ==
  ASSUME slot \in [Slots -> SlotState], NEW w \in Slots, NEW s \in SlotStep
  PROVE  [slot EXCEPT ![w].step = s] \in [Slots -> SlotState]
<1>1. [slot[w] EXCEPT !.step = s] \in SlotState
  BY DEF SlotState
<1> QED BY <1>1

\* The named steps of a coroutine are steps of its type.
LEMMA StepNames ==
  {"idle", "waiting", "entered", "counted", "confirm", "gate", "pausing", "run", "release", "wake"}
    \subseteq SlotStep
  BY DEF SlotStep, Claiming, Executing

\* The slot steps keep the types.
LEMMA SlotStepType ==
  ASSUME TypeOK, WorkInv, NEW w \in Slots, SlotStepAction(w)
  PROVE  TypeOK'
<1> USE DEF TypeOK
<1>1. ASSUME NEW j \in Jobs, Ignore(w, j)
      PROVE  TypeOK'
  BY <1>1, ConsumeType DEF Ignore
<1>2. ASSUME NEW j \in Jobs, Enter(w, j)
      PROVE  TypeOK'
  <2>1. Position(j) \in Nat
    BY <1>2, PositionPositive DEF Enter
  <2>2. slot' \in [Slots -> SlotState]
    BY <1>2, <2>1 DEF Enter, SlotState, SlotStep, IdleSlot, Claiming
  <2>3. lock' \in [Keys -> Slots \cup {None}]
    BY <1>2 DEF Enter
  <2> QED BY <1>2, <2>2, <2>3, ConsumeType DEF Enter
<1>3. CASE CountHolders(w)
  <2>1. Cardinality(Holders(KeyOf[slot[w].job])) \in Nat
    BY FiniteRows DEF Holders
  <2>2. slot' \in [Slots -> SlotState]
    <3> DEFINE n == Cardinality(Holders(KeyOf[slot[w].job]))
    <3> slot[w] \in SlotState
      OBVIOUS
    <3>1. [slot[w] EXCEPT !.step = "counted", !.held = n] \in SlotState
      <4> HIDE DEF n, TypeOK
      <4> n \in Nat
        BY <2>1 DEF n
      <4> QED BY StepNames DEF SlotState
    <3>2. [slot[w] EXCEPT !.step = "waiting", !.pos = 0] \in SlotState
      <4> HIDE DEF TypeOK
      <4> QED BY StepNames DEF SlotState
    <3>3. \/ slot' = [slot EXCEPT ![w] = [slot[w] EXCEPT !.step = "counted", !.held = n]]
          \/ slot' = [slot EXCEPT ![w] = [slot[w] EXCEPT !.step = "waiting", !.pos = 0]]
      BY <1>3 DEF CountHolders
    <3> QED BY <3>1, <3>2, <3>3
  <2>3. lock' \in [Keys -> Slots \cup {None}]
    BY <1>3 DEF CountHolders
  <2> QED BY <1>3, <2>2, <2>3 DEF CountHolders
<1>4. CASE TakeToken(w)
  <2>1. PICK t \in Tokens :
          /\ token' = [token EXCEPT ![slot[w].job] = t]
          /\ slot' = [slot EXCEPT ![w] = [IdleSlot EXCEPT !.step = "confirm",
                                            !.job = slot[w].job, !.tok = t]]
    BY <1>4 DEF TakeToken
  <2>2. slot' \in [Slots -> SlotState]
    BY <2>1 DEF SlotState, SlotStep, IdleSlot, Executing
  <2>3. token' \in [Jobs -> Tokens \cup {None}]
    BY <2>1
  <2>4. status' \in [Jobs -> Status] /\ lock' \in [Keys -> Slots \cup {None}]
    BY <1>4 DEF TakeToken, Status, Active
  <2> QED BY <1>4, <2>2, <2>3, <2>4 DEF TakeToken
<1>5. CASE Redeliver(w)
  <2>1. slot[w].job \in Jobs
    BY <1>5 DEF Redeliver, WorkInv
  <2> QED BY <1>5, <2>1, IdleTypes, DispatchType DEF Redeliver
<1>6. CASE Confirm(w)
  <2>1. slot' \in [Slots -> SlotState]
    BY <1>6, MoveType, StepNames DEF Confirm
  <2> QED BY <1>6, <2>1 DEF Confirm
<1>7. CASE PauseGate(w)
  <2>1. slot' \in [Slots -> SlotState]
    BY <1>7, MoveType, StepNames DEF PauseGate
  <2> QED BY <1>7, <2>1 DEF PauseGate
<1>8. ASSUME NEW s \in Status, SetStatus(w, s)
      PROVE  TypeOK'
  <2>1. slot' \in [Slots -> SlotState]
    BY <1>8, MoveType, StepNames DEF SetStatus
  <2>2. status' \in [Jobs -> Status]
    BY <1>8 DEF SetStatus
  <2> QED BY <1>8, <2>1, <2>2 DEF SetStatus
<1>9. CASE Pause(w)
  BY <1>9, <1>8 DEF Pause, Status, Active
<1>10. CASE EndRun(w)
  BY <1>10, <1>8 DEF EndRun, Status, Terminal
<1>11. CASE TimeOut(w)
  <2>1. slot' \in [Slots -> SlotState]
    BY <1>11, MoveType, StepNames DEF TimeOut
  <2> QED BY <1>11, <2>1 DEF TimeOut
<1>12. CASE Release(w)
  <2>1. slot' \in [Slots -> SlotState]
    BY <1>12, IdleTypes, MoveType, StepNames DEF Release
  <2>2. token' \in [Jobs -> Tokens \cup {None}]
    BY <1>12 DEF Release
  <2> QED BY <1>12, <2>1, <2>2 DEF Release
<1>13. CASE Wake(w)
  <2>1. Oldest(KeyOf[slot[w].job]) \subseteq Jobs
    BY DEF Oldest
  <2>2. canonical' \in [Jobs -> BOOLEAN] /\ dispatch' \in [Jobs -> 0..MaxDispatch]
    BY <1>13, <2>1, DispatchType DEF Wake
  <2> QED BY <1>13, <2>2, IdleTypes DEF Wake
<1>14. CASE StepLost(w)
  BY <1>14, IdleTypes DEF StepLost, Fault
<1> QED
  BY <1>1, <1>2, <1>3, <1>4, <1>5, <1>6, <1>7, <1>9, <1>10, <1>11, <1>12, <1>13, <1>14
     DEF SlotStepAction, SlotProgress

\* Startup recovery (worker/__init__.py) keeps the types.
LEMMA RecoveryType ==
  ASSUME TypeOK, Crash \/ BootStep
  PROVE  TypeOK'
<1> USE DEF TypeOK, BootState, Phases, NextPhase
<1>1. CASE Crash
  BY <1>1, IdleTypes DEF Crash, Fault
<1>2. CASE BootLoad
  <2>1. boot' \in BootState
    BY <1>2 DEF BootLoad
  <2> QED BY <1>2, <2>1 DEF BootLoad
<1>3. ASSUME NEW S, NEW s \in {"queued", "failed"}, Overwrite(S, s)
      PROVE  status' \in [Jobs -> Status]
  BY <1>3 DEF Overwrite, Status, Active, Terminal
<1>4. ASSUME NEW S, Count(S)
      PROVE  retries' \in [Jobs -> Nat]
  BY <1>4 DEF Count
<1>5. ASSUME NEW S, DropTokens(S)
      PROVE  token' \in [Jobs -> Tokens \cup {None}]
  BY <1>5 DEF DropTokens
<1>6. ASSUME NEW S, Unpause(S)
      PROVE  pauseKey' \in [Jobs -> BOOLEAN]
  BY <1>6 DEF Unpause
<1>7. ASSUME NEW sent, NEW S, Enqueued(sent, S)
      PROVE  faults' \in 0..MaxFaults
  BY <1>7 DEF Enqueued, Fault
<1>8. CASE BootRunning
  <2>1. boot' \in BootState
    BY <1>8 DEF BootRunning
  <2>2. status' \in [Jobs -> Status] /\ retries' \in [Jobs -> Nat] /\ faults' \in 0..MaxFaults
    BY <1>8, <1>3, <1>4, <1>7 DEF BootRunning
  <2>3. canonical' \in [Jobs -> BOOLEAN] /\ dispatch' \in [Jobs -> 0..MaxDispatch]
    BY <1>8, SendRetryType DEF BootRunning
  <2> QED BY <1>8, <1>5, <2>1, <2>2, <2>3 DEF BootRunning
<1>9. CASE BootQueued
  <2>1. boot' \in BootState
    BY <1>9 DEF BootQueued
  <2>2. dispatch' \in [Jobs -> 0..MaxDispatch] /\ faults' \in 0..MaxFaults
    BY <1>9, <1>7, OneMoreType DEF BootQueued
  <2> QED BY <1>9, <1>5, <2>1, <2>2 DEF BootQueued
<1>10. CASE BootPaused
  <2>1. boot' \in BootState
    BY <1>10 DEF BootPaused
  <2>2. status' \in [Jobs -> Status]
    BY <1>10, <1>3 DEF BootPaused, Status, Active, Terminal
  <2>3. retries' \in [Jobs -> Nat] /\ faults' \in 0..MaxFaults
    BY <1>10, <1>4, <1>7 DEF BootPaused
  <2>4. canonical' \in [Jobs -> BOOLEAN] /\ dispatch' \in [Jobs -> 0..MaxDispatch]
    BY <1>10, SendRetryType DEF BootPaused
  <2>5. pauseKey' \in [Jobs -> BOOLEAN]
    BY <1>10, <1>6 DEF BootPaused
  <2> QED BY <1>10, <1>5, <2>1, <2>2, <2>3, <2>4, <2>5 DEF BootPaused
<1>11. CASE RecoverStaleTokens
  <2>1. token' \in [Jobs -> Tokens \cup {None}] /\ faults' \in 0..MaxFaults
    BY <1>11 DEF RecoverStaleTokens, Fault
  <2> QED BY <1>11, <2>1 DEF RecoverStaleTokens
<1> QED BY <1>1, <1>2, <1>8, <1>9, <1>10, <1>11 DEF BootStep

\* Every step of the system keeps the types.
LEMMA TypeStep ==
  ASSUME TypeOK, WorkInv, [Next]_vars
  PROVE  TypeOK'
<1>1. CASE Next
  <2>1. CASE ClearFinished
    BY <2>1 DEF ClearFinished, TypeOK, Status
  <2> QED BY <1>1, <2>1, JobStepType, RequestStepType, SlotStepType, RecoveryType DEF Next
<1>2. CASE UNCHANGED vars
  BY <1>2 DEF vars, TypeOK
<1> QED BY <1>1, <1>2

-----------------------------------------------------------------------------
(* The inductive invariant. *)

\* The initial state satisfies the inductive invariant.
LEMMA InitInv == Init => AdmissionInv
<1> SUFFICES ASSUME Init PROVE AdmissionInv
  OBVIOUS
<1>1. TypeOK
  BY InitType
<1>2. WorkInv /\ ClaimInv /\ CountInv /\ DownInv /\ RequestInv /\ TokensDistinct
  BY DEF Init, WorkInv, ClaimInv, CountInv, DownInv, RequestInv, TokensDistinct, IdleSlot,
         IdleReq, Executing, Claiming
<1>3. CapacityRespected
  <2> SUFFICES ASSUME NEW k \in Keys PROVE Cardinality(Holders(k)) <= Capacity(k)
    BY DEF CapacityRespected
  <2>1. Holders(k) = {}
    BY DEF Init, Holders
  <2> QED BY <2>1, CapacityPositive, FS_EmptySet
<1> QED BY <1>1, <1>2, <1>3 DEF AdmissionInv

\* A busy coroutine keeps its row, an execution its token, a request its row.
LEMMA WorkStep ==
  ASSUME TypeOK, WorkInv, ClaimInv, [Next]_vars
  PROVE  WorkInv'
<1> USE DEF WorkInv
<1>1. CASE UNCHANGED vars
  BY <1>1 DEF vars
<1>2. ASSUME NEW j \in Jobs, JobStep(j)
      PROVE  WorkInv'
  BY <1>2 DEF JobStep, Submit, SendSubmitted, SendSubmittedFails, Cancel, CronRetry, CronRetryFails,
              RestoreTransport, LoseDelivery
<1>3. CASE ClearFinished
  BY <1>3 DEF ClearFinished
<1>4. ASSUME NEW r \in Requests, RequestStep(r)
      PROVE  WorkInv'
  <2>1. slot' = slot
    BY <1>4 DEF RequestStep, ReadRow, Send, Abandon, CommitPlain, CommitRequeue
  <2>2. \A q \in Requests : q # r => req'[q] = req[q]
    BY <1>4 DEF RequestStep, ReadRow, Send, Abandon, CommitPlain, CommitRequeue, TypeOK
  <2>3. req'[r].step # "idle" => req'[r].job \in Jobs /\ req'[r].op \in RequestOps
    <3>1. ASSUME NEW op \in RequestOps, NEW j \in Jobs, ReadRow(r, op, j)
          PROVE  req'[r].job \in Jobs /\ req'[r].op \in RequestOps
      BY <3>1 DEF ReadRow, TypeOK
    <3>2. CASE Send(r)
      BY <3>2 DEF Send, TypeOK, ReqState
    <3>3. CASE Abandon(r) \/ CommitPlain(r) \/ CommitRequeue(r)
      BY <3>3 DEF Abandon, CommitPlain, CommitRequeue, IdleReq, TypeOK
    <3> QED BY <1>4, <3>1, <3>2, <3>3 DEF RequestStep
  <2> QED BY <2>1, <2>2, <2>3
<1>5. ASSUME NEW w \in Slots, SlotStepAction(w)
      PROVE  WorkInv'
  <2>1. req' = req /\ \A v \in Slots : v # w => slot'[v] = slot[v]
    BY <1>5, ZenonT(60) DEF SlotStepAction, SlotProgress, Ignore, Enter, CountHolders, TakeToken, Redeliver,
                Confirm, PauseGate, Pause, EndRun, SetStatus, TimeOut, Release, Wake, StepLost,
                TypeOK
  <2> DEFINE Works == /\ slot'[w].step # "idle" => slot'[w].job \in Jobs
                      /\ slot'[w].step \in Executing => slot'[w].tok \in Tokens
  <2>2. Works
    <3> USE DEF Executing, IdleSlot, TypeOK, SlotState
    <3>1. ASSUME NEW j \in Jobs, Ignore(w, j)
          PROVE  Works
      BY <3>1 DEF Ignore
    <3>2. ASSUME NEW j \in Jobs, Enter(w, j)
          PROVE  Works
      BY <3>2 DEF Enter
    <3>3. CASE CountHolders(w)
      BY <3>3 DEF CountHolders
    <3>4. CASE TakeToken(w)
      BY <3>4 DEF TakeToken
    <3>5. CASE Redeliver(w) \/ Wake(w) \/ StepLost(w)
      BY <3>5 DEF Redeliver, Wake, StepLost
    <3>6. CASE Confirm(w) \/ PauseGate(w) \/ TimeOut(w)
      BY <3>6, SMTT(30) DEF Confirm, PauseGate, TimeOut
    <3>7. CASE Pause(w) \/ EndRun(w)
      <4>1. slot[w].step \in Executing /\ slot' = [slot EXCEPT ![w].step = "release"]
        BY <3>7 DEF Pause, EndRun, SetStatus
      <4> QED BY <4>1
    <3>8. CASE Release(w)
      <4>1. /\ slot[w].step \in Executing
            /\ \/ slot' = [slot EXCEPT ![w].step = "wake"]
               \/ slot' = [slot EXCEPT ![w] = IdleSlot]
        BY <3>8 DEF Release, Owns
      <4> QED BY <4>1, SMTT(30)
    <3> QED BY <1>5, <3>1, <3>2, <3>3, <3>4, <3>5, <3>6, <3>7, <3>8
            DEF SlotStepAction, SlotProgress
  <2> QED BY <2>1, <2>2
<1>6. CASE Crash
  BY <1>6 DEF Crash, IdleSlot, IdleReq, Executing
<1>7. CASE BootStep
  BY <1>7 DEF BootStep, BootLoad, BootRunning, BootQueued, BootPaused, RecoverStaleTokens
<1> QED BY <1>1, <1>2, <1>3, <1>4, <1>5, <1>6, <1>7 DEF Next

\* A crash stops every coroutine, and none starts before recovery has ended.
LEMMA DownStep ==
  ASSUME TypeOK, DownInv, [Next]_vars
  PROVE  DownInv'
<1> USE DEF DownInv, Worker
<1>1. CASE UNCHANGED vars
  BY <1>1 DEF vars
<1>2. ASSUME NEW j \in Jobs, JobStep(j)
      PROVE  DownInv'
  BY <1>2 DEF JobStep, Submit, SendSubmitted, SendSubmittedFails, Cancel, CronRetry, CronRetryFails,
              RestoreTransport, LoseDelivery
<1>3. CASE ClearFinished
  BY <1>3 DEF ClearFinished
<1>4. ASSUME NEW r \in Requests, RequestStep(r)
      PROVE  DownInv'
  BY <1>4 DEF RequestStep, ReadRow, Send, Abandon, CommitPlain, CommitRequeue
<1>5. ASSUME NEW w \in Slots, SlotStepAction(w)
      PROVE  DownInv'
  \* every step of a coroutine starts from a worker that is up
  <2>1. boot' = boot /\ (Worker \/ slot[w].step # "idle")
    BY <1>5 DEF SlotStepAction, SlotProgress, Ignore, Enter, CountHolders, TakeToken, Redeliver,
                Confirm, PauseGate, Pause, EndRun, SetStatus, TimeOut, Release, Wake, StepLost
  <2> QED BY <2>1
<1>6. CASE Crash
  BY <1>6 DEF Crash, IdleSlot
<1>7. CASE BootStep
  <2>1. slot' = slot /\ ~Worker
    BY <1>7 DEF BootStep, BootLoad, BootRunning, BootQueued, BootPaused, RecoverStaleTokens,
                Active
  <2> QED BY <2>1
<1> QED BY <1>1, <1>2, <1>3, <1>4, <1>5, <1>6, <1>7 DEF Next

\* What a retry accepted and what a handler enqueued stay as they were read.
LEMMA RequestStepInv ==
  ASSUME TypeOK, RequestInv, [Next]_vars
  PROVE  RequestInv'
<1> USE DEF RequestInv, MustSend
<1>1. CASE req' = req
  BY <1>1
<1>2. ASSUME NEW r \in Requests, RequestStep(r)
      PROVE  RequestInv'
  <2>1. ASSUME NEW op \in RequestOps, NEW j \in Jobs, ReadRow(r, op, j)
        PROVE  RequestInv'
    BY <2>1 DEF ReadRow, Accepts, RequestOps, TypeOK
  <2>2. CASE Send(r)
    BY <2>2 DEF Send, TypeOK, ReqState
  <2>3. CASE Abandon(r) \/ CommitPlain(r) \/ CommitRequeue(r)
    BY <2>3 DEF Abandon, CommitPlain, CommitRequeue, IdleReq, TypeOK
  <2> QED BY <1>2, <2>1, <2>2, <2>3 DEF RequestStep
<1>3. CASE Crash
  BY <1>3 DEF Crash, IdleReq
<1>4. CASE (\E j \in Jobs : JobStep(j)) \/ ClearFinished \/ BootStep
  BY <1>1, <1>4 DEF JobStep, Submit, SendSubmitted, SendSubmittedFails, Cancel, CronRetry, CronRetryFails,
                    RestoreTransport, LoseDelivery, ClearFinished, BootStep, BootLoad,
                    BootRunning, BootQueued, BootPaused, RecoverStaleTokens
<1>5. ASSUME NEW w \in Slots, SlotStepAction(w)
      PROVE  req' = req
  BY <1>5 DEF SlotStepAction, SlotProgress, Ignore, Enter, CountHolders, TakeToken, Redeliver,
              Confirm, PauseGate, Pause, EndRun, SetStatus, TimeOut, Release, Wake, StepLost
<1> QED BY <1>1, <1>2, <1>3, <1>4, <1>5 DEF Next, vars

\* The frame of the claim protocol: a step that leaves the locks, the coroutines
\* that are claiming and the status of their rows alone, and at most takes
\* tokens away, disturbs neither the claims in progress nor the capacity.
LEMMA Frame ==
  ASSUME AdmissionInv,
         lock' = lock,
         \A v \in Slots : \/ slot'[v] = slot[v]
                          \/ /\ slot[v].step \notin Claiming /\ slot'[v].step \notin Claiming
                             /\ slot'[v].tok \in {slot[v].tok, None},
         \A j \in Jobs : token'[j] \in {token[j], None},
         \A j \in Jobs : RowLocked(j) => status'[j] = status[j]
  PROVE  (ClaimInv /\ CountInv /\ CapacityRespected /\ TokensDistinct)'
<1> USE DEF AdmissionInv
<1>1. \A k \in Keys : /\ Cardinality(Holders(k))' <= Cardinality(Holders(k))
                      /\ Cardinality(Holders(k))' \in Nat /\ Cardinality(Holders(k)) \in Nat
  <2> SUFFICES ASSUME NEW k \in Keys
               PROVE  /\ Cardinality(Holders(k))' <= Cardinality(Holders(k))
                      /\ Cardinality(Holders(k))' \in Nat /\ Cardinality(Holders(k)) \in Nat
    OBVIOUS
  <2>1. Holders(k)' \subseteq Holders(k) /\ Holders(k) \subseteq Jobs
    BY DEF Holders
  <2> QED BY <2>1, FewerHolders
<1>2. \A w \in Slots : slot'[w].step \in Claiming => slot'[w] = slot[w]
  OBVIOUS
<1>3. \A w \in Slots : slot[w].step \in Claiming => slot[w].job \in Jobs /\ RowLocked(slot[w].job)
  BY DEF WorkInv, RowLocked, Claiming
<1>4. ClaimInv'
  BY <1>2, <1>3 DEF ClaimInv, Waiting
<1>5. CountInv'
  <2> SUFFICES ASSUME NEW w \in Slots, slot'[w].step = "counted",
                      NEW k, k = KeyOf[slot'[w].job]
               PROVE  Cardinality(Holders(k))' <= slot'[w].held
                      /\ slot'[w].pos <= Capacity(k) - slot'[w].held
    BY DEF CountInv, Holders, Capacity
  <2>1. slot'[w] = slot[w] /\ slot[w].step = "counted" /\ k \in Keys
    BY <1>2, <1>3 DEF Claiming
  <2>2. slot[w].held \in Nat
    BY DEF TypeOK, SlotState
  <2>3. Cardinality(Holders(k)) <= slot[w].held /\ slot[w].pos <= Capacity(k) - slot[w].held
    BY <2>1 DEF CountInv
  <2> QED BY <1>1, <2>1, <2>2, <2>3
<1>6. CapacityRespected'
  <2> SUFFICES ASSUME NEW k \in Keys PROVE Cardinality(Holders(k))' <= Capacity(k)
    BY DEF CapacityRespected, Capacity
  <2> QED BY <1>1, CapacityPositive DEF CapacityRespected
<1>7. TokensDistinct'
  <2>1. \A i, j \in Jobs : token'[i] = token'[j] /\ token'[i] # None => i = j
    BY DEF TokensDistinct
  <2>2. \A v, w \in Slots : slot'[v].tok = slot'[w].tok /\ slot'[v].tok # None => v = w
    BY DEF TokensDistinct
  <2> QED BY <2>1, <2>2 DEF TokensDistinct
<1> QED BY <1>4, <1>5, <1>6, <1>7

\* The claims of two coroutines on one key exclude each other.
LEMMA ClaimExclusive ==
  ASSUME ClaimInv, NEW v \in Slots, NEW w \in Slots,
         slot[v].step \in Claiming, slot[w].step \in Claiming,
         KeyOf[slot[v].job] = KeyOf[slot[w].job]
  PROVE  v = w
  BY DEF ClaimInv

\* A delivery that enters the queue holds the lock of its key and a waiting row.
LEMMA EnterInv ==
  ASSUME AdmissionInv, NEW w \in Slots, NEW j \in Jobs, Enter(w, j)
  PROVE  (ClaimInv /\ CountInv /\ CapacityRespected /\ TokensDistinct)'
<1> USE DEF AdmissionInv
<1>1. /\ slot'[w].step = "entered" /\ slot'[w].job = j /\ slot'[w].tok = None
      /\ slot'[w].pos = Position(j)
      /\ \A v \in Slots : v # w => slot'[v] = slot[v]
  BY DEF Enter, IdleSlot, TypeOK
<1>2. token' = token /\ status' = status /\ lock' = [lock EXCEPT ![KeyOf[j]] = w]
  BY DEF Enter
<1>3. Waiting(j) /\ lock[KeyOf[j]] = None /\ KeyOf[j] \in Keys
  BY DEF Enter
<1>4. \A v \in Slots : v # w /\ slot[v].step \in Claiming =>
        slot[v].job \in Jobs /\ KeyOf[slot[v].job] # KeyOf[j]
  BY <1>3 DEF ClaimInv, WorkInv, Claiming
<1>5. ClaimInv'
  <2> SUFFICES ASSUME NEW v \in Slots, slot'[v].step \in Claiming
               PROVE  /\ lock'[KeyOf[slot'[v].job]] = v
                      /\ status'[slot'[v].job] = "queued" /\ token'[slot'[v].job] = None
                      /\ slot'[v].pos >= 1
    BY DEF ClaimInv, Waiting
  <2>1. CASE v = w
    <3>1. Position(j) >= 1
      BY <1>3, PositionPositive
    <3>2. lock'[KeyOf[j]] = w
      BY <1>2, <1>3 DEF TypeOK
    <3> QED BY <1>1, <1>2, <1>3, <2>1, <3>1, <3>2 DEF Waiting
  <2>2. CASE v # w
    BY <1>1, <1>2, <1>4, <2>2 DEF ClaimInv, Waiting, TypeOK
  <2> QED BY <2>1, <2>2
<1>6. \A k \in Keys : Holders(k)' = Holders(k)
  BY <1>2 DEF Holders
<1>7. CountInv'
  BY <1>1, <1>4, <1>6 DEF CountInv, Capacity, Claiming
<1>8. CapacityRespected' /\ TokensDistinct'
  BY <1>1, <1>2, <1>6 DEF CapacityRespected, Capacity, TokensDistinct
<1> QED BY <1>5, <1>7, <1>8

\* A claim that counted the holders under the lock knows a bound on them.
LEMMA CountHoldersInv ==
  ASSUME AdmissionInv, NEW w \in Slots, CountHolders(w)
  PROVE  (ClaimInv /\ CountInv /\ CapacityRespected /\ TokensDistinct)'
<1> USE DEF AdmissionInv
<1> DEFINE j == slot[w].job
           n == Cardinality(Holders(KeyOf[j]))
<1>1. /\ slot[w].step = "entered" /\ j \in Jobs /\ KeyOf[j] \in Keys
      /\ slot[w].pos \in Nat /\ n \in Nat /\ n <= Capacity(KeyOf[j])
  BY FiniteRows DEF CountHolders, WorkInv, TypeOK, SlotState, Holders, CapacityRespected
<1>2. token' = token /\ status' = status
  BY DEF CountHolders
<1>3. \A k \in Keys : Holders(k)' = Holders(k)
  BY <1>2 DEF Holders
<1>4. /\ \A v \in Slots : v # w => slot'[v] = slot[v]
      /\ slot'[w].job = j /\ slot'[w].tok = slot[w].tok
      /\ \/ /\ slot'[w].step = "counted" /\ slot'[w].held = n /\ slot'[w].pos = slot[w].pos
            /\ slot[w].pos <= Capacity(KeyOf[j]) - n /\ lock' = lock
         \/ slot'[w].step = "waiting" /\ lock' = [lock EXCEPT ![KeyOf[j]] = None]
  BY DEF CountHolders, TypeOK, SlotState
<1>5. \A v \in Slots : v # w /\ slot[v].step \in Claiming =>
        slot[v].job \in Jobs /\ KeyOf[slot[v].job] # KeyOf[j]
  BY <1>1, ClaimExclusive DEF Claiming, WorkInv
<1>6. ClaimInv'
  <2> SUFFICES ASSUME NEW v \in Slots, slot'[v].step \in Claiming
               PROVE  /\ lock'[KeyOf[slot'[v].job]] = v
                      /\ status'[slot'[v].job] = "queued" /\ token'[slot'[v].job] = None
                      /\ slot'[v].pos >= 1
    BY DEF ClaimInv, Waiting
  <2>1. CASE v = w
    BY <1>1, <1>2, <1>4, <2>1 DEF ClaimInv, Waiting, Claiming
  <2>2. CASE v # w
    BY <1>2, <1>4, <1>5, <2>2 DEF ClaimInv, Waiting, TypeOK
  <2> QED BY <2>1, <2>2
<1>7. CountInv'
  <2> SUFFICES ASSUME NEW v \in Slots, slot'[v].step = "counted",
                      NEW k, k = KeyOf[slot'[v].job]
               PROVE  Cardinality(Holders(k))' <= slot'[v].held
                      /\ slot'[v].pos <= Capacity(k) - slot'[v].held
    BY DEF CountInv, Holders, Capacity
  <2>1. CASE v = w
    BY <1>1, <1>3, <1>4, <2>1
  <2>2. CASE v # w
    BY <1>3, <1>4, <1>5, <2>2 DEF CountInv, Claiming
  <2> QED BY <2>1, <2>2
<1>8. CapacityRespected' /\ TokensDistinct'
  <2>1. \A v \in Slots : slot'[v].tok = slot[v].tok
    BY <1>4
  <2> QED BY <1>2, <1>3, <2>1 DEF CapacityRespected, Capacity, TokensDistinct
<1> QED BY <1>6, <1>7, <1>8

\* What a step that takes a token does: it adds one row to the holders of a key
\* that has room for it.
LEMMA TakeTokenGrants ==
  ASSUME AdmissionInv, NEW w \in Slots, TakeToken(w)
  PROVE  LET j == slot[w].job
             k == KeyOf[j] IN
         /\ j \in Jobs /\ k \in Keys /\ j \notin Holders(k)
         /\ \E t \in Tokens : Fresh(t) /\ token' = [token EXCEPT ![j] = t]
         /\ Cardinality(Holders(k)) \in Nat
         /\ Cardinality(Holders(k)) < Capacity(k)
<1> USE DEF AdmissionInv
<1> DEFINE j == slot[w].job
           k == KeyOf[j]
<1>1. slot[w].step = "counted" /\ j \in Jobs /\ k \in Keys
  BY DEF TakeToken, WorkInv
<1>2. token[j] = None /\ slot[w].pos >= 1
  BY <1>1 DEF ClaimInv, Claiming, Waiting
<1>3. Cardinality(Holders(k)) <= slot[w].held /\ slot[w].pos <= Capacity(k) - slot[w].held
  BY <1>1 DEF CountInv
<1>4. slot[w].held \in Nat /\ slot[w].pos \in Nat
  BY DEF TypeOK, SlotState
<1>5. Cardinality(Holders(k)) \in Nat
  BY FiniteRows DEF Holders
<1>6. Cardinality(Holders(k)) < Capacity(k)
  BY <1>1, <1>2, <1>3, <1>4, <1>5, CapacityPositive
<1>7. \E t \in Tokens : Fresh(t) /\ token' = [token EXCEPT ![j] = t]
  BY DEF TakeToken
<1>8. j \notin Holders(k)
  BY <1>2 DEF Holders
<1> QED BY <1>1, <1>5, <1>6, <1>7, <1>8

\* A claim that takes its token keeps the capacity and the fence.
LEMMA TakeTokenInv ==
  ASSUME AdmissionInv, NEW w \in Slots, TakeToken(w)
  PROVE  (ClaimInv /\ CountInv /\ CapacityRespected /\ TokensDistinct)'
<1> USE DEF AdmissionInv
<1> SUFFICES ASSUME NEW j, j = slot[w].job, NEW k, k = KeyOf[j]
             PROVE  (ClaimInv /\ CountInv /\ CapacityRespected /\ TokensDistinct)'
  OBVIOUS
<1>1. /\ j \in Jobs /\ k \in Keys /\ j \notin Holders(k)
      /\ Cardinality(Holders(k)) \in Nat /\ Cardinality(Holders(k)) < Capacity(k)
  BY TakeTokenGrants
<1>2. PICK t \in Tokens :
        /\ Fresh(t)
        /\ token' = [token EXCEPT ![j] = t]
        /\ slot' = [slot EXCEPT ![w] = [IdleSlot EXCEPT !.step = "confirm", !.job = j, !.tok = t]]
  BY DEF TakeToken
<1>3. /\ slot'[w].step \notin Claiming /\ slot'[w].tok = t
      /\ \A v \in Slots : v # w => slot'[v] = slot[v]
  BY <1>2 DEF TypeOK, IdleSlot, Claiming
<1>4. \A v \in Slots : v # w /\ slot[v].step \in Claiming =>
        slot[v].job \in Jobs /\ KeyOf[slot[v].job] # k
  BY ClaimExclusive DEF TakeToken, Claiming, WorkInv
<1>5. ClaimInv'
  <2> SUFFICES ASSUME NEW v \in Slots, v # w, slot[v].step \in Claiming
               PROVE  /\ lock'[KeyOf[slot[v].job]] = v
                      /\ status'[slot[v].job] = "queued" /\ token'[slot[v].job] = None
                      /\ slot[v].pos >= 1
    BY <1>3 DEF ClaimInv, Waiting
  <2>1. slot[v].job \in Jobs /\ slot[v].job # j /\ KeyOf[slot[v].job] # k
    BY <1>4
  <2>2. lock'[KeyOf[slot[v].job]] = v
    BY <2>1 DEF TakeToken, ClaimInv, TypeOK
  <2>3. status'[slot[v].job] = "queued" /\ token'[slot[v].job] = None
    BY <2>1, <1>2 DEF TakeToken, ClaimInv, Waiting, TypeOK
  <2> QED BY <2>2, <2>3 DEF ClaimInv
<1>6. \A c \in Keys : c # k => Holders(c)' = Holders(c)
  BY <1>1, <1>2 DEF Holders, TypeOK
<1>7. CountInv'
  BY <1>3, <1>4, <1>6 DEF CountInv, Claiming, Capacity
<1>8. Cardinality(Holders(k))' = Cardinality(Holders(k)) + 1
  <2>1. Holders(k)' = Holders(k) \cup {j}
    BY <1>1, <1>2 DEF Holders, TypeOK
  <2>2. IsFiniteSet(Holders(k))
    BY FiniteRows DEF Holders
  <2>3. Cardinality(Holders(k) \cup {j}) = Cardinality(Holders(k)) + 1
    <3> HIDE DEF AdmissionInv
    <3> QED BY <1>1, <2>2, FS_AddElement
  <2> QED BY <2>1, <2>3
<1>9. CapacityRespected'
  <2> SUFFICES ASSUME NEW c \in Keys PROVE Cardinality(Holders(c))' <= Capacity(c)
    BY DEF CapacityRespected, Capacity
  <2>1. CASE c = k
    BY <1>1, <1>8, <2>1, CapacityPositive
  <2>2. CASE c # k
    BY <1>6, <2>2 DEF CapacityRespected
  <2> QED BY <2>1, <2>2
<1>10. TokensDistinct'
  <2>1. \A x, y \in Jobs : token'[x] = token'[y] /\ token'[x] # None => x = y
    BY <1>2 DEF TokensDistinct, Fresh, TypeOK
  <2>2. \A u, v \in Slots : slot'[u].tok = slot'[v].tok /\ slot'[u].tok # None => u = v
    BY <1>2, <1>3 DEF TokensDistinct, Fresh
  <2> QED BY <2>1, <2>2 DEF TokensDistinct
<1> QED BY <1>5, <1>7, <1>9, <1>10

\* The steps that neither claim nor take a token satisfy the frame.
LEMMA QuietStep ==
  ASSUME AdmissionInv, [Next]_vars,
         \A w \in Slots : /\ \A j \in Jobs : ~Enter(w, j)
                          /\ ~CountHolders(w) /\ ~TakeToken(w),
         ~Crash
  PROVE  /\ lock' = lock
         /\ \A v \in Slots : \/ slot'[v] = slot[v]
                             \/ /\ slot[v].step \notin Claiming /\ slot'[v].step \notin Claiming
                                /\ slot'[v].tok \in {slot[v].tok, None}
         /\ \A j \in Jobs : token'[j] \in {token[j], None}
         /\ \A j \in Jobs : RowLocked(j) => status'[j] = status[j]
<1> USE DEF AdmissionInv
<1> DEFINE Moves == \A v \in Slots :
             \/ slot'[v] = slot[v]
             \/ /\ slot[v].step \notin Claiming /\ slot'[v].step \notin Claiming
                /\ slot'[v].tok \in {slot[v].tok, None}
           Drops == \A j \in Jobs : token'[j] \in {token[j], None}
           Keeps == \A j \in Jobs : RowLocked(j) => status'[j] = status[j]
           Quiet == lock' = lock /\ Moves /\ Drops /\ Keeps
<1>0. \A j \in Jobs : RowLocked(j) => status[j] = "queued"
  BY DEF RowLocked, ClaimInv, Waiting
<1>1. CASE UNCHANGED vars
  BY <1>1 DEF vars
<1>2. ASSUME NEW j \in Jobs, JobStep(j)
      PROVE  Quiet
  <2>1. lock' = lock /\ slot' = slot
    BY <1>2 DEF JobStep, Submit, SendSubmitted, SendSubmittedFails, Cancel, CronRetry, CronRetryFails,
                RestoreTransport, LoseDelivery
  <2>2. Drops
    BY <1>2 DEF JobStep, Submit, SendSubmitted, SendSubmittedFails, Cancel, CronRetry, CronRetryFails,
                RestoreTransport, LoseDelivery, TypeOK
  <2>3. Keeps
    BY <1>0, <1>2 DEF JobStep, Submit, SendSubmitted, SendSubmittedFails, Cancel, CronRetry, CronRetryFails,
                RestoreTransport, LoseDelivery, TypeOK
  <2> QED BY <2>1, <2>2, <2>3
<1>3. CASE ClearFinished
  BY <1>0, <1>3 DEF ClearFinished, Terminal, TypeOK
<1>4. ASSUME NEW r \in Requests, RequestStep(r)
      PROVE  Quiet
  <2>1. lock' = lock /\ slot' = slot
    BY <1>4 DEF RequestStep, ReadRow, Send, Abandon, CommitPlain, CommitRequeue
  <2>2. Drops
    BY <1>4 DEF RequestStep, ReadRow, Send, Abandon, CommitPlain, CommitRequeue, TypeOK
  <2>3. Keeps
    <3>1. CASE CommitPlain(r) \/ CommitRequeue(r)
      BY <3>1 DEF CommitPlain, CommitRequeue, Written, TypeOK
    <3>2. CASE status' = status
      BY <3>2
    <3> QED BY <1>4, <3>1, <3>2 DEF RequestStep, ReadRow, Send, Abandon
  <2> QED BY <2>1, <2>2, <2>3
<1>5. ASSUME NEW w \in Slots, SlotStepAction(w)
      PROVE  Quiet
  <2>1. lock' = lock
    BY <1>5 DEF SlotStepAction, SlotProgress, Ignore, Redeliver, Confirm, PauseGate, Pause,
                EndRun, SetStatus, TimeOut, Release, Wake, StepLost
  <2>2. Moves
    <3>1. CASE slot' = slot
      BY <3>1
    <3>2. CASE /\ slot[w].step \notin Claiming
               /\ \/ slot' = [slot EXCEPT ![w] = IdleSlot]
                  \/ \E s \in {"gate", "pausing", "run", "release", "wake"} :
                       slot' = [slot EXCEPT ![w].step = s]
      BY <3>2 DEF TypeOK, SlotState, IdleSlot, Claiming
    <3>3. CASE Confirm(w) \/ PauseGate(w) \/ TimeOut(w) \/ Pause(w) \/ EndRun(w)
      BY <3>3, <3>2 DEF Confirm, PauseGate, TimeOut, Pause, EndRun, SetStatus, Claiming
    <3>4. CASE Redeliver(w) \/ Release(w) \/ Wake(w) \/ StepLost(w)
      BY <3>4, <3>2 DEF Redeliver, Release, Wake, StepLost, Claiming
    <3> QED BY <1>5, <3>1, <3>3, <3>4 DEF SlotStepAction, SlotProgress, Ignore
  <2>3. Drops
    BY <1>5 DEF SlotStepAction, SlotProgress, Ignore, Redeliver, Confirm, PauseGate, Pause,
                EndRun, SetStatus, TimeOut, Release, Wake, StepLost, TypeOK
  <2>4. Keeps
    BY <1>5 DEF SlotStepAction, SlotProgress, Ignore, Redeliver, Confirm, PauseGate, Pause,
                EndRun, SetStatus, TimeOut, Release, Wake, StepLost, TypeOK
  <2> QED BY <2>1, <2>2, <2>3, <2>4
<1>6. CASE BootStep
  <2>1. \A w \in Slots : slot[w].step = "idle"
    BY <1>6 DEF DownInv, Worker, BootStep, BootLoad, BootRunning, BootQueued, BootPaused,
                RecoverStaleTokens, Active
  <2>2. Keeps
    BY <2>1 DEF RowLocked, Claiming
  <2>3. lock' = lock /\ slot' = slot
    BY <1>6 DEF BootStep, BootLoad, BootRunning, BootQueued, BootPaused, RecoverStaleTokens
  <2>4. Drops
    BY <1>6 DEF BootStep, BootLoad, BootRunning, BootQueued, BootPaused, RecoverStaleTokens,
                DropTokens
  <2> QED BY <2>2, <2>3, <2>4
<1> QED BY <1>1, <1>2, <1>3, <1>4, <1>5, <1>6 DEF Next

\* A crash keeps the invariant: it ends every claim and adds no holder.
LEMMA CrashInv ==
  ASSUME AdmissionInv, Crash
  PROVE  (ClaimInv /\ CountInv /\ CapacityRespected /\ TokensDistinct)'
<1> USE DEF AdmissionInv
<1>1. token' = token /\ \A w \in Slots : slot'[w] = IdleSlot
  BY DEF Crash
<1>2. ClaimInv' /\ CountInv'
  BY <1>1 DEF ClaimInv, CountInv, IdleSlot, Claiming
<1>3. \A k \in Keys : Holders(k)' = Holders(k)
  BY <1>1 DEF Holders
<1>4. CapacityRespected' /\ TokensDistinct'
  BY <1>1, <1>3 DEF CapacityRespected, Capacity, TokensDistinct, IdleSlot
<1> QED BY <1>2, <1>4

\* Every step of the system keeps the inductive invariant.
LEMMA AdmissionStep == AdmissionInv /\ [Next]_vars => AdmissionInv'
<1> SUFFICES ASSUME AdmissionInv, [Next]_vars
             PROVE  AdmissionInv'
  OBVIOUS
<1>1. TypeOK' /\ WorkInv' /\ DownInv' /\ RequestInv'
  BY TypeStep, WorkStep, DownStep, RequestStepInv DEF AdmissionInv
<1>2. (ClaimInv /\ CountInv /\ CapacityRespected /\ TokensDistinct)'
  <2>1. CASE \E w \in Slots : (\E j \in Jobs : Enter(w, j)) \/ CountHolders(w) \/ TakeToken(w)
    BY <2>1, EnterInv, CountHoldersInv, TakeTokenInv
  <2>2. CASE Crash
    BY <2>2, CrashInv
  <2>3. CASE /\ \A w \in Slots : /\ \A j \in Jobs : ~Enter(w, j)
                                 /\ ~CountHolders(w) /\ ~TakeToken(w)
             /\ ~Crash
    BY <2>3, QuietStep, Frame
  <2> QED BY <2>1, <2>2, <2>3
<1> QED BY <1>1, <1>2 DEF AdmissionInv

-----------------------------------------------------------------------------
(* The theorems. *)

\* The invariant of the claim protocol holds in every reachable state, for any
\* number of rows, keys, coroutines, tokens and requests in flight.
THEOREM AdmissionCorrect == Spec => []AdmissionInv
<1>1. Init => AdmissionInv
  BY InitInv
<1>2. AdmissionInv /\ [Next]_vars => AdmissionInv'
  BY AdmissionStep
<1> QED BY <1>1, <1>2, PTL DEF Spec

\* Every variable keeps its type.
THEOREM TypeCorrect == Spec => []TypeOK
<1>1. AdmissionInv => TypeOK
  BY DEF AdmissionInv
<1> QED BY <1>1, AdmissionCorrect, PTL

\* services/download_admission.py never admits more rows of a key than its
\* configured concurrency, at least one, whatever the interleaving, the crashes
\* and the duplicated deliveries.
THEOREM CapacityHolds == Spec => []CapacityRespected
<1>1. AdmissionInv => CapacityRespected
  BY DEF AdmissionInv
<1> QED BY <1>1, AdmissionCorrect, PTL

\* A token fences one row and one coroutine.
THEOREM TokensAreFences == Spec => []TokensDistinct
<1>1. AdmissionInv => TokensDistinct
  BY DEF AdmissionInv
<1> QED BY <1>1, AdmissionCorrect, PTL

\* The claim protocol implements the pool of permits: a step grants one permit
\* below the limit of its key, withdraws permits, or leaves them alone.
THEOREM AdmissionImplementsPool == Spec => ImplementsPool
<1> DEFINE held == {j \in Jobs : token[j] # None}
<1>1. Init => Pool!Init
  BY DEF Init, Pool!Init
<1>2. AdmissionInv /\ AdmissionInv' /\ [Next]_vars => [Pool!Next]_held
  <2> SUFFICES ASSUME AdmissionInv, [Next]_vars
               PROVE  Pool!Next
    OBVIOUS
  <2>1. ASSUME NEW w \in Slots, TakeToken(w)
        PROVE  Pool!Next
    <3> SUFFICES ASSUME NEW j, j = slot[w].job, NEW k, k = KeyOf[j]
                 PROVE  Pool!Next
      OBVIOUS
    <3>1. /\ j \in Jobs /\ k \in Keys /\ j \notin Holders(k)
          /\ Cardinality(Holders(k)) < Capacity(k)
      BY <2>1, TakeTokenGrants
    <3>2. PICK t \in Tokens : token' = [token EXCEPT ![j] = t]
      BY <2>1, TakeTokenGrants
    <3>3. Pool!HeldOn(k) = Holders(k)
      BY DEF Pool!HeldOn, Holders
    <3>4. j \notin held /\ held' = held \cup {j}
      BY <3>1, <3>2 DEF Holders, AdmissionInv, TypeOK
    <3>5. Pool!Cardinality(Holders(k)) = Cardinality(Holders(k))
      BY DEF Pool!Cardinality, Cardinality
    <3>6. Pool!Grant(j)
      BY <3>1, <3>3, <3>4, <3>5 DEF Pool!Grant
    <3> QED BY <3>1, <3>6 DEF Pool!Next
  <2>2. CASE \A w \in Slots : ~TakeToken(w)
    <3>1. \A j \in Jobs : token'[j] \in {token[j], None}
      <4>1. CASE \E w \in Slots : (\E j \in Jobs : Enter(w, j)) \/ CountHolders(w)
        BY <4>1 DEF Enter, CountHolders
      <4>2. CASE Crash
        BY <4>2 DEF Crash
      <4> QED BY <2>2, <4>1, <4>2, QuietStep
    <3> QED BY <3>1 DEF Pool!Next, Pool!Withdraw
  <2> QED BY <2>1, <2>2
<1> QED BY <1>1, <1>2, AdmissionCorrect, PTL DEF Spec, ImplementsPool, Pool!Spec

\* A token leaves a row only with its own execution, with a new ticket, with the
\* row or with a restart: what a stale execution releases is never another's.
THEOREM ReleaseHarmless == Spec => StaleReleaseHarmless
<1> DEFINE Loses(j) == token[j] # None /\ token'[j] = None
           Justified(j) == \/ \E w \in Slots : slot[w].tok = token[j] /\ slot[w].step = "release"
                           \/ status[j] \in {"failed", "partial"} \/ status'[j] \in {"queued", "deleted"}
                           \/ ~Worker
<1>1. AdmissionInv /\ [Next]_vars => \A j \in Jobs : Loses(j) => Justified(j)
  <2> SUFFICES ASSUME AdmissionInv, [Next]_vars, NEW j \in Jobs, Loses(j)
               PROVE  Justified(j)
    OBVIOUS
  <2>1. CASE UNCHANGED vars
    BY <2>1 DEF vars
  <2>2. ASSUME NEW i \in Jobs, JobStep(i)
        PROVE  Justified(j)
    BY <2>2 DEF JobStep, Submit, SendSubmitted, SendSubmittedFails, Cancel, CronRetry, CronRetryFails,
                RestoreTransport, LoseDelivery, AdmissionInv, TypeOK
  <2>3. CASE ClearFinished
    BY <2>3 DEF ClearFinished, AdmissionInv, TypeOK
  <2>4. ASSUME NEW r \in Requests, RequestStep(r)
        PROVE  Justified(j)
    <3>1. CommitRequeue(r) /\ req[r].step = "sent"
      BY <2>4 DEF RequestStep, ReadRow, Send, Abandon, CommitPlain, CommitRequeue
    <3>2. req[r].job = j /\ req[r].owned
      BY <3>1 DEF CommitRequeue, AdmissionInv, TypeOK
    <3>3. req[r].op = "retry" /\ req[r].status \in {"failed", "partial"}
      BY <3>1, <3>2 DEF AdmissionInv, RequestInv, MustSend
    <3>4. status'[j] = "queued"
      BY <3>1, <3>2, <3>3 DEF CommitRequeue, Written, AdmissionInv, TypeOK
    <3> QED BY <3>4
  <2>5. ASSUME NEW w \in Slots, SlotStepAction(w)
        PROVE  Justified(j)
    <3>1. CASE token' = token
      BY <3>1
    <3>2. CASE TakeToken(w)
      BY <3>2 DEF TakeToken, AdmissionInv, TypeOK
    <3>3. CASE Release(w)
      BY <3>3 DEF Release, Owns, AdmissionInv, TypeOK
    <3> QED
      BY <2>5, <3>1, <3>2, <3>3
         DEF SlotStepAction, SlotProgress, Ignore, Enter, CountHolders, Redeliver, Confirm,
             PauseGate, Pause, EndRun, SetStatus, TimeOut, Wake, StepLost
  <2>6. CASE Crash
    BY <2>6 DEF Crash
  <2>7. CASE BootStep
    BY <2>7 DEF BootStep, BootLoad, BootRunning, BootQueued, BootPaused, RecoverStaleTokens,
                Worker, Active
  <2> QED BY <2>1, <2>2, <2>3, <2>4, <2>5, <2>6, <2>7 DEF Next
<1>2. AdmissionInv /\ [Next]_vars
        => [\A j \in Jobs : Loses(j) => Justified(j)]_vars
  BY <1>1
<1> QED BY <1>2, AdmissionCorrect, PTL DEF Spec, StaleReleaseHarmless
=============================================================================
