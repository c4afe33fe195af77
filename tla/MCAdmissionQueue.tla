-------------------------- MODULE MCAdmissionQueue --------------------------
(* Two instances of DownloadAdmission in one run: the redelivery chain alone, *)
(* and one coroutine with the cron and recovery after a fault; part says     *)
(* which of the two a behaviour is of.                                      *)
EXTENDS MCDownloadAdmission

VARIABLE part

partVars == <<vars, part>>

CONSTANT w1

Chain == INSTANCE DownloadAdmission WITH MaxFaults <- 0
Cron  == INSTANCE DownloadAdmission WITH Slots <- {w1}

QueueInit == \/ part = "chain" /\ Chain!Init
             \/ part = "cron" /\ Cron!Init
QueueNext ==
  /\ UNCHANGED part
  /\ \/ part = "chain" /\ Chain!Next
     \/ part = "cron" /\ Cron!Next

InPart(chain, cron) ==
  UNCHANGED part /\ ((part = "chain" /\ chain) \/ (part = "cron" /\ cron))

\* ChainSpec of the one and FairSpec of the other.
QueueFairness ==
  /\ \A w \in Slots :
       WF_partVars(InPart(Chain!SlotProgress(w), w = w1 /\ Cron!SlotProgress(w)))
  /\ \A j \in Jobs :
       /\ SF_partVars(InPart(\E w \in Slots : Chain!Enter(w, j), Cron!Enter(w1, j)))
       /\ WF_partVars(InPart(Chain!SendSubmitted(j), Cron!SendSubmitted(j)))
       /\ WF_partVars(InPart(FALSE, Cron!RestoreTransport(j)))
  /\ WF_partVars(InPart(Chain!BootStep, Cron!BootStep))

QueueSpec == QueueInit /\ [][QueueNext]_partVars /\ QueueFairness

\* EventuallyLeavesQueue of the one, EventuallyLeavesQueueDespiteFaults of the
\* other.  Rows are interchangeable: j1 stands for every row.
LeavesQueue              == part = "chain" => Chain!EventuallyLeavesQueue(j1)
LeavesQueueDespiteFaults == part = "cron" => Cron!EventuallyLeavesQueueDespiteFaults(j1)
=============================================================================
