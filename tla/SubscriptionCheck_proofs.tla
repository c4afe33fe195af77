----------------------- MODULE SubscriptionCheck_proofs -----------------------
(* Proofs about SubscriptionCheck, for any number of coroutines, works,        *)
(* deliveries and faults.                                                      *)
EXTENDS SubscriptionCheck, TLAPS

\* What no step undoes: a row is not forgotten, a work stays removed or passed over.
Kept ==
  /\ removed \subseteq removed' /\ passed \subseteq passed' /\ posts <= posts'
  /\ \A p \in Works : rows[p] # "none" => rows'[p] # "none"

\* A coroutine that runs nothing is a state of a check.
LEMMA IdleType == IdleCheck \in CheckState
BY SubscriptionAssumption DEF IdleCheck, CheckState, Steps

\* The initial state satisfies the invariant, nothing is held or passed over.
LEMMA InitSub == Init => SubscriptionInv /\ NothingPassedOver /\ PauseHolds
<1> SUFFICES ASSUME Init PROVE SubscriptionInv /\ NothingPassedOver /\ PauseHolds
  OBVIOUS
<1>1. SubTypeOK
  <2>1. IdleCheck \in CheckState
    BY IdleType
  <2>2. checks \in [Checks -> CheckState] /\ rows \in [Works -> {"none", "active", "ended"}]
    BY <2>1 DEF Init
  <2>3. /\ posts \in 0..MaxPosts /\ boundary \in 0..MaxPosts
        /\ sent \in 0..MaxSent /\ faults \in 0..MaxFaults
    BY SubscriptionAssumption DEF Init
  <2>4. /\ removed \subseteq Works /\ passed \subseteq Works /\ held \in BOOLEAN
        /\ claimed \in BOOLEAN /\ up \in BOOLEAN
        /\ status \in {"idle", "running", "paused"} /\ lock \in Checks \cup {None, "orphan"}
    BY DEF Init
  <2> QED BY <2>2, <2>3, <2>4 DEF SubTypeOK
<1>2. LockHeld /\ ListedCovered
  BY DEF Init, LockHeld, Excluding, ListedCovered, Safe, IdleCheck
<1>3. boundary <= posts /\ NothingPassedOver /\ PauseHolds
  BY DEF Init, NothingPassedOver, Covered, PauseHolds
<1> QED BY <1>1, <1>2, <1>3 DEF SubscriptionInv

\* A pause holds through every step that writes the status of the group.
LEMMA PauseStep == PauseHolds /\ [Next]_vars => PauseHolds'
<1> SUFFICES ASSUME PauseHolds, [Next]_vars PROVE PauseHolds'
  OBVIOUS
<1> USE DEF PauseHolds
<1>1. CASE Claim \/ Dispatch \/ DispatchFails
  BY <1>1 DEF Claim, Dispatch, DispatchFails, Released
<1>2. ASSUME NEW c \in Checks, StartGroup(c) \/ Fail(c) PROVE PauseHolds'
  BY <1>2 DEF StartGroup, Fail, group
<1>3. ASSUME NEW c \in Checks, CheckStep(c) PROVE PauseHolds'
  BY <1>3 DEF CheckStep, Acquire, Discover, Select, Commit, Advance, Release, Finish,
              Released, group
<1>4. CASE UserStep
  BY <1>4 DEF UserStep, RunGroup, PauseGroup, ResumeGroup, StartSingle, group
<1>5. CASE WorldStep
  BY <1>5 DEF WorldStep, Publish, QueueWork, EndJob, TakeDown, group
<1>6. CASE Crash \/ ExpireLock \/ Startup
  BY <1>6 DEF Crash, ExpireLock, Startup, group
<1>7. CASE UNCHANGED vars
  BY <1>7 DEF vars, group
<1> QED BY <1>1, <1>2, <1>3, <1>4, <1>5, <1>6, <1>7 DEF Next, Checks

\* Nothing that is covered is uncovered by a step.
LEMMA KeptStep == SubTypeOK /\ [Next]_vars => Kept
<1> SUFFICES ASSUME SubTypeOK, [Next]_vars PROVE Kept
  OBVIOUS
<1> USE DEF Kept, SubTypeOK
<1>1. CASE Claim \/ Dispatch \/ DispatchFails
  BY <1>1 DEF Claim, Dispatch, DispatchFails, world
<1>2. ASSUME NEW c \in Checks, StartGroup(c) \/ Fail(c) PROVE Kept
  BY <1>2 DEF StartGroup, Fail, world
<1>3. ASSUME NEW c \in Checks, CheckStep(c) PROVE Kept
  <2>1. CASE Discover(c)
    BY <2>1 DEF Discover, List, world
  <2>2. CASE Commit(c)
    BY <2>2 DEF Commit, world
  <2>3. CASE Acquire(c) \/ Select(c) \/ Advance(c) \/ Release(c) \/ Finish(c)
    BY <2>3 DEF Acquire, Select, Advance, Release, Finish, world
  <2> QED BY <1>3, <2>1, <2>2, <2>3 DEF CheckStep
<1>4. CASE UserStep
  BY <1>4 DEF UserStep, RunGroup, PauseGroup, ResumeGroup, StartSingle, world
<1>5. CASE WorldStep
  <2>1. CASE Publish
    BY <2>1 DEF Publish
  <2>2. ASSUME NEW p \in Works, QueueWork(p) \/ EndJob(p) \/ TakeDown(p) PROVE Kept
    BY <2>2 DEF QueueWork, EndJob, TakeDown, world
  <2> QED BY <1>5, <2>1, <2>2 DEF WorldStep
<1>6. CASE Crash \/ ExpireLock \/ Startup
  BY <1>6 DEF Crash, ExpireLock, Startup, world
<1>7. CASE UNCHANGED vars
  BY <1>7 DEF vars, world
<1> QED BY <1>1, <1>2, <1>3, <1>4, <1>5, <1>6, <1>7 DEF Next, Checks

-----------------------------------------------------------------------------
(* The type invariant. *)

\* A check that is replaced by a state of a check keeps the type.
LEMMA CheckType ==
  ASSUME SubTypeOK, NEW c \in Checks, NEW k \in CheckState,
         checks' = [checks EXCEPT ![c] = k]
  PROVE  checks' \in [Checks -> CheckState]
BY DEF SubTypeOK

\* What a check that moves on, loads, lists, selects or ends becomes.
LEMMA CheckMoves ==
  ASSUME SubTypeOK, NEW c \in Checks, NEW step \in Steps
  PROVE  /\ Go(c, step) => checks' = [checks EXCEPT ![c] = [checks[c] EXCEPT !.step = step]]
         /\ [checks[c] EXCEPT !.step = step] \in CheckState
         /\ [IdleCheck EXCEPT !.step = step, !.kind = checks[c].kind] \in CheckState
<1>1. checks[c] \in CheckState
  BY DEF SubTypeOK
<1>2. [checks[c] EXCEPT !.step = step] \in CheckState
  BY <1>1 DEF CheckState
<1>3. [IdleCheck EXCEPT !.step = step, !.kind = checks[c].kind] \in CheckState
  BY <1>1, IdleType DEF CheckState
<1>4. Go(c, step) => checks' = [checks EXCEPT ![c] = [checks[c] EXCEPT !.step = step]]
  BY DEF Go, SubTypeOK
<1> QED BY <1>2, <1>3, <1>4

\* A step of a check keeps the type of the checks.
LEMMA CheckStepType ==
  ASSUME SubTypeOK, NEW c \in Checks, CheckStep(c)
  PROVE  checks' \in [Checks -> CheckState]
<1> USE DEF Steps
<1>1. CASE Acquire(c)
  <2>1. CASE Go(c, "locked")
    BY <2>1, CheckMoves, CheckType, ZenonT(60)
  <2>2. CASE End(c, "finish")
    BY <2>2, CheckMoves, CheckType DEF End
  <2> QED BY <1>1, <2>1, <2>2 DEF Acquire
<1>2. CASE Discover(c)
  <2>1. PICK unread \in SUBSET Online, hidden \in {{}, Paid}, latest \in 0..MaxPosts :
          List(c, unread, hidden, latest)
    BY <1>2 DEF Discover
  <2> DEFINE new == NewWorks(c, Online \ unread)
             k == [checks[c] EXCEPT !.step = "listed", !.latest = latest,
                                    !.works = new \ (unread \cup hidden),
                                    !.kind = IF @ = "group" THEN @ ELSE "single"]
  <2>2. checks' = [checks EXCEPT ![c] = k]
    BY <2>1 DEF List, SubTypeOK
  <2>3. new \subseteq Works
    BY SubscriptionAssumption DEF NewWorks, Online, Works, SubTypeOK
  <2>4. checks[c] \in CheckState
    BY DEF SubTypeOK
  <2>5. k \in CheckState
    BY <2>3, <2>4 DEF CheckState
  <2> QED BY <2>2, <2>5, CheckType
<1>3. CASE Select(c)
  <2> DEFINE k == [checks[c] EXCEPT !.step = "selected",
                                    !.works = {p \in @ : rows[p] # "active"}]
  <2>1. checks' = [checks EXCEPT ![c] = k]
    BY <1>3 DEF Select, SubTypeOK
  <2>2. checks[c] \in CheckState
    BY DEF SubTypeOK
  <2>3. k \in CheckState
    BY <2>2 DEF CheckState
  <2> QED BY <2>1, <2>3, CheckType
<1>4. CASE Commit(c)
  <2> DEFINE k == [checks[c] EXCEPT !.step = "committed", !.works = {}]
  <2>1. checks[c] \in CheckState
    BY DEF SubTypeOK
  <2>2. k \in CheckState
    BY <2>1 DEF CheckState
  <2>3. CASE checks' = [checks EXCEPT ![c].step = "committed", ![c].works = {}]
    <3>1. checks' = [checks EXCEPT ![c] = k]
      BY <2>3 DEF SubTypeOK
    <3> QED BY <3>1, <2>2, CheckType
  <2>4. CASE End(c, "release")
    BY <2>4, CheckMoves, CheckType DEF End
  <2> QED BY <1>4, <2>3, <2>4 DEF Commit
<1>5. CASE Advance(c)
  <2>1. End(c, "release")
    BY <1>5 DEF Advance
  <2> QED BY <2>1, CheckMoves, CheckType DEF End
<1>6. CASE Release(c)
  <2>1. Go(c, "finish")
    BY <1>6 DEF Release
  <2> QED BY <2>1, CheckMoves, CheckType, ZenonT(60)
<1>7. CASE Finish(c)
  BY <1>7, IdleType, CheckType DEF Finish
<1> QED BY <1>1, <1>2, <1>3, <1>4, <1>5, <1>6, <1>7 DEF CheckStep

\* Every step keeps the type invariant.
LEMMA TypeStep == SubTypeOK /\ [Next]_vars => SubTypeOK'
<1> SUFFICES ASSUME SubTypeOK, [Next]_vars PROVE SubTypeOK'
  OBVIOUS
<1>0. OneMore \in 0..MaxSent /\ (Fault => faults' \in 0..MaxFaults)
  BY SubscriptionAssumption DEF SubTypeOK, OneMore, Fault
<1>1. CASE Claim \/ Dispatch \/ DispatchFails
  <2>1. CASE Claim
    BY <2>1 DEF Claim, world, SubTypeOK
  <2>2. CASE Dispatch
    BY <1>0, <2>2 DEF Dispatch, world, SubTypeOK
  <2>3. CASE DispatchFails
    BY <1>0, <2>3 DEF DispatchFails, Released, world, SubTypeOK
  <2> QED BY <1>1, <2>1, <2>2, <2>3
<1>2. ASSUME NEW c \in Groups, StartGroup(c) PROVE SubTypeOK'
  <2>1. c \in Checks
    BY DEF Checks
  <2>2. checks' \in [Checks -> CheckState]
    <3> DEFINE k == [IdleCheck EXCEPT !.step = "loaded", !.kind = "group", !.last = boundary]
    <3>1. k \in CheckState
      BY IdleType DEF CheckState, Steps, SubTypeOK
    <3>2. CASE Load(c, "group")
      BY <3>1, <3>2, <2>1, CheckType DEF Load
    <3>3. CASE UNCHANGED checks
      BY <3>3 DEF SubTypeOK
    <3> QED BY <1>2, <3>2, <3>3 DEF StartGroup
  <2> QED BY <1>2, <2>2, SubscriptionAssumption DEF StartGroup, world, SubTypeOK
<1>3. ASSUME NEW c \in Checks, CheckStep(c) PROVE SubTypeOK'
  <2>1. checks' \in [Checks -> CheckState]
    BY <1>3, CheckStepType
  <2>2. CASE Acquire(c) \/ Select(c) \/ Release(c)
    BY <2>1, <2>2 DEF Acquire, Select, Release, world, group, SubTypeOK
  <2>3. CASE Discover(c)
    <3>1. PICK unread \in SUBSET Online, hidden \in {{}, Paid}, latest \in 0..MaxPosts :
            /\ List(c, unread, hidden, latest)
            /\ IF unread \cup hidden = {} THEN UNCHANGED faults ELSE Fault
      BY <2>3 DEF Discover
    <3>2. passed' \subseteq Works
      <4> DEFINE new == NewWorks(c, Online \ unread)
      <4>1. new \subseteq Works
        BY SubscriptionAssumption DEF NewWorks, Online, Works, SubTypeOK
      <4>2. passed' \subseteq passed \cup new
        BY <3>1 DEF List
      <4> QED BY <4>1, <4>2 DEF SubTypeOK
    <3>3. faults' \in 0..MaxFaults
      BY <3>1, SubscriptionAssumption DEF Fault, SubTypeOK
    <3> QED BY <2>1, <2>3, <3>2, <3>3 DEF Discover, world, group, SubTypeOK
  <2>4. CASE Commit(c)
    BY <2>1, <2>4 DEF Commit, world, group, SubTypeOK
  <2>5. CASE Advance(c)
    <3>1. checks[c] \in CheckState
      BY DEF SubTypeOK
    <3>2. boundary' \in 0..MaxPosts
      BY <2>5, <3>1 DEF Advance, CheckState
    <3> QED BY <2>1, <2>5, <3>2 DEF Advance, world, group, SubTypeOK
  <2>6. CASE Finish(c)
    BY <2>1, <2>6 DEF Finish, Released, world, SubTypeOK
  <2> QED BY <1>3, <2>2, <2>3, <2>4, <2>5, <2>6 DEF CheckStep
<1>4. ASSUME NEW c \in Checks, Fail(c) PROVE SubTypeOK'
  <2>1. checks' \in [Checks -> CheckState]
    BY <1>4, CheckMoves, CheckType DEF Fail, End, Steps
  <2> QED BY <1>4, <2>1, SubscriptionAssumption DEF Fail, Fault, world, group, SubTypeOK
<1>5. CASE UserStep
  <2>1. CASE RunGroup
    BY <1>0, <2>1 DEF RunGroup, world, SubTypeOK
  <2>3. CASE PauseGroup \/ ResumeGroup
    BY <2>3 DEF PauseGroup, ResumeGroup, world, SubTypeOK
  <2>2. ASSUME NEW c \in Singles, StartSingle(c) PROVE SubTypeOK'
    <3>1. PICK kind \in {"single", "force"} : Load(c, kind)
      BY <2>2 DEF StartSingle
    <3> DEFINE k == [IdleCheck EXCEPT !.step = "loaded", !.kind = kind, !.last = boundary]
    <3>2. k \in CheckState
      BY IdleType DEF CheckState, Steps, SubTypeOK
    <3>3. checks' \in [Checks -> CheckState]
      BY <3>1, <3>2, CheckType DEF Load, Checks
    <3> QED BY <2>2, <3>3 DEF StartSingle, world, group, SubTypeOK
  <2> QED BY <1>5, <2>1, <2>2, <2>3 DEF UserStep
<1>6. CASE WorldStep
  <2>1. CASE Publish
    BY <2>1, SubscriptionAssumption DEF Publish, group, SubTypeOK
  <2>2. ASSUME NEW p \in Works, QueueWork(p) \/ EndJob(p) PROVE SubTypeOK'
    BY <2>2, SubscriptionAssumption DEF QueueWork, EndJob, Fault, world, group, SubTypeOK
  <2>3. ASSUME NEW p \in Works, TakeDown(p) PROVE SubTypeOK'
    BY <2>3, SubscriptionAssumption DEF TakeDown, Fault, group, SubTypeOK
  <2> QED BY <1>6, <2>1, <2>2, <2>3 DEF WorldStep
<1>7. CASE Crash
  <2>1. checks' \in [Checks -> CheckState]
    BY <1>7, IdleType DEF Crash
  <2> QED BY <1>0, <1>7, <2>1 DEF Crash, world, SubTypeOK
<1>8. CASE ExpireLock
  BY <1>8 DEF ExpireLock, world, group, SubTypeOK
<1>9. CASE Startup
  BY <1>9 DEF Startup, world, SubTypeOK
<1>10. CASE UNCHANGED vars
  <2>1. /\ UNCHANGED <<posts, removed, status, held, claimed, sent, checks, lock>>
        /\ UNCHANGED <<boundary, rows, passed, up, faults>>
    BY <1>10 DEF vars, world, group
  <2> QED BY <2>1 DEF SubTypeOK
<1> QED BY <1>1, <1>2, <1>3, <1>4, <1>5, <1>6, <1>7, <1>8, <1>9, <1>10 DEF Next

-----------------------------------------------------------------------------
(* The check lock. *)

\* The holder of the lock is the only check between its listing and its release.
LEMMA LockStep == SubTypeOK /\ LockHeld /\ [Next]_vars => LockHeld'
<1> SUFFICES ASSUME SubTypeOK, LockHeld, [Next]_vars PROVE LockHeld'
  OBVIOUS
<1>0. checks \in [Checks -> CheckState] /\ checks' \in [Checks -> CheckState]
  BY TypeStep DEF SubTypeOK
<1>1. ASSUME UNCHANGED <<checks, lock>> PROVE LockHeld'
  BY <1>1 DEF LockHeld
<1>2. ASSUME NEW c \in Checks, NEW kind \in {"group", "single", "force"}, Load(c, kind),
             UNCHANGED lock PROVE LockHeld'
  <2>1. checks'[c].step = "loaded"
    BY <1>0, <1>2 DEF Load, IdleCheck
  <2>2. \A d \in Checks \ {c} : checks'[d] = checks[d]
    BY <1>0, <1>2 DEF Load
  <2> QED BY <1>2, <2>1, <2>2 DEF LockHeld, Excluding
<1>3. ASSUME NEW c \in Checks, CheckStep(c) PROVE LockHeld'
  <2> DEFINE Others == \A d \in Checks \ {c} : checks'[d] = checks[d]
  <2>1. Others
    BY <1>0, <1>3 DEF CheckStep, Acquire, Discover, List, Select, Commit, Advance, Release,
                      Finish, Go, End
  <2>2. CASE Acquire(c)
    <3>1. CASE lock = None
      <4>1. lock' = c
        BY <2>2, <3>1 DEF Acquire
      <4>2. \A d \in Checks : checks[d].step \notin Excluding
        BY <3>1, SubscriptionAssumption DEF LockHeld
      <4> QED BY <2>1, <4>1, <4>2 DEF LockHeld
    <3>2. CASE lock # None
      <4>1. UNCHANGED lock /\ checks'[c].step = "finish"
        BY <1>0, <2>2, <3>2 DEF Acquire, End, IdleCheck
      <4> QED BY <2>1, <4>1 DEF LockHeld, Excluding
    <3> QED BY <3>1, <3>2
  <2>3. CASE Discover(c) \/ Select(c) \/ Commit(c) \/ Advance(c)
    <3>1. checks[c].step \in Excluding /\ UNCHANGED lock
      BY <2>3 DEF Discover, Select, Commit, Advance, At, Excluding
    <3> QED BY <2>1, <3>1 DEF LockHeld
  <2>4. CASE Release(c)
    <3>1. lock = c
      BY <2>4 DEF Release, At, LockHeld, Excluding
    <3>2. checks'[c].step = "finish"
      <4>1. checks[c] \in CheckState
        BY <1>0
      <4>2. checks'[c] = [checks[c] EXCEPT !.step = "finish"]
        BY <1>0, <2>4 DEF Release, Go
      <4> QED BY <4>1, <4>2 DEF CheckState
    <3>3. \A d \in Checks \ {c} : checks[d].step \notin Excluding
      BY <3>1 DEF LockHeld
    <3> QED BY <2>1, <3>2, <3>3 DEF LockHeld, Excluding
  <2>5. CASE Finish(c)
    <3>1. checks'[c].step = "idle" /\ UNCHANGED lock
      BY <1>0, <2>5 DEF Finish, IdleCheck
    <3> QED BY <2>1, <3>1 DEF LockHeld, Excluding
  <2> QED BY <1>3, <2>2, <2>3, <2>4, <2>5 DEF CheckStep
<1>4. ASSUME NEW c \in Checks, Fail(c) PROVE LockHeld'
  <2>1. checks[c].step \in Excluding /\ UNCHANGED lock
    BY <1>4 DEF Fail, Excluding
  <2> QED BY <1>0, <1>4, <2>1 DEF Fail, End, LockHeld
<1>5. CASE Crash
  BY <1>5 DEF Crash, LockHeld, Excluding, IdleCheck
<1>6. CASE ExpireLock
  BY <1>6, SubscriptionAssumption DEF ExpireLock, LockHeld
<1>7. CASE Claim \/ Dispatch \/ DispatchFails \/ WorldStep \/ Startup \/ UNCHANGED vars
  BY <1>1, <1>7 DEF Claim, Dispatch, DispatchFails, WorldStep, Publish, QueueWork, EndJob,
                    TakeDown, Startup, vars, group
<1>8. CASE \E c \in Groups : StartGroup(c)
  BY <1>1, <1>2, <1>8 DEF StartGroup, Checks
<1>9. CASE UserStep
  BY <1>1, <1>2, <1>9 DEF UserStep, RunGroup, PauseGroup, ResumeGroup, StartSingle, group, Checks
<1> QED BY <1>3, <1>4, <1>5, <1>6, <1>7, <1>8, <1>9 DEF Next

-----------------------------------------------------------------------------
(* Nothing is passed over. *)

\* What is covered stays covered.
LEMMA CoveredKept ==
  ASSUME Kept, SubTypeOK, NEW b \in 0..MaxPosts, Covered(b)
  PROVE  Covered(b)'
BY SubscriptionAssumption DEF Kept, Covered, Works, SubTypeOK

\* What a check carries stays safe.
LEMMA SafeKept ==
  ASSUME Kept, SubTypeOK, SubTypeOK', NEW k \in CheckState, Safe(k)
  PROVE  Safe(k)'
<1>0. /\ k.last \in 0..MaxPosts /\ k.latest \in 0..MaxPosts /\ MaxPosts \in Nat
      /\ posts \in Nat /\ posts' \in Nat /\ posts <= posts'
  BY SubscriptionAssumption DEF CheckState, Kept, SubTypeOK
<1>1. k.step # "idle" => k.last <= posts' /\ Covered(k.last)'
  BY <1>0, CoveredKept DEF Safe
<1>2. k.step \in {"listed", "selected", "committed"} => k.latest <= posts'
  BY <1>0 DEF Safe
<1>3. k.step \in {"listed", "selected"} =>
        \A p \in (1..k.latest) \ removed' :
          rows'[p] # "none" \/ p \in passed' \/ p \in k.works
  BY <1>0 DEF Safe, Kept, Works
<1>4. k.step = "committed" => Covered(k.latest)'
  BY <1>0, CoveredKept DEF Safe
<1> QED BY <1>1, <1>2, <1>3, <1>4 DEF Safe

\* A step that changes one check into a safe one leaves all of them safe.
LEMMA CheckSafe ==
  ASSUME Kept, SubTypeOK, SubTypeOK', ListedCovered,
         NEW c \in Checks, NEW k \in CheckState, checks' = [checks EXCEPT ![c] = k], Safe(k)'
  PROVE  ListedCovered'
<1> SUFFICES ASSUME NEW d \in Checks PROVE Safe(checks[d])'
  BY DEF ListedCovered
<1>1. checks \in [Checks -> CheckState]
  BY DEF SubTypeOK
<1>2. CASE d = c
  <2>1. checks'[d] = k
    BY <1>1, <1>2
  <2> QED BY <2>1 DEF Safe
<1>3. CASE d # c
  <2>1. PICK n \in CheckState : n = checks[d]
    BY <1>1
  <2>2. Safe(n)' /\ checks'[d] = n
    BY <1>1, <1>3, <2>1, SafeKept DEF ListedCovered
  <2> QED BY <2>2 DEF Safe
<1> QED BY <1>2, <1>3

\* A step that changes no check leaves all of them safe.
LEMMA ChecksSafe ==
  ASSUME Kept, SubTypeOK, SubTypeOK', ListedCovered, UNCHANGED checks
  PROVE  ListedCovered'
<1>1. ASSUME NEW n \in CheckState, Safe(n) PROVE Safe(n)'
  BY <1>1, SafeKept
<1> SUFFICES ASSUME NEW d \in Checks PROVE Safe(checks[d])'
  BY DEF ListedCovered
<1>2. PICK n \in CheckState : n = checks[d]
  BY DEF SubTypeOK
<1>3. Safe(n)' /\ checks'[d] = n
  BY <1>1, <1>2 DEF ListedCovered
<1> QED BY <1>3 DEF Safe

\* A check that carries nothing is safe.
LEMMA SafeEmpty ==
  ASSUME SubTypeOK', NEW k \in CheckState, k.last = 0,
         k.step \in {"idle", "loaded", "release", "finish"}
  PROVE  Safe(k)'
BY DEF Safe, Covered, SubTypeOK

\* A listing that is not empty up to its newest work covers what it returns: what is
\* up to the boundary is covered, what is newer is in the listing or passed over.
LEMMA ListSafe ==
  ASSUME SubscriptionInv, NEW c \in Checks, At(c, "locked"),
         NEW unread \in SUBSET Online, NEW hidden, NEW latest \in 0..MaxPosts,
         List(c, unread, hidden, latest), UNCHANGED <<posts, removed, rows>>
  PROVE  /\ latest <= posts'
         /\ \A p \in (1..latest) \ removed' :
              \/ rows'[p] # "none" \/ p \in passed'
              \/ p \in NewWorks(c, Online \ unread) \ (unread \cup hidden)
<1> DEFINE new == NewWorks(c, Online \ unread)
<1>0. posts \in Nat /\ checks[c] \in CheckState
  BY SubscriptionAssumption DEF SubscriptionInv, SubTypeOK
<1>1. latest <= posts
  BY <1>0 DEF List, IsNewest, Online
<1>2. ASSUME NEW p \in (1..latest) \ removed
      PROVE  rows[p] # "none" \/ p \in passed \/ p \in new
  <2>1. p \in Online
    BY <1>0, <1>1, <1>2 DEF Online
  <2>2. CASE Since(c) \in Online \ unread /\ p <= Since(c)
    <3>1. Since(c) = checks[c].last
      BY <1>0, <2>2 DEF Since, Online, CheckState
    <3>2. Covered(checks[c].last)
      BY DEF SubscriptionInv, ListedCovered, Safe, At
    <3> QED BY <1>0, <1>2, <2>2, <3>1, <3>2 DEF Covered, CheckState
  <2>3. CASE Since(c) \in Online \ unread /\ ~(p <= Since(c))
    BY <1>0, <2>1, <2>3 DEF NewWorks, Online
  <2>4. CASE Since(c) \notin Online \ unread
    BY <2>1, <2>4 DEF NewWorks
  <2> QED BY <2>2, <2>3, <2>4
<1>3. ASSUME NEW p \in (1..latest) \ removed, p \in new \cap (unread \cup hidden)
      PROVE  rows[p] # "none" \/ p \in passed'
  <2>1. p <= latest
    BY <1>3
  <2> QED BY <1>3, <2>1 DEF List
<1>4. passed \subseteq passed'
  BY DEF List
<1> QED BY <1>1, <1>2, <1>3, <1>4

\* Whatever a check carries stays covered, and so does the boundary it writes.
LEMMA CheckStepCovers ==
  ASSUME SubscriptionInv, NothingPassedOver, Kept, SubTypeOK', NEW c \in Checks, CheckStep(c)
  PROVE  ListedCovered' /\ boundary' <= posts' /\ NothingPassedOver'
<1>0. /\ SubTypeOK /\ ListedCovered /\ boundary <= posts
      /\ checks \in [Checks -> CheckState] /\ checks[c] \in CheckState /\ Safe(checks[c])
      /\ boundary \in 0..MaxPosts /\ posts \in Nat /\ posts' \in Nat /\ posts <= posts'
  BY SubscriptionAssumption DEF SubscriptionInv, SubTypeOK, ListedCovered, Kept
<1>1. ASSUME NEW step \in {"release", "finish"}, End(c, step) PROVE ListedCovered'
  <2>1. PICK k \in CheckState : k = [IdleCheck EXCEPT !.step = step, !.kind = checks[c].kind]
    BY <1>0, <1>1, CheckMoves DEF Steps
  <2>2. k.last = 0 /\ k.step = step
    BY <2>1 DEF IdleCheck
  <2>3. Safe(k)'
    BY <2>2, SafeEmpty
  <2> QED BY <1>0, <1>1, <2>1, <2>3, CheckSafe DEF End
<1>2. ASSUME UNCHANGED boundary PROVE boundary' <= posts' /\ NothingPassedOver'
  BY <1>0, <1>2, CoveredKept DEF NothingPassedOver, Covered
<1>3. ASSUME NEW step \in {"locked", "finish"}, Go(c, step),
             checks[c].step \in {"loaded", "release"}
      PROVE  ListedCovered'
  <2>1. PICK k \in CheckState : k = [checks[c] EXCEPT !.step = step]
    BY <1>0, <1>3, CheckMoves DEF Steps
  <2>2. checks' = [checks EXCEPT ![c] = k]
    BY <1>0, <1>3, <2>1 DEF Go
  <2>3. k.step = step /\ k.last = checks[c].last
    BY <1>0, <2>1 DEF CheckState
  <2>4. Safe(k)
    BY <1>0, <1>3, <2>3 DEF Safe
  <2>5. Safe(k)'
    BY <1>0, <2>4, SafeKept
  <2> QED BY <1>0, <2>2, <2>5, CheckSafe
<1>4. CASE Acquire(c)
  <2>1. ListedCovered'
    BY <1>1, <1>3, <1>4 DEF Acquire, At
  <2> QED BY <1>2, <1>4, <2>1 DEF Acquire
<1>5. CASE Discover(c)
  <2>1. PICK unread \in SUBSET Online, hidden \in {{}, Paid}, latest \in 0..MaxPosts :
          List(c, unread, hidden, latest)
    BY <1>5 DEF Discover
  <2>2. UNCHANGED <<posts, removed, rows, boundary>> /\ At(c, "locked")
    BY <1>5 DEF Discover, world
  <2>3. PICK works \in SUBSET Works :
          works = NewWorks(c, Online \ unread) \ (unread \cup hidden)
    <3>1. NewWorks(c, Online \ unread) \subseteq Works
      BY <1>0, SubscriptionAssumption DEF NewWorks, Online, Works, SubTypeOK
    <3> QED BY <3>1
  <2>4. /\ latest <= posts'
        /\ \A p \in (1..latest) \ removed' : rows'[p] # "none" \/ p \in passed' \/ p \in works
    BY <2>1, <2>2, <2>3, ListSafe
  <2>5. PICK k \in CheckState :
          k = [checks[c] EXCEPT !.step = "listed", !.latest = latest, !.works = works,
                                !.kind = IF @ = "group" THEN @ ELSE "single"]
    BY <1>0 DEF CheckState, Steps
  <2>6. /\ k.step = "listed" /\ k.last = checks[c].last /\ k.latest = latest
        /\ k.works = works
    BY <1>0, <2>5 DEF CheckState
  <2>7. checks' = [checks EXCEPT ![c] = k]
    BY <1>0, <2>1, <2>3, <2>5 DEF List
  <2>8. k.last \in 0..MaxPosts /\ k.last <= posts /\ Covered(k.last)
    BY <1>0, <2>2, <2>6 DEF Safe, At, CheckState
  <2>9. k.last <= posts' /\ Covered(k.last)'
    BY <1>0, <2>8, CoveredKept
  <2>10. Safe(k)'
    BY <2>4, <2>6, <2>9 DEF Safe
  <2> QED BY <1>0, <1>2, <2>2, <2>7, <2>10, CheckSafe
<1>6. CASE Select(c)
  <2>1. PICK k \in CheckState :
          k = [checks[c] EXCEPT !.step = "selected", !.works = {p \in @ : rows[p] # "active"}]
    BY <1>0 DEF CheckState, Steps
  <2>2. checks' = [checks EXCEPT ![c] = k]
    BY <1>0, <1>6, <2>1 DEF Select
  <2>3. /\ k.step = "selected" /\ k.last = checks[c].last /\ k.latest = checks[c].latest
        /\ k.works = {p \in checks[c].works : rows[p] # "active"}
    BY <1>0, <2>1 DEF CheckState
  <2>4. Safe(k)
    BY <1>0, <1>6, <2>3 DEF Select, At, Safe
  <2>5. Safe(k)'
    BY <1>0, <2>4, SafeKept
  <2> QED BY <1>0, <1>2, <1>6, <2>2, <2>5, CheckSafe DEF Select
<1>7. CASE Commit(c)
  <2>1. CASE End(c, "release")
    BY <1>1, <1>2, <1>7, <2>1 DEF Commit
  <2>2. CASE /\ checks' = [checks EXCEPT ![c].step = "committed", ![c].works = {}]
             /\ rows' = [p \in Works |-> IF p \in checks[c].works THEN "active" ELSE rows[p]]
    <3>1. PICK k \in CheckState : k = [checks[c] EXCEPT !.step = "committed", !.works = {}]
      BY <1>0 DEF CheckState, Steps
    <3>2. checks' = [checks EXCEPT ![c] = k]
      BY <1>0, <2>2, <3>1
    <3>3. /\ k.step = "committed" /\ k.last = checks[c].last /\ k.latest = checks[c].latest
          /\ k.last \in 0..MaxPosts /\ k.latest \in 0..MaxPosts
      BY <1>0, <3>1 DEF CheckState
    <3>4. UNCHANGED <<posts, removed, passed, boundary>>
      BY <1>7 DEF Commit, world
    <3>5. k.last <= posts /\ Covered(k.last) /\ k.latest <= posts
      BY <1>0, <1>7, <3>3 DEF Safe, At, Commit
    <3>6. k.last <= posts' /\ Covered(k.last)'
      BY <1>0, <3>3, <3>5, CoveredKept
    <3>7. ASSUME NEW p \in (1..k.latest) \ removed PROVE rows'[p] # "none" \/ p \in passed'
      <4>1. p \in Works
        BY <3>3, <3>7, SubscriptionAssumption DEF Works
      <4>2. rows[p] # "none" \/ p \in passed \/ p \in checks[c].works
        BY <1>0, <1>7, <3>3, <3>7 DEF Safe, At, Commit
      <4> QED BY <2>2, <3>4, <4>1, <4>2
    <3>8. k.latest <= posts' /\ Covered(k.latest)'
      BY <3>4, <3>5, <3>7 DEF Covered
    <3>9. Safe(k)'
      BY <3>3, <3>6, <3>8 DEF Safe
    <3> QED BY <1>0, <1>2, <3>2, <3>4, <3>9, CheckSafe
  <2> QED BY <1>7, <2>1, <2>2 DEF Commit
<1>8. CASE Advance(c)
  <2>1. ListedCovered'
    BY <1>1, <1>8 DEF Advance
  <2>2. PICK b \in 0..MaxPosts : b = boundary'
    BY DEF SubTypeOK
  <2>3. b <= posts /\ Covered(b)
    BY <1>0, <1>8, <2>2 DEF Advance, At, Safe
  <2>4. Covered(b)'
    BY <1>0, <2>3, CoveredKept
  <2> QED BY <1>0, <2>1, <2>2, <2>3, <2>4 DEF NothingPassedOver, Covered
<1>9. CASE Release(c)
  BY <1>2, <1>3, <1>9 DEF Release, At
<1>10. CASE Finish(c)
  <2>1. IdleCheck.last = 0 /\ IdleCheck.step = "idle"
    BY DEF IdleCheck
  <2>2. Safe(IdleCheck)'
    BY <2>1 DEF Safe
  <2> QED BY <1>0, <1>2, <1>10, <2>2, IdleType, CheckSafe DEF Finish
<1> QED BY <1>4, <1>5, <1>6, <1>7, <1>8, <1>9, <1>10 DEF CheckStep

\* Every step keeps what is covered covered.
LEMMA CoveredStep ==
  SubscriptionInv /\ NothingPassedOver /\ [Next]_vars
    => ListedCovered' /\ boundary' <= posts' /\ NothingPassedOver'
<1> SUFFICES ASSUME SubscriptionInv, NothingPassedOver, [Next]_vars
             PROVE  ListedCovered' /\ boundary' <= posts' /\ NothingPassedOver'
  OBVIOUS
<1>0. /\ SubTypeOK /\ SubTypeOK' /\ ListedCovered /\ Kept /\ boundary <= posts
      /\ boundary \in 0..MaxPosts /\ posts \in Nat /\ posts' \in Nat /\ posts <= posts'
      /\ checks \in [Checks -> CheckState]
  BY TypeStep, KeptStep, SubscriptionAssumption DEF SubscriptionInv, SubTypeOK, Kept
<1>1. ASSUME UNCHANGED boundary PROVE boundary' <= posts' /\ NothingPassedOver'
  BY <1>0, <1>1, CoveredKept DEF NothingPassedOver, Covered
<1>2. ASSUME NEW c \in Checks, NEW kind \in {"group", "single", "force"}, Load(c, kind)
      PROVE  ListedCovered'
  <2>1. PICK k \in CheckState :
          k = [IdleCheck EXCEPT !.step = "loaded", !.kind = kind, !.last = boundary]
    BY <1>0, IdleType DEF CheckState, Steps
  <2>2. k.step = "loaded" /\ k.last = boundary
    BY <2>1 DEF IdleCheck
  <2>3. Safe(k)
    BY <1>0, <2>2 DEF Safe, NothingPassedOver
  <2>4. Safe(k)'
    BY <1>0, <2>3, SafeKept
  <2>5. checks' = [checks EXCEPT ![c] = k]
    BY <1>2, <2>1 DEF Load
  <2> QED BY <1>0, <2>4, <2>5, CheckSafe
<1>3. CASE Claim \/ Dispatch \/ DispatchFails \/ WorldStep \/ ExpireLock \/ Startup
           \/ UNCHANGED vars
  <2>1. UNCHANGED <<checks, boundary>>
    BY <1>3 DEF Claim, Dispatch, DispatchFails, WorldStep, Publish, QueueWork, EndJob,
                TakeDown, ExpireLock, Startup, vars, group
  <2> QED BY <1>0, <1>1, <2>1, ChecksSafe
<1>4. ASSUME NEW c \in Groups, StartGroup(c)
      PROVE  ListedCovered' /\ boundary' <= posts' /\ NothingPassedOver'
  <2>1. UNCHANGED boundary /\ (Load(c, "group") \/ UNCHANGED checks) /\ c \in Checks
    BY <1>4 DEF StartGroup, Checks
  <2> QED BY <1>0, <1>1, <1>2, <2>1, ChecksSafe
<1>5. ASSUME NEW c \in Checks, CheckStep(c)
      PROVE  ListedCovered' /\ boundary' <= posts' /\ NothingPassedOver'
  BY <1>0, <1>5, CheckStepCovers
<1>6. ASSUME NEW c \in Checks, Fail(c)
      PROVE  ListedCovered' /\ boundary' <= posts' /\ NothingPassedOver'
  <2>1. PICK k \in CheckState : k = [IdleCheck EXCEPT !.step = "release", !.kind = checks[c].kind]
    BY <1>0, CheckMoves DEF Steps
  <2>2. k.step = "release" /\ k.last = 0
    BY <2>1 DEF IdleCheck
  <2>3. Safe(k)'
    BY <1>0, <2>2, SafeEmpty
  <2> QED BY <1>0, <1>1, <1>6, <2>1, <2>3, CheckSafe DEF Fail, End
<1>7. CASE UserStep
  <2>1. UNCHANGED boundary
    BY <1>7 DEF UserStep, RunGroup, PauseGroup, ResumeGroup, StartSingle
  <2>2. CASE UNCHANGED checks
    BY <1>0, <1>1, <2>1, <2>2, ChecksSafe
  <2>3. ASSUME NEW c \in Singles, StartSingle(c) PROVE ListedCovered'
    BY <1>2, <2>3 DEF StartSingle, Checks
  <2> QED BY <1>1, <1>7, <2>1, <2>2, <2>3 DEF UserStep, RunGroup, PauseGroup, ResumeGroup
<1>8. CASE Crash
  <2>1. UNCHANGED boundary /\ checks' = [c \in Checks |-> IdleCheck]
    BY <1>8 DEF Crash
  <2>2. Safe(IdleCheck)'
    BY DEF Safe, IdleCheck
  <2>3. ListedCovered'
    BY <2>1, <2>2 DEF ListedCovered, Safe, IdleCheck
  <2> QED BY <1>1, <2>1, <2>3
<1> QED BY <1>3, <1>4, <1>5, <1>6, <1>7, <1>8 DEF Next

-----------------------------------------------------------------------------
(* The theorems. *)

\* The three invariants together are inductive.
THEOREM SubscriptionSafe ==
  Spec => [](SubscriptionInv /\ NothingPassedOver /\ PauseHolds)
<1> DEFINE Inv == SubscriptionInv /\ NothingPassedOver /\ PauseHolds
<1>1. Init => Inv
  BY InitSub
<1>2. Inv /\ [Next]_vars => Inv'
  <2> SUFFICES ASSUME Inv, [Next]_vars PROVE Inv'
    OBVIOUS
  <2>1. SubTypeOK' /\ LockHeld'
    BY TypeStep, LockStep DEF SubscriptionInv
  <2>2. ListedCovered' /\ boundary' <= posts' /\ NothingPassedOver'
    BY CoveredStep
  <2>3. PauseHolds'
    BY PauseStep
  <2> QED BY <2>1, <2>2, <2>3 DEF SubscriptionInv
<1> QED BY <1>1, <1>2, PTL DEF Spec

\* The check lock excludes and every snapshot of the boundary is covered, however
\* checks overlap, fail and crash (worker/subscription.py:62-128, 165-178).
THEOREM ChecksExclude == Spec => []SubscriptionInv
BY SubscriptionSafe, PTL

\* The boundary passes no work that a listing saw and that never had a job
\* (worker/subscription.py:62-128).
THEOREM NoWorkPassedOver == Spec => []NothingPassedOver
BY SubscriptionSafe, PTL

\* A pause holds until it is resumed (worker/subscription_group.py:41-47).
THEOREM PauseIsKept == Spec => []PauseHolds
BY SubscriptionSafe, PTL
=============================================================================
