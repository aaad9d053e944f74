-------------------------- MODULE DbOpsHistoryProofs --------------------------
(***************************************************************************)
(* Proofs about DbOpsHistory, for any operations, pods and faults: that a  *)
(* pod restarts at most once for a posting, that an operation is completed *)
(* only after every pod the list showed acted, and that no request is lost.*)
(***************************************************************************)
EXTENDS DbOpsProofs

(* A step that is none of pod p's leaves it and its process where they were, *)
(* but for the freshness of a copy.                                          *)
SameProcess(p) == /\ pods'[p] = pods[p]
                  /\ ctl'[p].pc = ctl[p].pc
                  /\ ctl'[p].snap = ctl[p].snap

LEMMA WriteDbOpsProcesses ==
  ASSUME NEW o, NEW obj, NEW controllers \in [Pod -> Controller], NEW worker,
         WriteDbOps(o, obj, controllers, worker), NEW p \in Pod
  PROVE  ctl'[p].pc = controllers[p].pc /\ ctl'[p].snap = controllers[p].snap
BY DEF WriteDbOps, Controller

(* The steps of a pod: of its process, and of those who start and stop it. *)
StepOf(p) == \/ ControllerStep(p) \/ RemovePod(p) \/ CreatePod(p)
             \/ EvictPod(p) \/ CrashController(p)

LEMMA OthersUndisturbed ==
  ASSUME Typed, NEW p \in Pod, StepOf(p), NEW q \in Pod, q # p
  PROVE  SameProcess(q)
<1>0. ctl \in [Pod -> Controller] /\ pods \in [Pod -> PodObject]
  BY DEF Typed, TypeOK
<1>1. CASE MarkDbOps(p)
  <2> DEFINE after(pc) == [ctl EXCEPT ![p].pc = pc, ![p].held = NoObject,
                                      ![p].fresh = FALSE]
  <2>1. ASSUME NEW pc \in {"reporting", "loop"}
        PROVE  after(pc) \in [Pod -> Controller] /\ after(pc)[q] = ctl[q]
    BY <1>0, ConstantsTyped DEF Controller, ControllerPC
  <2>2. /\ pods' = pods
        /\ \E pc \in {"reporting", "loop"}:
                \E o, obj : WriteDbOps(o, obj, after(pc), rec)
    BY <1>1 DEF MarkDbOps
  <2> HIDE DEF after
  <2> QED BY <2>1, <2>2, WriteDbOpsProcesses DEF SameProcess
<1>2. CASE ~MarkDbOps(p)
  BY <1>0, <1>2 DEF StepOf, ControllerStep, StartController, FinishBoot, Refresh, Turn,
     CleanUp, DeletePod, ReadDbOps, MarkRefused, HandlePlaceholder, Report, RemovePod,
     CreatePod, EvictPod, CrashController, Goto, SetCompleted, SameProcess
<1> QED BY <1>1, <1>2

LEMMA PodStepsQuiet ==
  ASSUME NEW p \in Pod, StepOf(p)
  PROVE  cluster' = cluster /\ podCache' = podCache
BY DEF StepOf, ControllerStep, StartController, FinishBoot, Refresh, CleanUp, DeletePod,
       ReadDbOps, MarkDbOps, MarkRefused, HandlePlaceholder, Report, RemovePod, CreatePod,
       EvictPod, CrashController, OnlyPod, opVars

(* Whatever is no pod's step disturbs none. *)
LEMMA PodsUndisturbed ==
  ASSUME Typed, [Next]_vars, ~\E p \in Pod : StepOf(p), NEW q \in Pod
  PROVE  SameProcess(q)
<1>0. ctl \in [Pod -> Controller]
  BY DEF Typed, TypeOK
<1>1. CASE pods' = pods /\ ctl' = ctl
  BY <1>1 DEF SameProcess
<1>2. ASSUME NEW o \in Op, CreateOp(o) \/ DeleteOp(o) PROVE SameProcess(q)
  BY <1>0, <1>2, WriteDbOpsProcesses DEF CreateOp, DeleteOp, SameProcess
<1>3. CASE CompleteOp
  BY <1>0, <1>3, WriteDbOpsProcesses DEF CompleteOp, SameProcess
<1>4. \/ pods' = pods /\ ctl' = ctl
      \/ \E o \in Op : CreateOp(o) \/ DeleteOp(o)
      \/ CompleteOp
  <2>1. CASE OperatorStep
    BY <2>1 DEF OperatorStep, SyncDbOps, SyncCluster, SyncPods, Reconcile, ClearCluster,
                PostOp, UpdateRefused, Panic, RestartOperator, serverVars
  <2>2. CASE Disturbance
    BY <2>2 DEF Disturbance, StepOf, MarkInitialized, TouchCluster, CrashOperator,
                RestartOperator, Resync, serverVars
  <2>3. CASE UNCHANGED vars
    BY <2>3 DEF vars, serverVars
  <2> QED BY <2>1, <2>2, <2>3 DEF Next, PlatformStep, StepOf
<1> QED BY <1>1, <1>2, <1>3, <1>4

-----------------------------------------------------------------------------
(***************************************************************************)
(* One restart for a posting.  A pod that has restarted since the last     *)
(* posting is gone or going, or its process is about to read the           *)
(* BGCluster; or no restart is posted, nor was one when the process        *)
(* started, and a later posting forgets the restart; or the process read   *)
(* the posting when it started on an initialized cluster, and reports      *)
(* before it handles it.  As long as no call fails, none of these lets the *)
(* pod go again.                                                           *)
(***************************************************************************)
Answered(p) ==
  \/ pods[p].phase # "running"
  \/ ctl[p].pc = "down"
  \/ cluster.posted \notin RestartOp /\ ctl[p].snap.posted \notin RestartOp
  \/ /\ ctl[p].snap.posted \in RestartOp
     /\ pods[p].completed \/ (ctl[p].pc = "booting" /\ ctl[p].snap.initialized)

NoErrorYet == left["apiError"] = Budget["apiError"]

(* An absent pod has no process, and the loop cleans up only after it saw   *)
(* that nothing is posted.                                                  *)
ProcessesPlaced ==
  \A p \in Pod : /\ pods[p].phase = "absent" => ctl[p].pc = "down"
                 /\ ctl[p].pc = "cleaning" => ctl[p].snap.posted = NoOp

BudgetKept == left["apiError"] <= Budget["apiError"]

RestartsAnswered ==
  /\ ProcessesPlaced
  /\ BudgetKept
  /\ NoErrorYet => \A p \in bounced \cap Pod : Answered(p)

LEMMA InitAnswered == HInit => RestartsAnswered
<1> SUFFICES ASSUME HInit PROVE RestartsAnswered
  OBVIOUS
<1>1. BudgetKept
  BY BudgetAssumption, FaultKinds DEF HInit, Init, BudgetKept
<1>2. ProcessesPlaced
  BY DEF HInit, Init, ProcessesPlaced, Down
<1>3. bounced = {}
  BY DEF HInit
<1> QED BY <1>1, <1>2, <1>3 DEF RestartsAnswered

(* Only a call that fails uses the budget of such calls up. *)
LEMMA BudgetStep ==
  ASSUME Typed, [Next]_vars
  PROVE  left'["apiError"] <= left["apiError"]
<1>0. left \in [FaultKind -> Nat] /\ "apiError" \in FaultKind
  BY FaultKinds DEF Typed, TypeOK
<1>1. ASSUME NEW kind, Spend(kind) PROVE left'["apiError"] <= left["apiError"]
  BY <1>0, <1>1 DEF Spend
<1>2. left' = left \/ \E kind : Spend(kind)
  <2>1. CASE OperatorStep
    BY <2>1 DEF OperatorStep, SyncDbOps, SyncCluster, SyncPods, Reconcile, ClearCluster,
                CompleteOp, PostOp, UpdateRefused, Panic, RestartOperator
  <2>2. CASE Disturbance
    BY <2>2 DEF Disturbance, CreateOp, DeleteOp, MarkInitialized, TouchCluster,
                CrashOperator, Resync, EvictPod, CrashController
  <2>3. CASE \E p \in Pod : ControllerStep(p)
    BY <2>3 DEF ControllerStep, StartController, FinishBoot, Refresh, CleanUp, DeletePod,
                ReadDbOps, MarkDbOps, MarkRefused, HandlePlaceholder, Report
  <2>4. CASE PlatformStep
    BY <2>4 DEF PlatformStep, RemovePod, CreatePod
  <2>5. CASE UNCHANGED vars
    BY <2>5 DEF vars
  <2> QED BY <2>1, <2>2, <2>3, <2>4, <2>5 DEF Next
<1> QED BY <1>0, <1>1, <1>2

(* What the BGCluster may become: its posting is taken off, or is a posting  *)
(* anew, and its initialized annotation stays.                               *)
LEMMA ClusterStep ==
  ASSUME Typed, CopiesCurrent, [Next]_vars
  PROVE  /\ cluster.initialized => cluster'.initialized
         /\ \/ cluster'.posted \in {cluster.posted, NoOp}
            \/ \E o \in Op : Posting(o)
<1>0. cluster \in BGCluster
  BY DEF Typed, TypeOK
<1>1. CASE cluster' = cluster
  BY <1>1
<1>2. CASE MarkInitialized
  <2>1. clusterCache = cluster
    BY <1>2 DEF MarkInitialized, CopiesCurrent, CachesCurrent
  <2>2. cluster' = [cluster EXCEPT !.initialized = TRUE]
    BY <1>2, <2>1 DEF MarkInitialized, WriteCluster
  <2> QED BY <1>0, <2>2 DEF BGCluster
<1>3. CASE ClearCluster
  <2>1. cluster' = Cleared(cluster)
    BY <1>3 DEF ClearCluster, WriteCluster, CopiesCurrent, WorkerCurrent
  <2> QED BY <1>0, <2>1 DEF BGCluster, Cleared
<1>4. CASE PostOp
  <2>1. cluster' = [cluster EXCEPT !.posted = rec.op] /\ rec.op \in Op
    BY <1>4 DEF PostOp, WriteCluster, CopiesCurrent, WorkerCurrent, Typed, HasOp
  <2> QED BY <1>0, <2>1 DEF BGCluster, Posting
<1>5. CASE OperatorStep /\ ~ClearCluster /\ ~PostOp
  BY <1>1, <1>5 DEF OperatorStep, SyncDbOps, SyncCluster, SyncPods, Reconcile, CompleteOp,
                    UpdateRefused, Panic, RestartOperator, serverVars
<1>6. CASE Disturbance /\ ~MarkInitialized
  BY <1>1, <1>6 DEF Disturbance, CreateOp, DeleteOp, TouchCluster, CrashOperator,
                    RestartOperator, Resync, EvictPod, CrashController, OnlyPod,
                    serverVars
<1>7. CASE \E p \in Pod : StepOf(p)
  BY <1>1, <1>7, PodStepsQuiet
<1>8. CASE UNCHANGED vars
  BY <1>1, <1>8 DEF vars, serverVars
<1> QED BY <1>2, <1>3, <1>4, <1>5, <1>6, <1>7, <1>8 DEF Next, PlatformStep, StepOf

LEMMA QuietAnswered ==
  ASSUME NEW q \in Pod, SameProcess(q), Answered(q),
         cluster'.posted \in {cluster.posted, NoOp}
  PROVE  Answered(q)'
<1>1. NoOp \notin RestartOp
  BY OpAssumption
<1> QED BY <1>1 DEF SameProcess, Answered

LEMMA NoErrorBefore ==
  ASSUME Typed, [Next]_vars, BudgetKept, NoErrorYet'
  PROVE  NoErrorYet /\ ~Spend("apiError")
<1>1. /\ left["apiError"] \in Nat /\ left'["apiError"] \in Nat
      /\ Budget["apiError"] \in Nat
  BY StepTyped, FaultKinds, BudgetAssumption DEF Typed, TypeOK
<1>2. left'["apiError"] <= left["apiError"]
  BY BudgetStep
<1>3. ASSUME Spend("apiError") PROVE left'["apiError"] < left["apiError"]
  BY <1>1, <1>3, FaultKinds DEF Spend, Typed, TypeOK
<1> QED BY <1>1, <1>2, <1>3 DEF BudgetKept, NoErrorYet

(* A pod's own step, while no call has failed: it goes only if it has not   *)
(* yet gone for this posting, and if it has, it stays answered, unless it   *)
(* starts on a cluster that is not initialized.                             *)
LEMMA OwnStepAnswered ==
  ASSUME Typed, ProcessesPlaced, NEW p \in Pod, StepOf(p), ~Spend("apiError")
  PROVE  /\ Answered(p) => ~Deleted(p)
         /\ (Answered(p) \/ Deleted(p)) /\ ~(Started(p) /\ ~cluster.initialized)
              => Answered(p)'
<1>0. /\ ctl \in [Pod -> Controller] /\ pods \in [Pod -> PodObject]
      /\ cluster \in BGCluster /\ ctl[p].snap \in BGCluster
  BY DEF Typed, TypeOK, Controller
<1>1. cluster' = cluster /\ NoOp \notin RestartOp
  BY PodStepsQuiet, OpAssumption
<1>2. CASE StartController(p)
  <2>1. /\ pods' = pods /\ ctl[p].pc = "down"
        /\ ctl'[p].pc = "booting" /\ ctl'[p].snap = cluster
    BY <1>0, <1>2 DEF StartController, Down
  <2> QED BY <1>1, <2>1 DEF Answered, Deleted, Started
<1>3. CASE FinishBoot(p)
  <2>1. /\ ctl'[p].snap = ctl[p].snap /\ ctl[p].pc = "booting"
        /\ pods'[p].phase = pods[p].phase
        /\ pods[p].completed \/ ReportsRestart(ctl[p].snap) => pods'[p].completed
    BY <1>0, <1>3 DEF FinishBoot, Goto, SetCompleted, Controller, PodObject
  <2> QED BY <1>1, <2>1 DEF Answered, Deleted, ReportsRestart
<1>4. CASE Refresh(p)
  <2>1. /\ pods' = pods /\ ctl[p].pc = "loop"
        /\ ctl'[p].snap = Decoded(ctl[p].snap, cluster)
    BY <1>0, <1>4 DEF Refresh, Turn, Controller
  <2>2. Decoded(ctl[p].snap, cluster).posted =
          IF cluster.posted = NoOp THEN ctl[p].snap.posted ELSE cluster.posted
    BY DEF Decoded
  <2> QED BY <1>1, <2>1, <2>2 DEF Answered, Deleted
<1>5. CASE CleanUp(p)
  <2>1. /\ ctl'[p].snap = ctl[p].snap /\ ctl[p].snap.posted = NoOp
        /\ ctl[p].pc = "cleaning" /\ pods'[p].phase = pods[p].phase
    BY <1>0, <1>5 DEF CleanUp, Goto, SetCompleted, ProcessesPlaced, Controller, PodObject
  <2> QED BY <1>1, <2>1 DEF Answered, Deleted
<1>6. CASE DeletePod(p)
  <2>1. /\ ctl[p].snap.posted \in RestartOp /\ ctl[p].pc = "handling"
        /\ ~pods[p].completed /\ pods'[p].phase = "terminating"
    BY <1>0, <1>6 DEF DeletePod, PodObject
  <2> QED BY <2>1 DEF Answered, Deleted
<1>7. CASE ReadDbOps(p) \/ MarkRefused(p) \/ HandlePlaceholder(p)
  <2>1. /\ pods' = pods /\ ctl'[p].snap = ctl[p].snap
        /\ ctl[p].pc \notin {"down", "booting"}
    BY <1>0, <1>7 DEF ReadDbOps, MarkRefused, HandlePlaceholder, Goto, Controller
  <2> QED BY <1>1, <2>1 DEF Answered, Deleted
<1>8. CASE MarkDbOps(p)
  <2> DEFINE after(pc) == [ctl EXCEPT ![p].pc = pc, ![p].held = NoObject,
                                      ![p].fresh = FALSE]
  <2>1. ASSUME NEW pc \in {"reporting", "loop"}
        PROVE  after(pc) \in [Pod -> Controller] /\ after(pc)[p].snap = ctl[p].snap
    BY <1>0, ConstantsTyped DEF Controller, ControllerPC
  <2>2. /\ pods' = pods /\ ctl[p].pc = "marking"
        /\ \E pc \in {"reporting", "loop"}:
                \E o, obj : WriteDbOps(o, obj, after(pc), rec)
    BY <1>8 DEF MarkDbOps
  <2> HIDE DEF after
  <2>3. ctl'[p].snap = ctl[p].snap
    BY <2>1, <2>2, WriteDbOpsProcesses
  <2> QED BY <1>1, <2>2, <2>3 DEF Answered, Deleted
<1>9. CASE Report(p)
  <2>1. /\ ctl'[p].snap = ctl[p].snap /\ ctl[p].pc = "reporting"
        /\ pods'[p].phase = pods[p].phase /\ pods'[p].completed
    BY <1>0, <1>9 DEF Report, Goto, SetCompleted, Controller, PodObject
  <2> QED BY <1>1, <2>1 DEF Answered, Deleted
<1>10. CASE RemovePod(p) \/ CreatePod(p) \/ EvictPod(p) \/ CrashController(p)
  <2>1. pods'[p].phase = "running" => ctl'[p].pc = "down"
    BY <1>0, <1>10 DEF RemovePod, CreatePod, EvictPod, CrashController, NoPod, NewPod,
                       Down, ProcessesPlaced, PodObject
  <2>2. ~Deleted(p)
    BY <1>0, <1>10 DEF RemovePod, CreatePod, EvictPod, CrashController, Down, Deleted,
                       Handled
  <2> QED BY <2>1, <2>2 DEF Answered
<1> QED BY <1>2, <1>3, <1>4, <1>5, <1>6, <1>7, <1>8, <1>9, <1>10
        DEF StepOf, ControllerStep

LEMMA StepPlaced ==
  ASSUME Typed, ProcessesPlaced, [Next]_vars PROVE ProcessesPlaced'
<1> DEFINE Placed(q) == /\ pods[q].phase = "absent" => ctl[q].pc = "down"
                        /\ ctl[q].pc = "cleaning" => ctl[q].snap.posted = NoOp
<1> SUFFICES ASSUME NEW q \in Pod PROVE Placed(q)'
  BY DEF ProcessesPlaced
<1>0. /\ ctl \in [Pod -> Controller] /\ pods \in [Pod -> PodObject] /\ Placed(q)
  BY DEF Typed, TypeOK, ProcessesPlaced
<1>1. CASE SameProcess(q)
  BY <1>0, <1>1 DEF SameProcess
<1>2. CASE StepOf(q)
  <2>1. CASE MarkDbOps(q)
    <3> DEFINE after(pc) == [ctl EXCEPT ![q].pc = pc, ![q].held = NoObject,
                                        ![q].fresh = FALSE]
    <3>1. ASSUME NEW pc \in {"reporting", "loop"}
          PROVE  after(pc) \in [Pod -> Controller] /\ after(pc)[q].pc = pc
      BY <1>0, ConstantsTyped DEF Controller, ControllerPC
    <3>2. /\ pods' = pods /\ ctl[q].pc = "marking"
          /\ \E pc \in {"reporting", "loop"}:
                  \E o, obj : WriteDbOps(o, obj, after(pc), rec)
      BY <2>1 DEF MarkDbOps
    <3> HIDE DEF after
    <3>3. ctl'[q].pc \in {"reporting", "loop"}
      BY <3>1, <3>2, WriteDbOpsProcesses
    <3> QED BY <1>0, <3>2, <3>3
  <2>2. CASE Refresh(q)
    <3>1. PICK snap : Turn(q, snap) /\ pods' = pods
      BY <2>2 DEF Refresh
    <3>2. /\ ctl'[q].snap = snap
          /\ ctl'[q].pc = IF snap.posted # NoOp THEN "handling" ELSE "cleaning"
      BY <1>0, <3>1 DEF Turn, Controller
    <3> QED BY <1>0, <2>2, <3>1, <3>2 DEF Refresh
  <2>3. CASE RemovePod(q) \/ CreatePod(q) \/ EvictPod(q) \/ CrashController(q)
    BY <1>0, <2>3 DEF RemovePod, CreatePod, EvictPod, CrashController, Down, NewPod,
                      PodObject
  <2>4. CASE StartController(q)
    <3>1. pods' = pods /\ pods[q].phase = "running" /\ ctl'[q].pc = "booting"
      BY <1>0, <2>4 DEF StartController, Down
    <3> QED BY <3>1
  <2>5. CASE ReadDbOps(q) \/ MarkRefused(q) \/ HandlePlaceholder(q)
    <3>1. pods' = pods /\ ctl[q].pc # "down" /\ ctl'[q].pc # "cleaning"
      BY <1>0, <2>5 DEF ReadDbOps, MarkRefused, HandlePlaceholder, Goto, Controller
    <3> QED BY <1>0, <3>1
  <2>6. CASE FinishBoot(q) \/ CleanUp(q) \/ Report(q)
    <3>1. /\ pods'[q].phase = pods[q].phase
          /\ ctl[q].pc # "down" /\ ctl'[q].pc \in {"loop", "down"}
      BY <1>0, <2>6 DEF FinishBoot, CleanUp, Report, Goto, SetCompleted, Controller,
                        PodObject
    <3> QED BY <1>0, <3>1
  <2>7. CASE DeletePod(q)
    <3>1. /\ ctl[q].pc = "handling" /\ ctl'[q].pc = "reporting"
          /\ pods'[q].phase \in {pods[q].phase, "terminating"}
      BY <1>0, <2>7 DEF DeletePod, Goto, Controller, PodObject
    <3> QED BY <1>0, <3>1
  <2> QED BY <1>2, <2>1, <2>2, <2>3, <2>4, <2>5, <2>6, <2>7 DEF StepOf, ControllerStep
<1> QED BY <1>1, <1>2, OthersUndisturbed, PodsUndisturbed

LEMMA StepAnswered ==
  Typed /\ CopiesCurrent /\ RestartsAnswered /\ [HNext]_hvars => RestartsAnswered'
<1> SUFFICES ASSUME Typed, CopiesCurrent, RestartsAnswered, HNext
             PROVE  RestartsAnswered'
  BY DEF hvars, history, vars, serverVars, RestartsAnswered, ProcessesPlaced, BudgetKept,
         NoErrorYet, Answered
<1>1. [Next]_vars /\ Record
  BY DEF HNext
<1>2. ProcessesPlaced'
  BY <1>1, StepPlaced DEF RestartsAnswered
<1>3. BudgetKept'
  <2>1. /\ left["apiError"] \in Nat /\ left'["apiError"] \in Nat
        /\ Budget["apiError"] \in Nat
    BY <1>1, StepTyped, FaultKinds, BudgetAssumption DEF Typed, TypeOK
  <2> QED BY <1>1, <2>1, BudgetStep DEF RestartsAnswered, BudgetKept
<1>4. ASSUME NoErrorYet', NEW q \in Pod, q \in bounced' PROVE Answered(q)'
  <2>1. NoErrorYet /\ ~Spend("apiError")
    BY <1>1, <1>4, NoErrorBefore DEF RestartsAnswered
  <2>2. /\ ~(\E o \in Op : Posting(o))
        /\ q \in bounced \/ Deleted(q)
        /\ ~(Started(q) /\ ~cluster.initialized)
    BY <1>1, <1>4 DEF Record
  <2>3. Answered(q) \/ Deleted(q)
    BY <2>1, <2>2 DEF RestartsAnswered
  <2>4. CASE StepOf(q)
    BY <1>1, <2>1, <2>2, <2>3, <2>4, OwnStepAnswered DEF RestartsAnswered
  <2>5. CASE ~StepOf(q)
    <3>1. SameProcess(q)
      BY <1>1, <2>5, OthersUndisturbed, PodsUndisturbed
    <3>2. ~Deleted(q)
      BY <3>1 DEF SameProcess, Deleted, Handled
    <3> QED BY <1>1, <2>2, <2>3, <3>1, <3>2, ClusterStep, QuietAnswered
  <2> QED BY <2>4, <2>5
<1> QED BY <1>2, <1>3, <1>4 DEF RestartsAnswered

LEMMA StepRestartsOnce ==
  ASSUME Typed, CopiesCurrent, RestartsAnswered, [HNext]_hvars, NEW p \in Pod, Deleted(p)
  PROVE  p \notin bounced \/ left'["apiError"] < Budget["apiError"]
<1> SUFFICES ASSUME p \in bounced, ~(left'["apiError"] < Budget["apiError"]) PROVE FALSE
  OBVIOUS
<1>1. HNext
  BY DEF hvars, vars, serverVars, Deleted, Handled
<1>2. [Next]_vars
  BY <1>1 DEF HNext
<1>3. NoErrorYet'
  <2>1. /\ left["apiError"] \in Nat /\ left'["apiError"] \in Nat
        /\ Budget["apiError"] \in Nat
    BY <1>2, StepTyped, FaultKinds, BudgetAssumption DEF Typed, TypeOK
  <2>2. left'["apiError"] <= left["apiError"] /\ left["apiError"] <= Budget["apiError"]
    BY <1>2, BudgetStep DEF RestartsAnswered, BudgetKept
  <2> QED BY <2>1, <2>2 DEF NoErrorYet
<1>4. NoErrorYet /\ ~Spend("apiError")
  BY <1>2, <1>3, NoErrorBefore DEF RestartsAnswered
<1>5. StepOf(p)
  BY <1>2, OthersUndisturbed, PodsUndisturbed DEF SameProcess, Deleted, Handled
<1> QED BY <1>4, <1>5, OwnStepAnswered DEF RestartsAnswered

(* However stale the caches and whoever crashes, no pod restarts twice for  *)
(* one posting, unless it booted on a cluster not yet initialized in        *)
(* between or a call failed.                                                *)
THEOREM RestartsOnce == HSpec => OncePerPosting
<1> DEFINE Once ==
      \A p \in Pod : Deleted(p) => \/ p \notin bounced
                                   \/ left'["apiError"] < Budget["apiError"]
<1>1. HInit => Init
  BY DEF HInit
<1>2. [HNext]_hvars => [Next]_vars
  BY DEF HNext, hvars
<1>3. Typed /\ CopiesCurrent /\ RestartsAnswered /\ [HNext]_hvars => Once
  BY StepRestartsOnce
<1>4. HInit => RestartsAnswered
  BY InitAnswered
<1> QED BY <1>1, <1>2, <1>3, <1>4, InitTyped, StepTyped, InitCurrent, StepCurrent,
           StepAnswered, PTL DEF HSpec, OncePerPosting

-----------------------------------------------------------------------------
(***************************************************************************)
(* Completion.  Whatever makes a listed pod count as done -- its           *)
(* annotation, the list the operator last saw of it, or a process about to *)
(* report -- is there because the pod acted; and the worker that saw all   *)
(* listed pods done says as much of every pod that was listed.  For which  *)
(* operation it acted no annotation says, so it may be another.  A restart *)
(* is excused once a call has failed: handleRestart reports a deletion     *)
(* that never came about.                                                  *)
(***************************************************************************)
Evident(p) ==
  \/ pods[p].completed
  \/ podCache[p] = "done"
  \/ ctl[p].pc \in {"reporting", "marking"}
  \/ ctl[p].pc = "booting" /\ ctl[p].snap.posted # NoOp

Concluded == rec.pc \in {"clear", "complete"}

Excused == RestartOp # {} /\ left["apiError"] < Budget["apiError"]

ActedOnce(p) == \E a \in Op : p \in acted[a]

Accounted ==
  /\ BudgetKept
  /\ acted \in [Op -> SUBSET Pod]
  /\ \A o \in Op : o \notin announced => acted[o] = {}
  /\ \/ Excused
     \/ /\ \A p \in Pod : Evident(p) => ActedOnce(p)
        /\ Concluded => \A p \in Pod : ActedOnce(p) \/ p \in unlisted

LEMMA InitAccounted == HInit => Accounted
<1> SUFFICES ASSUME HInit PROVE Accounted
  OBVIOUS
<1>1. acted = [o \in Op |-> {}] /\ BudgetKept
  BY InitAnswered DEF HInit, RestartsAnswered
<1>2. ~Concluded
  BY DEF HInit, Init, Idle, Concluded
<1>3. ASSUME NEW p \in Pod PROVE ~Evident(p)
  BY DEF HInit, Init, NewPod, NoPod, Down, View, Evident
<1> QED BY <1>1, <1>2, <1>3 DEF Accounted

(* What a pod did is never forgotten, and what it does is noted of every   *)
(* operation that was posted.                                              *)
LEMMA ActedGrows ==
  ASSUME Accounted, Record
  PROVE  /\ acted' \in [Op -> SUBSET Pod]
         /\ \A o \in Op : /\ o \notin announced' => acted'[o] = {}
                          /\ acted[o] \subseteq acted'[o]
                          /\ o \in announced => Acted \subseteq acted'[o]
<1>1. Acted \subseteq Pod
  BY DEF Acted
<1>2. announced \subseteq announced'
  BY DEF Record
<1>3. acted' = [a \in Op |-> IF a \in announced' THEN acted[a] \cup Acted ELSE {}]
  BY DEF Record
<1> QED BY <1>1, <1>2, <1>3 DEF Accounted

(* An excuse stays, and while there is none no restart's call fails. *)
LEMMA ExcusedStays ==
  ASSUME Typed, BudgetKept, [Next]_vars
  PROVE  /\ BudgetKept'
         /\ Excused => Excused'
         /\ ~Excused' => RestartOp = {} \/ ~Spend("apiError")
<1>1. /\ left["apiError"] \in Nat /\ left'["apiError"] \in Nat
      /\ Budget["apiError"] \in Nat
  BY StepTyped, FaultKinds, BudgetAssumption DEF Typed, TypeOK
<1>2. left'["apiError"] <= left["apiError"]
  BY BudgetStep
<1>3. BudgetKept' /\ (Excused => Excused')
  BY <1>1, <1>2 DEF BudgetKept, Excused
<1>4. ASSUME ~Excused', RestartOp # {} PROVE ~Spend("apiError")
  <2>1. NoErrorYet'
    BY <1>1, <1>3, <1>4 DEF Excused, NoErrorYet, BudgetKept
  <2> QED BY <2>1, NoErrorBefore
<1> QED BY <1>3, <1>4

LEMMA CacheStep ==
  ASSUME [Next]_vars
  PROVE  podCache' \in {podCache, [p \in Pod |-> View(pods[p])]}
<1>1. CASE OperatorStep
  BY <1>1 DEF OperatorStep, SyncDbOps, SyncCluster, SyncPods, Reconcile, ClearCluster,
              CompleteOp, PostOp, UpdateRefused, Panic, RestartOperator
<1>2. CASE Disturbance
  BY <1>2 DEF Disturbance, CreateOp, DeleteOp, MarkInitialized, TouchCluster,
              CrashOperator, RestartOperator, Resync, EvictPod, CrashController, OnlyPod,
              opVars
<1>3. CASE \E p \in Pod : ControllerStep(p)
  BY <1>3 DEF ControllerStep, StartController, FinishBoot, Refresh, CleanUp, DeletePod,
              ReadDbOps, MarkDbOps, MarkRefused, HandlePlaceholder, Report, OnlyPod, opVars
<1>4. CASE PlatformStep
  BY <1>4 DEF PlatformStep, RemovePod, CreatePod, OnlyPod, opVars
<1>5. CASE UNCHANGED vars
  BY <1>5 DEF vars, opVars
<1> QED BY <1>1, <1>2, <1>3, <1>4, <1>5 DEF Next

(* A pod's own step makes it count as done only if it acts. *)
LEMMA OwnStepEvident ==
  ASSUME Typed, PostedAnnounced, RestartOp = {} \/ ~Spend("apiError"),
         NEW p \in Pod, StepOf(p), Evident(p)', podCache'[p] = podCache[p]
  PROVE  Evident(p) \/ (p \in Acted /\ announced \cap Op # {})
<1>0. /\ ctl \in [Pod -> Controller] /\ pods \in [Pod -> PodObject]
      /\ cluster \in BGCluster /\ ctl[p].snap \in BGCluster
      /\ RestartOp \subseteq Op /\ NoOp \notin Op
  BY OpAssumption DEF Typed, TypeOK, Controller
<1>1. CASE StartController(p)
  <2>1. /\ pods' = pods /\ ctl[p].pc = "down"
        /\ ctl'[p].pc = "booting" /\ ctl'[p].snap = cluster
    BY <1>0, <1>1 DEF StartController, Down
  <2>2. p \in Acted
    BY <2>1 DEF Acted, Started
  <2>3. cluster.posted # NoOp => announced \cap Op # {}
    BY <1>0 DEF PostedAnnounced, BGCluster
  <2> QED BY <2>1, <2>2, <2>3 DEF Evident
<1>2. CASE FinishBoot(p)
  <2>1. /\ ctl'[p].pc = "loop" /\ ctl[p].pc = "booting"
        /\ pods'[p].completed =>
             pods[p].completed \/ ctl[p].snap.posted \in RestartOp
    BY <1>0, <1>2 DEF FinishBoot, ReportsRestart, Goto, SetCompleted, Controller,
                      PodObject
  <2> QED BY <1>0, <2>1 DEF Evident
<1>3. CASE Refresh(p)
  <2>1. pods' = pods /\ ctl'[p].pc \in {"handling", "cleaning"}
    BY <1>0, <1>3 DEF Refresh, Turn, Controller
  <2> QED BY <2>1 DEF Evident
<1>4. CASE CleanUp(p)
  <2>1. /\ ctl'[p].pc = "loop"
        /\ pods'[p].completed => pods[p].completed
    BY <1>0, <1>4 DEF CleanUp, Goto, SetCompleted, Controller, PodObject
  <2> QED BY <2>1 DEF Evident
<1>5. CASE DeletePod(p)
  <2>1. /\ ctl[p].snap.posted \in RestartOp
        /\ ctl[p].pc = "handling" /\ ctl'[p].pc = "reporting"
        /\ pods'[p].phase = "terminating"
    BY <1>0, <1>5 DEF DeletePod, Goto, Controller, PodObject
  <2>2. announced \cap Op # {}
    BY <1>0, <2>1 DEF PostedAnnounced
  <2>3. p \in Acted
    BY <2>1 DEF Acted, Ran, Handled
  <2> QED BY <2>2, <2>3
<1>6. CASE ReadDbOps(p)
  BY <1>6 DEF ReadDbOps, Evident
<1>7. CASE MarkDbOps(p) \/ MarkRefused(p) \/ Report(p)
  BY <1>7 DEF MarkDbOps, MarkRefused, Report, Evident
<1>8. CASE HandlePlaceholder(p)
  <2>1. /\ ctl[p].pc = "handling" /\ ctl'[p].pc = "reporting"
        /\ ctl[p].snap.posted \in Op \ RestartOp
    BY <1>0, <1>8 DEF HandlePlaceholder, Goto, Controller
  <2>2. p \in Acted
    BY <2>1 DEF Acted, Ran, Handled
  <2>3. announced \cap Op # {}
    BY <1>0, <2>1 DEF PostedAnnounced
  <2> QED BY <2>2, <2>3
<1>9. CASE RemovePod(p)
  <2>1. ~pods'[p].completed /\ ctl'[p].pc = "down"
    BY <1>0, <1>9 DEF RemovePod, NoPod, Down
  <2> QED BY <2>1 DEF Evident
<1>10. CASE CreatePod(p) \/ EvictPod(p)
  <2>1. ctl' = ctl /\ (pods'[p].completed => pods[p].completed)
    BY <1>0, <1>10 DEF CreatePod, EvictPod, NewPod, PodObject
  <2> QED BY <2>1 DEF Evident
<1>11. CASE CrashController(p)
  <2>1. pods' = pods /\ ctl'[p].pc = "down"
    BY <1>0, <1>11 DEF CrashController, Down
  <2> QED BY <2>1 DEF Evident
<1> QED BY <1>1, <1>2, <1>3, <1>4, <1>5, <1>6, <1>7, <1>8, <1>9, <1>10, <1>11
        DEF StepOf, ControllerStep

LEMMA StepEvident ==
  ASSUME Typed, PostedAnnounced, Accounted, ~Excused', Next, Record,
         NEW q \in Pod, Evident(q)'
  PROVE  ActedOnce(q)'
<1>1. /\ \A o \in Op : acted[o] \subseteq acted'[o]
      /\ \A o \in Op : o \in announced => Acted \subseteq acted'[o]
  BY ActedGrows
<1>2. ~Excused /\ (RestartOp = {} \/ ~Spend("apiError"))
  BY ExcusedStays DEF Accounted
<1>3. Evident(q) => ActedOnce(q)
  BY <1>2 DEF Accounted
<1>4. ActedOnce(q) => ActedOnce(q)'
  BY <1>1 DEF ActedOnce
<1>5. CASE podCache'[q] # podCache[q]
  <2>1. podCache'[q] = View(pods[q])
    BY <1>5, CacheStep
  <2>2. SameProcess(q)
    BY <1>5, PodStepsQuiet, PodsUndisturbed
  <2>3. Evident(q)
    <3>1. View(pods[q]) = "done" => pods[q].completed
      BY DEF View
    <3> QED BY <2>1, <2>2, <3>1 DEF SameProcess, Evident
  <2> QED BY <1>3, <1>4, <2>3
<1>6. CASE podCache'[q] = podCache[q] /\ StepOf(q)
  <2>1. Evident(q) \/ (q \in Acted /\ announced \cap Op # {})
    BY <1>2, <1>6, OwnStepEvident
  <2>2. q \in Acted /\ announced \cap Op # {} => ActedOnce(q)'
    BY <1>1 DEF ActedOnce
  <2> QED BY <1>3, <1>4, <2>1, <2>2
<1>7. CASE podCache'[q] = podCache[q] /\ ~StepOf(q)
  <2>1. SameProcess(q)
    BY <1>7, OthersUndisturbed, PodsUndisturbed
  <2>2. Evident(q)
    BY <1>7, <2>1 DEF SameProcess, Evident
  <2> QED BY <1>3, <1>4, <2>2
<1> QED BY <1>5, <1>6, <1>7

(* The worker concludes only from a list in which every pod is done. *)
LEMMA StepConcluded ==
  ASSUME Typed, Next, Concluded'
  PROVE  Concluded \/ (rec.pc = "idle" /\ AllCompleted)
<1>0. rec \in Worker
  BY DEF Typed, TypeOK
<1>1. CASE rec'.pc \in {rec.pc, "idle"}
  BY <1>1 DEF Concluded
<1>2. ASSUME NEW o, NEW obj, NEW controllers, WriteDbOps(o, obj, controllers, rec)
      PROVE  rec'.pc = rec.pc
  BY <1>0, <1>2 DEF WriteDbOps, Worker
<1>3. ASSUME NEW o, NEW obj, NEW controllers, WriteDbOps(o, obj, controllers, Idle)
      PROVE  rec'.pc = "idle"
  BY <1>3 DEF WriteDbOps, Idle
<1>4. ASSUME NEW c, NEW worker \in {rec, Idle}, WriteCluster(c, worker)
      PROVE  rec'.pc \in {rec.pc, "idle"}
  BY <1>0, <1>4 DEF WriteCluster, Idle, Worker
<1>5. CASE OperatorStep
  <2>1. CASE SyncDbOps \/ SyncCluster \/ SyncPods
    BY <1>1, <2>1 DEF SyncDbOps, SyncCluster, SyncPods
  <2>2. ASSUME NEW o \in Op, Reconcile(o) PROVE Concluded \/ (rec.pc = "idle" /\ AllCompleted)
    BY <2>2 DEF Reconcile, Reading, Idle, Concluded
  <2>3. CASE ClearCluster
    BY <2>3 DEF ClearCluster, Concluded
  <2>4. CASE CompleteOp
    BY <2>4 DEF CompleteOp, Concluded
  <2>5. CASE PostOp
    BY <1>1, <1>4, <2>5 DEF PostOp
  <2>6. CASE UpdateRefused \/ Panic
    BY <1>1, <2>6 DEF UpdateRefused, Panic, RestartOperator, Idle
  <2> QED BY <1>5, <2>1, <2>2, <2>3, <2>4, <2>5, <2>6 DEF OperatorStep
<1>6. ASSUME NEW p \in Pod, ControllerStep(p) PROVE rec'.pc = rec.pc
  <2>1. CASE MarkDbOps(p)
    BY <1>2, <2>1 DEF MarkDbOps
  <2>2. CASE ~MarkDbOps(p)
    BY <1>6, <2>2 DEF ControllerStep, StartController, FinishBoot, Refresh, CleanUp,
                      DeletePod, ReadDbOps, MarkRefused, HandlePlaceholder, Report,
                      OnlyPod, opVars
  <2> QED BY <2>1, <2>2
<1>7. CASE PlatformStep
  BY <1>1, <1>7 DEF PlatformStep, RemovePod, CreatePod, OnlyPod, opVars
<1>8. CASE Disturbance
  <2>1. CASE \E o \in Op : CreateOp(o) \/ DeleteOp(o)
    BY <1>1, <1>2, <2>1 DEF CreateOp, DeleteOp
  <2>2. CASE MarkInitialized
    BY <1>1, <1>4, <2>2 DEF MarkInitialized
  <2>3. CASE TouchCluster
    BY <1>0, <1>1, <2>3 DEF TouchCluster, Worker
  <2>4. CASE CrashOperator
    BY <1>1, <2>4 DEF CrashOperator, RestartOperator, Idle
  <2>5. CASE Resync \/ \E p \in Pod : EvictPod(p) \/ CrashController(p)
    BY <1>1, <2>5 DEF Resync, EvictPod, CrashController, OnlyPod, opVars
  <2> QED BY <1>8, <2>1, <2>2, <2>3, <2>4, <2>5 DEF Disturbance
<1> QED BY <1>1, <1>5, <1>6, <1>7, <1>8 DEF Next

(* Nobody but the worker with a conclusion marks a BGDbOps completed. *)
LEMMA CompletesConcluded ==
  ASSUME Typed, CopiesCurrent, [Next]_vars, NEW o \in Op, Completes(o)
  PROVE  Concluded
<1>0. dbops \in [Op -> BGDbOps] /\ ctl \in [Pod -> Controller]
  BY DEF Typed, TypeOK
<1>1. ASSUME NEW q \in Op, NEW obj \in BGDbOps, obj.completed => dbops[q].completed,
             dbops' = [dbops EXCEPT ![q] = obj]
      PROVE  FALSE
  BY <1>0, <1>1 DEF Completes
<1>2. dbops' # dbops
  BY DEF Completes
<1>3. ASSUME NEW q \in Op, CreateOp(q) \/ DeleteOp(q) PROVE FALSE
  <2>1. \E obj \in {NewObject, NoObject} : dbops' = [dbops EXCEPT ![q] = obj]
    BY <1>3 DEF CreateOp, DeleteOp, WriteDbOps
  <2>2. ~NewObject.completed /\ ~NoObject.completed
    BY DEF NewObject, NoObject
  <2> QED BY <1>1, <2>1, <2>2, ConstantsTyped
<1>4. ASSUME NEW p \in Pod, MarkDbOps(p) PROVE FALSE
  <2> DEFINE q == ctl[p].snap.posted
             marked == [ctl[p].held EXCEPT !.marks = @ \cup {p}]
  <2>1. q \in Op /\ ctl[p].held = dbops[q]
    BY <1>4 DEF MarkDbOps, Typed, HasOp, CopiesCurrent, CurrentIn
  <2>2. marked \in BGDbOps /\ marked.completed = dbops[q].completed
    BY <1>0, <2>1 DEF BGDbOps
  <2>3. dbops' = [dbops EXCEPT ![q] = marked]
    BY <1>4 DEF MarkDbOps, WriteDbOps
  <2> HIDE DEF marked, q
  <2> QED BY <1>1, <2>1, <2>2, <2>3
<1>5. CASE CompleteOp
  BY <1>5 DEF CompleteOp, Concluded
<1>6. CASE OperatorStep /\ ~CompleteOp
  BY <1>2, <1>6 DEF OperatorStep, SyncDbOps, SyncCluster, SyncPods, Reconcile, ClearCluster,
                    PostOp, UpdateRefused, Panic, RestartOperator, serverVars
<1>7. CASE \E p \in Pod : StepOf(p) /\ ~MarkDbOps(p)
  BY <1>2, <1>7 DEF StepOf, ControllerStep, StartController, FinishBoot, Refresh, CleanUp,
                    DeletePod, ReadDbOps, MarkRefused, HandlePlaceholder, Report,
                    RemovePod, CreatePod, EvictPod, CrashController, OnlyPod
<1>8. CASE MarkInitialized \/ TouchCluster \/ CrashOperator \/ Resync \/ UNCHANGED vars
  BY <1>2, <1>8 DEF MarkInitialized, TouchCluster, CrashOperator, RestartOperator, Resync,
                    vars, serverVars
<1> QED BY <1>3, <1>4, <1>5, <1>6, <1>7, <1>8 DEF Next, PlatformStep, Disturbance, StepOf

LEMMA StepAccounted ==
  Typed /\ CopiesCurrent /\ PostedAnnounced /\ Accounted /\ [HNext]_hvars => Accounted'
<1>1. CASE UNCHANGED hvars
  BY <1>1 DEF hvars, history, vars, serverVars, opVars, Accounted, BudgetKept, Excused,
              ActedOnce, Concluded, Evident
<1>2. ASSUME Typed, CopiesCurrent, PostedAnnounced, Accounted, Next, Record
      PROVE  Accounted'
  <2>1. /\ acted' \in [Op -> SUBSET Pod]
        /\ \A o \in Op : /\ o \notin announced' => acted'[o] = {}
                         /\ acted[o] \subseteq acted'[o]
    BY <1>2, ActedGrows
  <2>2. BudgetKept' /\ (Excused => Excused')
    BY <1>2, ExcusedStays DEF Accounted
  <2>3. ASSUME ~Excused', NEW p \in Pod, Evident(p)' PROVE ActedOnce(p)'
    BY <1>2, <2>3, StepEvident
  <2>4. ASSUME ~Excused', Concluded', NEW p \in Pod
        PROVE  ActedOnce(p)' \/ p \in unlisted'
    <3>1. ActedOnce(p) => ActedOnce(p)'
      BY <2>1 DEF ActedOnce
    <3>2. CASE Concluded
      <4>1. unlisted' = unlisted
        BY <1>2, <2>4, <3>2 DEF Record, Concluded
      <4> QED BY <1>2, <2>2, <2>4, <3>1, <3>2, <4>1 DEF Accounted
    <3>3. CASE rec.pc = "idle" /\ AllCompleted
      <4>1. unlisted' = {q \in Pod : podCache[q] = "none"}
        BY <1>2, <2>4, <3>3 DEF Record, Concluded
      <4>2. podCache[p] \in {"none", "done"}
        BY <1>2, <3>3 DEF AllCompleted, Typed, TypeOK
      <4>3. podCache[p] = "done" => ActedOnce(p)
        BY <1>2, <2>2, <2>4 DEF Accounted, Evident
      <4> QED BY <3>1, <4>1, <4>2, <4>3
    <3> QED BY <1>2, <2>4, <3>2, <3>3, StepConcluded
  <2> QED BY <2>1, <2>2, <2>3, <2>4 DEF Accounted
<1> QED BY <1>1, <1>2 DEF HNext

(* When a BGDbOps is marked completed, whatever else was asked for, crashed, *)
(* lagged, was evicted, or was deleted and requested again, every pod that   *)
(* the operator's list showed has acted since some operation was posted --   *)
(* unless restarts are asked for and a call has failed.                      *)
THEOREM CompletedOnceActed == HSpec => CompletedMeansActed
<1> DEFINE OnceActed ==
      \A o \in Op, p \in Pod :
        Completes(o) => \/ \E a \in Op : p \in acted[a]
                        \/ p \in unlisted
                        \/ RestartOp # {} /\ left["apiError"] < Budget["apiError"]
<1>1. HInit => Init
  BY DEF HInit
<1>2. [HNext]_hvars => [Next]_vars
  BY DEF HNext, hvars
<1>3. Typed /\ CopiesCurrent /\ Accounted /\ [HNext]_hvars => OnceActed
  BY <1>2, CompletesConcluded DEF Accounted, Excused, ActedOnce
<1> QED BY <1>1, <1>2, <1>3, InitTyped, StepTyped, InitCurrent, StepCurrent,
           InitAnnounced, StepAnnounced, InitAccounted, StepAccounted, PTL
        DEF HSpec, CompletedMeansActed

-----------------------------------------------------------------------------
(***************************************************************************)
(* No request is lost.  A BGDbOps still to be posted or completed is       *)
(* somewhere on its way to the worker.  The worker's hands are empty when  *)
(* it is idle, so taking up another operation drops none; and what it      *)
(* takes for gone or done, from a cache that is up to date, is.            *)
(***************************************************************************)
Wanted(o) == dbops[o].exists /\ ~dbops[o].completed /\ o \notin announced

OnItsWay(o) == o \in queue \cup staleOps \/ rec.op = o

RequestsHeld ==
  /\ rec.pc = "idle" => rec.op = NoOp
  /\ \A o \in Op : Wanted(o) => OnItsWay(o)

LEMMA InitHeld == HInit => RequestsHeld
BY DEF HInit, Init, RequestsHeld, Idle, Wanted, NoObject

(* A write of a BGDbOps sends it on its way; only the worker's own write of *)
(* a completion takes something out of its hands.                           *)
LEMMA WriteHeld ==
  ASSUME Typed, RequestsHeld, announced \subseteq announced', queue \subseteq queue',
         NEW o \in Op, NEW obj \in BGDbOps, NEW controllers, NEW worker \in Worker,
         WriteDbOps(o, obj, controllers, worker),
         worker = rec \/ (worker = Idle /\ rec.op = o /\ obj.completed)
  PROVE  RequestsHeld'
<1>1. /\ dbops \in [Op -> BGDbOps] /\ dbops' = [dbops EXCEPT ![o] = obj]
      /\ obj = dbops[o] \/ o \in staleOps'
      /\ staleOps \subseteq staleOps'
      /\ rec'.pc = worker.pc /\ rec'.op = worker.op
  BY DEF WriteDbOps, Typed, TypeOK, Worker
<1>2. rec'.pc = "idle" => rec'.op = NoOp
  <2>1. worker.pc = "idle" => worker.op = NoOp
    <3>1. Idle.op = NoOp
      BY DEF Idle
    <3> QED BY <3>1 DEF RequestsHeld
  <2> QED BY <1>1, <2>1
<1>3. ASSUME NEW q \in Op, Wanted(q)' PROVE OnItsWay(q)'
  <2>1. CASE q = o
    <3>1. ~obj.completed /\ worker = rec
      BY <1>1, <1>3, <2>1 DEF Wanted
    <3>2. obj = dbops[o] => Wanted(o)
      BY <1>1, <1>3, <2>1 DEF Wanted
    <3> QED BY <1>1, <2>1, <3>1, <3>2 DEF RequestsHeld, OnItsWay
  <2>2. CASE q # o
    <3>1. Wanted(q)
      BY <1>1, <1>3, <2>2 DEF Wanted
    <3>2. q \in queue \cup staleOps \/ worker.op = q
      BY <2>2, <3>1 DEF RequestsHeld, OnItsWay
    <3> QED BY <1>1, <3>2 DEF OnItsWay
  <2> QED BY <2>1, <2>2
<1> QED BY <1>2, <1>3 DEF RequestsHeld

(* A step that writes no BGDbOps and drops nothing. *)
LEMMA KeptHeld ==
  ASSUME RequestsHeld, announced \subseteq announced', dbops' = dbops,
         queue \subseteq queue', staleOps \subseteq staleOps' \cup queue',
         \/ rec'.pc = rec.pc /\ rec'.op = rec.op
         \/ /\ rec'.op = NoOp
            /\ \A o \in Op : rec.op = o => o \in queue' \cup announced'
  PROVE  RequestsHeld'
<1>1. rec'.pc = "idle" => rec'.op = NoOp
  BY DEF RequestsHeld
<1>2. ASSUME NEW o \in Op, Wanted(o)' PROVE OnItsWay(o)'
  <2>1. Wanted(o) /\ o \notin announced'
    BY <1>2 DEF Wanted
  <2> QED BY <2>1 DEF RequestsHeld, OnItsWay
<1> QED BY <1>1, <1>2 DEF RequestsHeld

LEMMA StepHeld ==
  Typed /\ CopiesCurrent /\ RequestsHeld /\ [HNext]_hvars => RequestsHeld'
<1> SUFFICES ASSUME Typed, CopiesCurrent, RequestsHeld, HNext PROVE RequestsHeld'
  BY DEF hvars, history, vars, serverVars, opVars, RequestsHeld, Wanted, OnItsWay
<1>0. /\ dbops \in [Op -> BGDbOps] /\ rec \in Worker /\ NoOp \notin Op
      /\ Idle.op = NoOp /\ announced \subseteq announced'
      /\ announced' = announced \cup ({cluster'.posted} \ {NoOp})
  BY OpAssumption DEF Typed, TypeOK, Idle, HNext, Record
<1>1. ASSUME NEW o \in Op, CreateOp(o) \/ DeleteOp(o) PROVE RequestsHeld'
  <2>1. \E obj \in {NewObject, NoObject} : WriteDbOps(o, obj, ctl, rec)
    BY <1>1 DEF CreateOp, DeleteOp
  <2>2. queue' = queue
    BY <1>1 DEF CreateOp, DeleteOp
  <2> QED BY <1>0, <2>1, <2>2, ConstantsTyped, WriteHeld
<1>2. ASSUME NEW o \in Op, Reconcile(o) PROVE RequestsHeld'
  <2>1. /\ rec.op = NoOp /\ queue' = queue \ {o} /\ staleOps' = staleOps
        /\ dbops' = dbops
    BY <1>2 DEF Reconcile, RequestsHeld, serverVars
  <2>2. CASE ~dbopsCache[o].exists \/ dbopsCache[o].completed
    <3>1. rec' = Idle
      BY <1>2, <2>2 DEF Reconcile
    <3>2. o \notin staleOps => ~Wanted(o)
      BY <2>2 DEF CopiesCurrent, CachesCurrent, Wanted
    <3> QED BY <1>0, <2>1, <3>1, <3>2 DEF RequestsHeld, Wanted, OnItsWay
  <2>3. CASE dbopsCache[o].exists /\ ~dbopsCache[o].completed
    <3>1. rec'.op = o /\ rec'.pc # "idle"
      BY <1>2, <2>3 DEF Reconcile, Reading
    <3> QED BY <1>0, <2>1, <3>1 DEF RequestsHeld, Wanted, OnItsWay
  <2> QED BY <2>2, <2>3
<1>3. CASE ClearCluster
  <2>1. dbops' = dbops /\ staleOps' = staleOps
    BY <1>3 DEF ClearCluster
  <2>2. \/ /\ WriteCluster(Cleared(rec.cluster), [rec EXCEPT !.pc = "complete"])
           /\ queue' = queue
        \/ WriteCluster(Cleared(rec.cluster), Idle) /\ Requeue
    BY <1>3 DEF ClearCluster
  <2>3. CASE WriteCluster(Cleared(rec.cluster), Idle) /\ Requeue
    <3>1. rec'.op = NoOp /\ queue' = queue \cup {rec.op}
      BY <1>0, <2>3 DEF WriteCluster, Idle, Requeue
    <3> QED BY <1>0, <2>1, <3>1, KeptHeld
  <2>4. CASE /\ WriteCluster(Cleared(rec.cluster), [rec EXCEPT !.pc = "complete"])
             /\ queue' = queue
    <3>1. rec'.op = rec.op /\ rec'.pc = "complete"
      BY <1>0, <2>4 DEF WriteCluster, Worker
    <3> QED BY <1>0, <2>1, <2>4, <3>1 DEF RequestsHeld, Wanted, OnItsWay
  <2> QED BY <2>2, <2>3, <2>4
<1>4. CASE CompleteOp
  <2>1. rec.op \in Op /\ rec.obj \in BGDbOps
    BY <1>0, <1>4 DEF CompleteOp, Typed, HasOp, Worker
  <2>2. Completed(rec.obj) \in BGDbOps /\ Completed(rec.obj).completed
    BY <2>1 DEF Completed, BGDbOps
  <2>3. WriteDbOps(rec.op, Completed(rec.obj), ctl, Idle) /\ queue \subseteq queue'
    BY <1>4 DEF CompleteOp, Requeue
  <2> HIDE DEF Completed
  <2> QED BY <1>0, <2>1, <2>2, <2>3, ConstantsTyped, WriteHeld
<1>5. CASE PostOp
  <2>1. /\ rec.op \in Op /\ dbops' = dbops /\ staleOps' = staleOps
        /\ queue \subseteq queue'
    BY <1>5 DEF PostOp, Requeue, Typed, HasOp
  <2>2. cluster'.posted = rec.op /\ rec'.op = NoOp
    BY <1>0, <1>5 DEF PostOp, WriteCluster, Idle, Worker, BGCluster
  <2> QED BY <1>0, <2>1, <2>2, KeptHeld
<1>6. CASE UpdateRefused
  <2>1. /\ dbops' = dbops /\ staleOps' = staleOps
        /\ queue' = queue \cup {rec.op} /\ rec' = Idle
    BY <1>6 DEF UpdateRefused, Requeue, serverVars
  <2> QED BY <1>0, <2>1, KeptHeld
<1>7. CASE RestartOperator
  BY <1>0, <1>7 DEF RestartOperator, Existing, Idle, RequestsHeld, Wanted, OnItsWay,
                    serverVars
<1>8. ASSUME NEW p \in Pod, MarkDbOps(p) PROVE RequestsHeld'
  <2> DEFINE o == ctl[p].snap.posted
             marked == [ctl[p].held EXCEPT !.marks = @ \cup {p}]
  <2>1. o \in Op /\ ctl[p].held \in BGDbOps
    BY <1>8 DEF MarkDbOps, Typed, HasOp, TypeOK, Controller
  <2>2. marked \in BGDbOps
    BY <2>1 DEF BGDbOps
  <2>3. \E controllers : WriteDbOps(o, marked, controllers, rec)
    BY <1>8 DEF MarkDbOps
  <2>4. queue' = queue
    BY <1>8 DEF MarkDbOps
  <2> HIDE DEF marked, o
  <2> QED BY <1>0, <2>1, <2>2, <2>3, <2>4, WriteHeld
<1>9. CASE /\ dbops' = dbops /\ queue \subseteq queue'
           /\ staleOps \subseteq staleOps' \cup queue'
           /\ rec'.pc = rec.pc /\ rec'.op = rec.op
  BY <1>0, <1>9, KeptHeld
<1>10. CASE OperatorStep
  <2>1. CASE SyncDbOps \/ SyncCluster \/ SyncPods
    BY <1>9, <2>1 DEF SyncDbOps, SyncCluster, SyncPods, serverVars
  <2> QED BY <1>2, <1>3, <1>4, <1>5, <1>6, <1>7, <1>10, <2>1 DEF OperatorStep, Panic
<1>11. CASE \E p \in Pod : ControllerStep(p) /\ ~MarkDbOps(p)
  BY <1>9, <1>11 DEF ControllerStep, StartController, FinishBoot, Refresh, CleanUp,
                     DeletePod, ReadDbOps, MarkRefused, HandlePlaceholder, Report,
                     OnlyPod, opVars
<1>12. CASE PlatformStep
  BY <1>9, <1>12 DEF PlatformStep, RemovePod, CreatePod, OnlyPod, opVars
<1>13. CASE Disturbance
  <2>1. CASE MarkInitialized
    BY <1>0, <1>9, <2>1 DEF MarkInitialized, WriteCluster, Worker
  <2>2. CASE TouchCluster
    BY <1>0, <1>9, <2>2 DEF TouchCluster, Worker, serverVars
  <2>3. CASE Resync \/ \E p \in Pod : EvictPod(p) \/ CrashController(p)
    BY <1>9, <2>3 DEF Resync, EvictPod, CrashController, OnlyPod, opVars, serverVars
  <2> QED BY <1>1, <1>7, <1>13, <2>1, <2>2, <2>3 DEF Disturbance, CrashOperator
<1> QED BY <1>8, <1>10, <1>11, <1>12, <1>13 DEF HNext, Next

(* Whatever else is asked for, fails, crashes or lags, a BGDbOps that is    *)
(* neither posted nor completed is never out of the operator's sight.       *)
THEOREM RequestsKept == HSpec => []NoRequestLost
<1>1. HInit => Init
  BY DEF HInit
<1>2. [HNext]_hvars => [Next]_vars
  BY DEF HNext, hvars
<1>3. RequestsHeld => NoRequestLost
  BY DEF RequestsHeld, Wanted, OnItsWay, NoRequestLost
<1> QED BY <1>1, <1>2, <1>3, InitTyped, StepTyped, InitCurrent, StepCurrent, InitHeld,
           StepHeld, PTL DEF HSpec
=============================================================================
