---------------------------- MODULE DbOpsProofs ----------------------------
(***************************************************************************)
(* Proofs about DbOps, for any operations, pods and fault budgets: its     *)
(* type invariant, the invariant that a copy held as current is current,   *)
(* and, over DbOpsHistory, that the protocol implements OpLedger.          *)
(***************************************************************************)
EXTENDS DbOpsHistory, TLAPS

(* Type correctness is inductive once the handlers that are about to write *)
(* are known to hold the name of an operation.                             *)
HasOp ==
  /\ rec.pc # "idle" => rec.op \in Op
  /\ \A p \in Pod : ctl[p].pc = "marking" => ctl[p].snap.posted \in Op

Typed == TypeOK /\ HasOp

LEMMA ConstantsTyped ==
  /\ NoObject \in BGDbOps
  /\ NewObject \in BGDbOps
  /\ NoPod \in PodObject
  /\ NewPod \in PodObject
  /\ NoPosting \in BGCluster
  /\ Down \in Controller
  /\ Idle \in Worker
BY DEF NoObject, NewObject, NoPod, NewPod, NoPosting, Down, Idle,
       BGDbOps, PodObject, BGCluster, Controller, ControllerPC, Worker

LEMMA ViewTyped == ASSUME NEW pod PROVE View(pod) \in {"none", "todo", "done"}
BY DEF View

LEMMA InitTyped == Init => Typed
<1> SUFFICES ASSUME Init PROVE Typed
  OBVIOUS
<1>1. cluster \in BGCluster /\ clusterCache \in BGCluster
  BY InitializedAssumption DEF Init, BGCluster
<1>2. dbops \in [Op -> BGDbOps] /\ dbopsCache \in [Op -> BGDbOps]
  BY ConstantsTyped DEF Init
<1>3. pods \in [Pod -> PodObject] /\ ctl \in [Pod -> Controller] /\ rec \in Worker
  BY ConstantsTyped DEF Init
<1>4. podCache \in [Pod -> {"none", "todo", "done"}]
  BY ViewTyped DEF Init
<1>5. /\ staleOps \subseteq Op /\ clusterStale \in BOOLEAN /\ queue \subseteq Op
      /\ left \in [FaultKind -> Nat]
  BY BudgetAssumption DEF Init
<1>6. HasOp
  BY DEF Init, HasOp, Idle, Down
<1> QED BY <1>1, <1>2, <1>3, <1>4, <1>5, <1>6 DEF Typed, TypeOK

LEMMA SpendTyped ==
  ASSUME NEW kind \in FaultKind, left \in [FaultKind -> Nat], Spend(kind)
  PROVE  left' \in [FaultKind -> Nat]
BY DEF Spend

LEMMA FaultKinds == /\ "apiError" \in FaultKind /\ "crash" \in FaultKind
                    /\ "touch" \in FaultKind /\ "delete" \in FaultKind
BY DEF FaultKind

(* What a write of a BGDbOps leaves in the variables it changes. *)
LEMMA WriteDbOpsTyped ==
  ASSUME NEW o \in Op, NEW obj \in BGDbOps, NEW controllers \in [Pod -> Controller],
         NEW worker \in Worker,
         dbops \in [Op -> BGDbOps], staleOps \subseteq Op,
         worker.pc # "idle" => worker.op \in Op,
         \A p \in Pod : controllers[p].pc = "marking" => controllers[p].snap.posted \in Op,
         WriteDbOps(o, obj, controllers, worker)
  PROVE  /\ dbops' \in [Op -> BGDbOps]
         /\ ctl' \in [Pod -> Controller]
         /\ rec' \in Worker
         /\ staleOps' \subseteq Op
         /\ HasOp'
<1>1. dbops' \in [Op -> BGDbOps] /\ staleOps' \subseteq Op
  BY DEF WriteDbOps
<1>2. rec' \in Worker /\ rec'.pc = worker.pc /\ rec'.op = worker.op
  BY DEF WriteDbOps, Worker
<1>3. CASE obj = dbops[o]
  BY <1>1, <1>2, <1>3 DEF WriteDbOps, HasOp
<1>4. CASE obj # dbops[o]
  <2>1. ctl' = [p \in Pod |-> IF controllers[p].snap.posted = o
                                THEN [controllers[p] EXCEPT !.fresh = FALSE]
                                ELSE controllers[p]]
    BY <1>4 DEF WriteDbOps
  <2>2. ASSUME NEW p \in Pod
        PROVE  ctl'[p] \in Controller /\ ctl'[p].pc = controllers[p].pc
                 /\ ctl'[p].snap = controllers[p].snap
    BY <2>1 DEF Controller
  <2> QED BY <1>1, <1>2, <2>1, <2>2 DEF HasOp
<1> QED BY <1>3, <1>4

LEMMA WriteClusterTyped ==
  ASSUME NEW annotations \in BGCluster, NEW worker \in Worker,
         clusterStale \in BOOLEAN, WriteCluster(annotations, worker)
  PROVE  /\ cluster' \in BGCluster
         /\ rec' \in Worker
         /\ clusterStale' \in BOOLEAN
         /\ rec'.pc = worker.pc /\ rec'.op = worker.op
BY DEF WriteCluster, Worker

LEMMA GotoTyped ==
  ASSUME NEW p \in Pod, NEW pc \in ControllerPC, pc # "marking", Typed, Goto(p, pc),
         rec' = rec
  PROVE  ctl' \in [Pod -> Controller] /\ HasOp'
<1>1. ctl' = [ctl EXCEPT ![p].pc = pc] /\ ctl \in [Pod -> Controller]
  BY DEF Goto, Typed, TypeOK
<1>2. \A q \in Pod : ctl'[q].pc = "marking" => ctl'[q].snap.posted \in Op
  BY <1>1 DEF Typed, HasOp, Controller
<1> QED BY <1>1, <1>2 DEF Controller, HasOp, Typed

LEMMA SetCompletedTyped ==
  ASSUME NEW p \in Pod, NEW value \in BOOLEAN, TypeOK, SetCompleted(p, value)
  PROVE  pods' \in [Pod -> PodObject]
BY DEF SetCompleted, TypeOK, PodObject

LEMMA StepTyped == Typed /\ [Next]_vars => Typed'
<1> SUFFICES ASSUME Typed, [Next]_vars PROVE Typed'
  OBVIOUS
<1> USE FaultKinds DEF Typed
<1>1. ASSUME NEW o \in Op, CreateOp(o) PROVE Typed'
  <2>1. /\ dbops' \in [Op -> BGDbOps] /\ ctl' \in [Pod -> Controller]
        /\ rec' \in Worker /\ staleOps' \subseteq Op /\ HasOp'
    BY <1>1, ConstantsTyped, WriteDbOpsTyped DEF CreateOp, TypeOK, HasOp
  <2> QED BY <1>1, <2>1 DEF CreateOp, TypeOK
<1>2. ASSUME NEW o \in Op, DeleteOp(o) PROVE Typed'
  <2>1. /\ dbops' \in [Op -> BGDbOps] /\ ctl' \in [Pod -> Controller]
        /\ rec' \in Worker /\ staleOps' \subseteq Op /\ HasOp'
    BY <1>2, ConstantsTyped, WriteDbOpsTyped DEF DeleteOp, TypeOK, HasOp
  <2> QED BY <1>2, <2>1, SpendTyped DEF DeleteOp, TypeOK
<1>3. CASE MarkInitialized
  <2>1. [clusterCache EXCEPT !.initialized = TRUE] \in BGCluster
    BY DEF TypeOK, BGCluster
  <2> QED BY <1>3, <2>1, WriteClusterTyped DEF MarkInitialized, TypeOK, HasOp
<1>4. CASE TouchCluster
  BY <1>4, SpendTyped DEF TouchCluster, TypeOK, HasOp, serverVars, Worker
<1>5. CASE SyncDbOps
  BY <1>5 DEF SyncDbOps, TypeOK, HasOp, serverVars
<1>6. CASE SyncCluster
  BY <1>6 DEF SyncCluster, TypeOK, HasOp, serverVars
<1>7. CASE SyncPods
  BY <1>7, ViewTyped DEF SyncPods, TypeOK, HasOp, serverVars
<1>8. CASE Resync
  BY <1>8 DEF Resync, TypeOK, HasOp, serverVars
<1>9. ASSUME NEW o \in Op, Reconcile(o) PROVE Typed'
  <2>1. Reading(o, IF AllCompleted THEN "clear" ELSE "post") \in Worker
    BY DEF Reading, Worker, TypeOK
  <2>2. rec' \in Worker /\ (rec'.pc # "idle" => rec'.op \in Op)
    BY <1>9, <2>1, ConstantsTyped DEF Reconcile, Idle, Reading
  <2> QED BY <1>9, <2>2 DEF Reconcile, TypeOK, HasOp, serverVars
<1>10. CASE ClearCluster
  <2>1. Cleared(rec.cluster) \in BGCluster
    BY DEF Cleared, TypeOK, BGCluster, Worker
  <2>2. [rec EXCEPT !.pc = "complete"] \in Worker /\ rec.op \in Op
    BY <1>10 DEF ClearCluster, TypeOK, Worker, HasOp
  <2>3. cluster' \in BGCluster /\ clusterStale' \in BOOLEAN /\ rec' \in Worker
          /\ (rec'.pc # "idle" => rec'.op \in Op)
    BY <1>10, <2>1, <2>2, ConstantsTyped, WriteClusterTyped
       DEF ClearCluster, TypeOK, Worker, Idle
  <2>4. queue' \subseteq Op /\ left' \in [FaultKind -> Nat]
    BY <1>10, <2>2, SpendTyped DEF ClearCluster, Requeue, TypeOK
  <2> QED BY <1>10, <2>3, <2>4 DEF ClearCluster, TypeOK, HasOp
<1>11. CASE CompleteOp
  <2>1. rec.op \in Op /\ Completed(rec.obj) \in BGDbOps
    BY <1>11 DEF CompleteOp, Completed, TypeOK, HasOp, Worker, BGDbOps
  <2>2. /\ dbops' \in [Op -> BGDbOps] /\ ctl' \in [Pod -> Controller]
        /\ rec' \in Worker /\ staleOps' \subseteq Op /\ HasOp'
    BY <1>11, <2>1, ConstantsTyped, WriteDbOpsTyped DEF CompleteOp, TypeOK, HasOp, Idle
  <2>3. queue' \subseteq Op /\ left' \in [FaultKind -> Nat]
    BY <1>11, <2>1, SpendTyped DEF CompleteOp, Requeue, TypeOK
  <2> QED BY <1>11, <2>2, <2>3 DEF CompleteOp, TypeOK
<1>12. CASE PostOp
  <2>1. rec.op \in Op /\ [rec.cluster EXCEPT !.posted = rec.op] \in BGCluster
    BY <1>12 DEF PostOp, TypeOK, HasOp, Worker, BGCluster
  <2>2. cluster' \in BGCluster /\ clusterStale' \in BOOLEAN /\ rec' \in Worker
          /\ rec'.pc = "idle"
    BY <1>12, <2>1, ConstantsTyped, WriteClusterTyped DEF PostOp, TypeOK, Idle
  <2>3. queue' \subseteq Op /\ left' \in [FaultKind -> Nat]
    BY <1>12, <2>1, SpendTyped DEF PostOp, Requeue, TypeOK
  <2> QED BY <1>12, <2>2, <2>3 DEF PostOp, TypeOK, HasOp
<1>13. CASE UpdateRefused
  <2>1. rec.op \in Op /\ left' \in [FaultKind -> Nat]
    BY <1>13, SpendTyped DEF UpdateRefused, TypeOK, HasOp
  <2> QED BY <1>13, <2>1, ConstantsTyped
          DEF UpdateRefused, Requeue, TypeOK, HasOp, serverVars, Idle
<1>14. ASSUME RestartOperator, left' \in [FaultKind -> Nat] PROVE Typed'
  BY <1>14, ConstantsTyped, ViewTyped
     DEF RestartOperator, Existing, TypeOK, HasOp, serverVars, Idle
<1>15. CASE Panic \/ CrashOperator
  BY <1>14, <1>15, SpendTyped DEF Panic, CrashOperator, TypeOK
<1>16. ASSUME NEW p \in Pod, StartController(p) PROVE Typed'
  <2>1. [Down EXCEPT !.pc = "booting", !.snap = cluster] \in Controller
    BY ConstantsTyped DEF Controller, ControllerPC, TypeOK
  <2>2. ctl' \in [Pod -> Controller] /\ HasOp'
    BY <1>16, <2>1 DEF StartController, OnlyPod, opVars, TypeOK, HasOp, Controller, Down
  <2> QED BY <1>16, <2>2 DEF StartController, OnlyPod, opVars, TypeOK
<1>24. ASSUME NEW p \in Pod, FinishBoot(p) PROVE Typed'
  <2>1. ctl' \in [Pod -> Controller] /\ HasOp'
    BY <1>24, GotoTyped DEF FinishBoot, ControllerPC, OnlyPod, opVars
  <2>2. pods' \in [Pod -> PodObject] /\ left' \in [FaultKind -> Nat]
    BY <1>24, SpendTyped, SetCompletedTyped DEF FinishBoot, TypeOK
  <2> QED BY <1>24, <2>1, <2>2 DEF FinishBoot, OnlyPod, opVars, TypeOK
<1>17. ASSUME NEW p \in Pod, Refresh(p) PROVE Typed'
  <2>1. ctl[p].snap \in BGCluster /\ Decoded(ctl[p].snap, cluster) \in BGCluster
    BY DEF TypeOK, Controller, Decoded, BGCluster
  <2>2. ctl' \in [Pod -> Controller] /\ ctl'[p].pc # "marking"
    BY <1>17, <2>1 DEF Refresh, Turn, TypeOK, Controller, ControllerPC
  <2>3. left' \in [FaultKind -> Nat]
    BY <1>17, SpendTyped DEF Refresh, TypeOK
  <2> QED BY <1>17, <2>2, <2>3 DEF Refresh, Turn, OnlyPod, opVars, TypeOK, HasOp
<1>18. ASSUME NEW p \in Pod, CleanUp(p) \/ Report(p) PROVE Typed'
  <2>1. ctl' \in [Pod -> Controller] /\ HasOp'
    BY <1>18, GotoTyped DEF CleanUp, Report, ControllerPC, OnlyPod, opVars
  <2>2. pods' \in [Pod -> PodObject] /\ left' \in [FaultKind -> Nat]
    BY <1>18, SpendTyped, SetCompletedTyped DEF CleanUp, Report, TypeOK
  <2> QED BY <1>18, <2>1, <2>2 DEF CleanUp, Report, OnlyPod, opVars, TypeOK
<1>25. ASSUME NEW p \in Pod, DeletePod(p) \/ HandlePlaceholder(p) PROVE Typed'
  <2>1. ctl' \in [Pod -> Controller] /\ HasOp'
    BY <1>25, GotoTyped DEF DeletePod, HandlePlaceholder, ControllerPC, OnlyPod, opVars
  <2>2. [pods EXCEPT ![p].phase = "terminating"] \in [Pod -> PodObject]
    BY DEF TypeOK, PodObject
  <2>3. pods' \in [Pod -> PodObject] /\ left' \in [FaultKind -> Nat]
    BY <1>25, <2>2, SpendTyped DEF DeletePod, HandlePlaceholder, TypeOK
  <2> QED BY <1>25, <2>1, <2>3 DEF DeletePod, HandlePlaceholder, OnlyPod, opVars, TypeOK
<1>19. ASSUME NEW p \in Pod, ReadDbOps(p) PROVE Typed'
  <2> DEFINE obj == dbops[ctl[p].snap.posted]
  <2>1. ctl[p].snap.posted \in Op /\ obj \in BGDbOps /\ rec' = rec
    BY <1>19, OpAssumption DEF ReadDbOps, TypeOK, OnlyPod, opVars
  <2>2. Goto(p, "loop") => ctl' \in [Pod -> Controller] /\ HasOp'
    BY <2>1, GotoTyped DEF ControllerPC
  <2>3. ctl' = [ctl EXCEPT ![p].held = obj, ![p].fresh = TRUE, ![p].pc = "marking"]
          => ctl' \in [Pod -> Controller] /\ HasOp'
    <3> SUFFICES ASSUME ctl' = [ctl EXCEPT ![p].held = obj, ![p].fresh = TRUE,
                                           ![p].pc = "marking"]
                 PROVE  ctl' \in [Pod -> Controller] /\ HasOp'
      OBVIOUS
    <3>1. ctl \in [Pod -> Controller]
      BY DEF TypeOK
    <3>2. ctl' = [ctl EXCEPT ![p] = [ctl[p] EXCEPT !.held = obj, !.fresh = TRUE,
                                                   !.pc = "marking"]]
      BY <3>1
    <3>3. [ctl[p] EXCEPT !.held = obj, !.fresh = TRUE, !.pc = "marking"] \in Controller
      BY <2>1, <3>1 DEF Controller, ControllerPC
    <3>4. ctl'[p].snap = ctl[p].snap
      BY <3>1, <3>2 DEF Controller
    <3> QED BY <2>1, <3>1, <3>2, <3>3, <3>4 DEF HasOp
  <2>4. ctl' \in [Pod -> Controller] /\ HasOp'
    BY <1>19, <2>2, <2>3 DEF ReadDbOps
  <2>5. left' \in [FaultKind -> Nat]
    BY <1>19, SpendTyped DEF ReadDbOps, TypeOK
  <2> QED BY <1>19, <2>4, <2>5 DEF ReadDbOps, OnlyPod, opVars, TypeOK
<1>20. ASSUME NEW p \in Pod, MarkDbOps(p) PROVE Typed'
  <2> DEFINE marked == [ctl[p].held EXCEPT !.marks = @ \cup {p}]
             after(pc) == [ctl EXCEPT ![p].pc = pc, ![p].held = NoObject,
                                      ![p].fresh = FALSE]
             o == ctl[p].snap.posted
  <2>1. o \in Op /\ marked \in BGDbOps
    BY <1>20 DEF MarkDbOps, TypeOK, HasOp, Controller, BGDbOps
  <2>2. ASSUME NEW pc \in {"reporting", "loop"}, WriteDbOps(o, marked, after(pc), rec)
        PROVE  /\ dbops' \in [Op -> BGDbOps] /\ ctl' \in [Pod -> Controller]
               /\ rec' \in Worker /\ staleOps' \subseteq Op /\ HasOp'
    <3>1. after(pc) \in [Pod -> Controller]
      BY ConstantsTyped DEF TypeOK, Controller, ControllerPC
    <3>2. \A q \in Pod : after(pc)[q].pc = "marking" => after(pc)[q].snap.posted \in Op
      BY DEF TypeOK, HasOp
    <3> HIDE DEF marked, after, o
    <3> QED BY <2>1, <2>2, <3>1, <3>2, WriteDbOpsTyped DEF TypeOK, HasOp
  <2>3. \E pc \in {"reporting", "loop"} : WriteDbOps(o, marked, after(pc), rec)
    BY <1>20 DEF MarkDbOps
  <2>4. left' \in [FaultKind -> Nat]
    BY <1>20, SpendTyped DEF MarkDbOps, TypeOK
  <2> HIDE DEF marked, after, o
  <2> QED BY <1>20, <2>2, <2>3, <2>4 DEF MarkDbOps, TypeOK
<1>21. ASSUME NEW p \in Pod, MarkRefused(p) PROVE Typed'
  <2>1. left' \in [FaultKind -> Nat]
    BY <1>21, SpendTyped DEF MarkRefused, TypeOK
  <2> QED BY <1>21, <2>1, ConstantsTyped
          DEF MarkRefused, OnlyPod, opVars, TypeOK, HasOp, Controller, ControllerPC
<1>22. ASSUME NEW p \in Pod,
              RemovePod(p) \/ CreatePod(p) \/ EvictPod(p) \/ CrashController(p)
       PROVE  Typed'
  <2>1. left' \in [FaultKind -> Nat] /\ pods' \in [Pod -> PodObject]
    BY <1>22, SpendTyped, ConstantsTyped
    DEF RemovePod, CreatePod, EvictPod, CrashController, TypeOK, PodObject
  <2>2. rec' = rec /\ (ctl' = ctl \/ ctl' = [ctl EXCEPT ![p] = Down])
    BY <1>22 DEF RemovePod, CreatePod, EvictPod, CrashController, OnlyPod, opVars
  <2>3. ctl' \in [Pod -> Controller] /\ HasOp'
    <3>1. CASE ctl' = ctl
      BY <2>2, <3>1 DEF TypeOK, HasOp
    <3>2. CASE ctl' = [ctl EXCEPT ![p] = Down]
      BY <2>2, <3>2, ConstantsTyped DEF TypeOK, HasOp, Down
    <3> QED BY <2>2, <3>1, <3>2
  <2> QED BY <1>22, <2>1, <2>3
          DEF RemovePod, CreatePod, EvictPod, CrashController, OnlyPod, opVars, TypeOK
<1>23. CASE UNCHANGED vars
  BY <1>23 DEF vars, serverVars, opVars, TypeOK, HasOp
<1> QED
  BY <1>1, <1>2, <1>3, <1>4, <1>5, <1>6, <1>7, <1>8, <1>9, <1>10, <1>11, <1>12,
     <1>13, <1>15, <1>16, <1>17, <1>18, <1>19, <1>20, <1>21, <1>22, <1>23, <1>24, <1>25
     DEF Next, OperatorStep, ControllerStep, PlatformStep, Disturbance

(* DbOps keeps every variable in its set, whatever the operations, pods and *)
(* faults: no handler writes under a name that is not an operation's.       *)
THEOREM TypeCorrect == Spec => []TypeOK
<1>1. Typed => TypeOK
  BY DEF Typed
<1> QED BY <1>1, InitTyped, StepTyped, PTL DEF Spec

-----------------------------------------------------------------------------
(***************************************************************************)
(* Optimistic concurrency.  Whoever holds a copy flagged as current holds  *)
(* what the server has; it is what makes an accepted update of a copy an   *)
(* update of the object.                                                   *)
(***************************************************************************)
WorkerCurrent ==
  /\ rec.opFresh => /\ rec.op \in Op
                    /\ rec.obj = dbops[rec.op]
                    /\ rec.obj.exists
  /\ rec.clusterFresh => rec.cluster = cluster

CachesCurrent ==
  /\ \A o \in Op \ staleOps : dbopsCache[o] = dbops[o]
  /\ ~clusterStale => clusterCache = cluster

CurrentIn(controllers) ==
  \A p \in Pod : controllers[p].fresh =>
    /\ controllers[p].pc = "marking"
    /\ controllers[p].held = dbops[controllers[p].snap.posted]
    /\ controllers[p].held.exists

CopiesCurrent == WorkerCurrent /\ CachesCurrent /\ CurrentIn(ctl)

LEMMA WriteDbOpsCurrent ==
  ASSUME NEW o \in Op, NEW obj \in BGDbOps, NEW controllers \in [Pod -> Controller],
         NEW worker \in Worker, TypeOK, CachesCurrent, CurrentIn(controllers),
         worker.opFresh => /\ worker.op \in Op
                           /\ worker.obj = dbops[worker.op]
                           /\ worker.obj.exists,
         worker.clusterFresh => worker.cluster = cluster,
         WriteDbOps(o, obj, controllers, worker),
         UNCHANGED <<cluster, dbopsCache, clusterCache, clusterStale>>
  PROVE  CopiesCurrent'
<1>1. dbops' = [dbops EXCEPT ![o] = obj] /\ dbops \in [Op -> BGDbOps]
  BY DEF WriteDbOps, TypeOK
<1>2. WorkerCurrent'
  BY <1>1 DEF WriteDbOps, WorkerCurrent, Worker
<1>3. CachesCurrent'
  BY <1>1 DEF WriteDbOps, CachesCurrent
<1>4. CASE obj = dbops[o]
  BY <1>1, <1>2, <1>3, <1>4 DEF WriteDbOps, CopiesCurrent, CurrentIn
<1>5. CASE obj # dbops[o]
  <2>1. ctl' = [p \in Pod |-> IF controllers[p].snap.posted = o
                                THEN [controllers[p] EXCEPT !.fresh = FALSE]
                                ELSE controllers[p]]
    BY <1>5 DEF WriteDbOps
  <2>2. ASSUME NEW p \in Pod, ctl'[p].fresh
        PROVE  ctl'[p] = controllers[p] /\ controllers[p].snap.posted # o
    BY <2>1, <2>2 DEF Controller
  <2>3. ASSUME NEW p \in Pod, ctl'[p].fresh
        PROVE  /\ ctl'[p].pc = "marking"
               /\ ctl'[p].held = dbops'[ctl'[p].snap.posted]
               /\ ctl'[p].held.exists
    BY <1>1, <2>2, <2>3 DEF CurrentIn
  <2> QED BY <1>2, <1>3, <2>3 DEF CopiesCurrent, CurrentIn
<1> QED BY <1>4, <1>5

LEMMA WriteClusterCurrent ==
  ASSUME NEW annotations \in BGCluster, NEW worker \in Worker, CopiesCurrent,
         worker.opFresh => /\ worker.op \in Op
                           /\ worker.obj = dbops[worker.op]
                           /\ worker.obj.exists,
         worker.clusterFresh => worker.cluster = cluster,
         WriteCluster(annotations, worker),
         UNCHANGED <<dbops, ctl, dbopsCache, clusterCache, staleOps>>
  PROVE  CopiesCurrent'
<1>1. WorkerCurrent' /\ CachesCurrent'
  BY DEF WriteCluster, CopiesCurrent, WorkerCurrent, CachesCurrent, Worker
<1> QED BY <1>1 DEF CopiesCurrent, CurrentIn

LEMMA InitCurrent == Init => CopiesCurrent
BY DEF Init, CopiesCurrent, WorkerCurrent, CachesCurrent, CurrentIn, Idle, Down

(* A controller step that writes no BGDbOps and keeps no copy of one. *)
LEMMA LocalCurrent ==
  ASSUME CopiesCurrent, NEW p \in Pod, NEW c, ctl \in [Pod -> Controller],
         ctl' = [ctl EXCEPT ![p] = c], ~c.fresh, dbops' = dbops, cluster' = cluster,
         UNCHANGED opVars
  PROVE  CopiesCurrent'
BY DEF CopiesCurrent, WorkerCurrent, CachesCurrent, CurrentIn, opVars

LEMMA GotoCurrent ==
  ASSUME TypeOK, CopiesCurrent, NEW p \in Pod, NEW pc, ctl[p].pc # "marking",
         Goto(p, pc), OnlyPod
  PROVE  CopiesCurrent'
<1>1. ctl \in [Pod -> Controller] /\ ~ctl[p].fresh
  BY DEF TypeOK, CopiesCurrent, CurrentIn
<1>2. ctl' = [ctl EXCEPT ![p] = [ctl[p] EXCEPT !.pc = pc]]
  BY DEF Goto
<1>3. ~[ctl[p] EXCEPT !.pc = pc].fresh
  BY <1>1 DEF Controller
<1> QED BY <1>1, <1>2, <1>3, LocalCurrent DEF OnlyPod

LEMMA StepCurrent == Typed /\ CopiesCurrent /\ [Next]_vars => CopiesCurrent'
<1> SUFFICES ASSUME Typed, CopiesCurrent, [Next]_vars PROVE CopiesCurrent'
  OBVIOUS
<1> USE DEF Typed
<1>1. ASSUME NEW o \in Op, CreateOp(o) \/ DeleteOp(o) PROVE CopiesCurrent'
  <2>1. CurrentIn(ctl) /\ ctl \in [Pod -> Controller] /\ rec \in Worker
    BY DEF CopiesCurrent, TypeOK
  <2> QED BY <1>1, <2>1, ConstantsTyped, WriteDbOpsCurrent
          DEF CreateOp, DeleteOp, CopiesCurrent, WorkerCurrent
<1>2. CASE MarkInitialized
  <2>1. [clusterCache EXCEPT !.initialized = TRUE] \in BGCluster /\ rec \in Worker
    BY DEF TypeOK, BGCluster
  <2> QED BY <1>2, <2>1, WriteClusterCurrent
          DEF MarkInitialized, CopiesCurrent, WorkerCurrent
<1>3. CASE TouchCluster
  BY <1>3 DEF TouchCluster, serverVars, TypeOK, Worker, CopiesCurrent, WorkerCurrent,
              CachesCurrent, CurrentIn
<1>4. CASE SyncDbOps \/ SyncCluster \/ SyncPods \/ Resync
  BY <1>4 DEF SyncDbOps, SyncCluster, SyncPods, Resync, serverVars, CopiesCurrent,
              WorkerCurrent, CachesCurrent, CurrentIn
<1>5. ASSUME NEW o \in Op, Reconcile(o) PROVE CopiesCurrent'
  <2>1. WorkerCurrent'
    BY <1>5 DEF Reconcile, Reading, Idle, serverVars, CopiesCurrent, CachesCurrent,
                WorkerCurrent
  <2> QED BY <1>5, <2>1 DEF Reconcile, serverVars, CopiesCurrent, CachesCurrent, CurrentIn
<1>6. CASE ClearCluster
  <2>1. Cleared(rec.cluster) \in BGCluster /\ [rec EXCEPT !.pc = "complete"] \in Worker
    BY DEF Cleared, TypeOK, BGCluster, Worker
  <2> QED BY <1>6, <2>1, ConstantsTyped, WriteClusterCurrent
          DEF ClearCluster, CopiesCurrent, WorkerCurrent, Idle, Worker, TypeOK
<1>7. CASE CompleteOp
  <2>1. rec.op \in Op /\ Completed(rec.obj) \in BGDbOps
    BY <1>7 DEF CompleteOp, HasOp, Completed, TypeOK, Worker, BGDbOps
  <2>2. CurrentIn(ctl) /\ ctl \in [Pod -> Controller]
    BY DEF CopiesCurrent, TypeOK
  <2> QED BY <1>7, <2>1, <2>2, ConstantsTyped, WriteDbOpsCurrent
          DEF CompleteOp, CopiesCurrent, Idle
<1>8. CASE PostOp
  <2>1. [rec.cluster EXCEPT !.posted = rec.op] \in BGCluster
    BY DEF TypeOK, Worker, BGCluster
  <2> QED BY <1>8, <2>1, ConstantsTyped, WriteClusterCurrent DEF PostOp, Idle
<1>9. CASE UpdateRefused
  BY <1>9 DEF UpdateRefused, serverVars, Idle, CopiesCurrent, WorkerCurrent,
              CachesCurrent, CurrentIn
<1>10. CASE Panic \/ CrashOperator
  BY <1>10 DEF Panic, CrashOperator, RestartOperator, serverVars, Idle, CopiesCurrent,
               WorkerCurrent, CachesCurrent, CurrentIn
<1>11. ASSUME NEW p \in Pod, StartController(p) PROVE CopiesCurrent'
  <2>1. ctl' = [ctl EXCEPT ![p] = [Down EXCEPT !.pc = "booting", !.snap = cluster]]
    BY <1>11 DEF StartController
  <2>2. ~[Down EXCEPT !.pc = "booting", !.snap = cluster].fresh
    BY DEF Down
  <2>3. ctl \in [Pod -> Controller] /\ dbops' = dbops /\ cluster' = cluster
          /\ UNCHANGED opVars
    BY <1>11 DEF StartController, OnlyPod, TypeOK
  <2> QED BY <2>1, <2>2, <2>3, LocalCurrent
<1>12. ASSUME NEW p \in Pod,
              \/ FinishBoot(p) \/ CleanUp(p) \/ DeletePod(p)
              \/ HandlePlaceholder(p) \/ Report(p)
       PROVE  CopiesCurrent'
  <2>1. ctl[p].pc # "marking" /\ OnlyPod /\ \E pc \in ControllerPC : Goto(p, pc)
    BY <1>12 DEF FinishBoot, CleanUp, DeletePod, HandlePlaceholder, Report, ControllerPC
  <2> QED BY <2>1, GotoCurrent
<1>13. ASSUME NEW p \in Pod, Refresh(p) PROVE CopiesCurrent'
  <2>1. ctl \in [Pod -> Controller] /\ ~ctl[p].fresh
    BY <1>13 DEF Refresh, TypeOK, CopiesCurrent, CurrentIn
  <2>2. ASSUME NEW snap, Turn(p, snap)
        PROVE  \E c : ctl' = [ctl EXCEPT ![p] = c] /\ ~c.fresh
    <3> DEFINE c == [ctl[p] EXCEPT !.snap = snap,
                                   !.pc = IF snap.posted # NoOp THEN "handling"
                                                                ELSE "cleaning"]
    <3>1. ctl' = [ctl EXCEPT ![p] = c]
      BY <2>1, <2>2 DEF Turn
    <3>2. ~c.fresh
      BY <2>1 DEF Controller
    <3> QED BY <3>1, <3>2
  <2>3. \E c : ctl' = [ctl EXCEPT ![p] = c] /\ ~c.fresh
    BY <1>13, <2>2 DEF Refresh
  <2>4. dbops' = dbops /\ cluster' = cluster /\ UNCHANGED opVars
    BY <1>13 DEF Refresh, OnlyPod
  <2> QED BY <2>1, <2>3, <2>4, LocalCurrent
<1>14. ASSUME NEW p \in Pod, ReadDbOps(p) PROVE CopiesCurrent'
  <2> DEFINE obj == dbops[ctl[p].snap.posted]
  <2>1. Goto(p, "loop") => CopiesCurrent'
    BY <1>14, GotoCurrent DEF ReadDbOps
  <2>2. ASSUME obj.exists,
               ctl' = [ctl EXCEPT ![p].held = obj, ![p].fresh = TRUE, ![p].pc = "marking"]
        PROVE  CopiesCurrent'
    <3>1. ctl \in [Pod -> Controller]
      BY DEF TypeOK
    <3>2. ctl'[p].snap = ctl[p].snap /\ ctl'[p].held = obj /\ ctl'[p].pc = "marking"
            /\ \A q \in Pod \ {p} : ctl'[q] = ctl[q]
      BY <2>2, <3>1 DEF Controller
    <3>3. dbops' = dbops /\ cluster' = cluster /\ UNCHANGED opVars
      BY <1>14 DEF ReadDbOps, OnlyPod
    <3>4. CurrentIn(ctl)'
      BY <2>2, <3>2, <3>3 DEF CopiesCurrent, CurrentIn
    <3> QED BY <3>3, <3>4 DEF CopiesCurrent, WorkerCurrent, CachesCurrent, opVars
  <2> QED BY <1>14, <2>1, <2>2 DEF ReadDbOps
<1>15. ASSUME NEW p \in Pod, MarkDbOps(p) PROVE CopiesCurrent'
  <2> DEFINE marked == [ctl[p].held EXCEPT !.marks = @ \cup {p}]
             after(pc) == [ctl EXCEPT ![p].pc = pc, ![p].held = NoObject,
                                      ![p].fresh = FALSE]
             o == ctl[p].snap.posted
  <2>1. o \in Op /\ marked \in BGDbOps
    BY <1>15 DEF MarkDbOps, TypeOK, HasOp, Controller, BGDbOps
  <2>2. ASSUME NEW pc \in {"reporting", "loop"}
        PROVE  after(pc) \in [Pod -> Controller] /\ CurrentIn(after(pc))
    <3>1. after(pc) \in [Pod -> Controller]
      BY ConstantsTyped DEF TypeOK, Controller, ControllerPC
    <3>2. ~after(pc)[p].fresh /\ \A q \in Pod \ {p} : after(pc)[q] = ctl[q]
      BY DEF TypeOK, Controller
    <3> QED BY <3>1, <3>2 DEF CopiesCurrent, CurrentIn
  <2>3. /\ \E pc \in {"reporting", "loop"} : WriteDbOps(o, marked, after(pc), rec)
        /\ UNCHANGED <<cluster, dbopsCache, clusterCache, clusterStale>>
    BY <1>15 DEF MarkDbOps
  <2> HIDE DEF marked, after, o
  <2> QED BY <2>1, <2>2, <2>3, WriteDbOpsCurrent DEF CopiesCurrent, WorkerCurrent, TypeOK
<1>16. ASSUME NEW p \in Pod, MarkRefused(p) PROVE CopiesCurrent'
  <2>1. ctl \in [Pod -> Controller] /\ dbops' = dbops /\ cluster' = cluster
          /\ UNCHANGED opVars
    BY <1>16 DEF MarkRefused, OnlyPod, TypeOK
  <2>2. ctl' = [ctl EXCEPT ![p] = [ctl[p] EXCEPT !.pc = "loop", !.held = NoObject,
                                                 !.fresh = FALSE]]
    BY <1>16, <2>1 DEF MarkRefused
  <2>3. ~[ctl[p] EXCEPT !.pc = "loop", !.held = NoObject, !.fresh = FALSE].fresh
    BY <2>1 DEF Controller
  <2> QED BY <2>1, <2>2, <2>3, LocalCurrent
<1>17. ASSUME NEW p \in Pod, RemovePod(p) \/ CrashController(p) PROVE CopiesCurrent'
  BY <1>17, LocalCurrent DEF RemovePod, CrashController, OnlyPod, TypeOK, Down
<1>18. ASSUME NEW p \in Pod, CreatePod(p) \/ EvictPod(p) PROVE CopiesCurrent'
  BY <1>18 DEF CreatePod, EvictPod, OnlyPod, opVars, CopiesCurrent, WorkerCurrent, CachesCurrent,
               CurrentIn
<1>19. CASE UNCHANGED vars
  BY <1>19 DEF vars, serverVars, opVars, CopiesCurrent, WorkerCurrent, CachesCurrent,
               CurrentIn
<1> QED
  BY <1>1, <1>2, <1>3, <1>4, <1>5, <1>6, <1>7, <1>8, <1>9, <1>10, <1>11, <1>12,
     <1>13, <1>14, <1>15, <1>16, <1>17, <1>18, <1>19
     DEF Next, OperatorStep, ControllerStep, PlatformStep, Disturbance

(* A copy whose resourceVersion is still the server's has the server's      *)
(* contents: in the operator's caches, in its worker, and in every pod.     *)
THEOREM CopiesStayCurrent == Spec => []CopiesCurrent
BY InitTyped, StepTyped, InitCurrent, StepCurrent, PTL DEF Spec

-----------------------------------------------------------------------------
(***************************************************************************)
(* Announcements.  A controller process acts on an operation that it read  *)
(* off the BGCluster, so one that was posted.                              *)
(***************************************************************************)
PostedAnnounced ==
  /\ cluster.posted \in announced \cup {NoOp}
  /\ \A p \in Pod : ctl[p].snap.posted \in announced \cup {NoOp}

LEMMA WriteDbOpsSnaps ==
  ASSUME NEW o, NEW obj, NEW controllers \in [Pod -> Controller], NEW worker,
         WriteDbOps(o, obj, controllers, worker), NEW p \in Pod
  PROVE  ctl'[p].snap = controllers[p].snap
BY DEF WriteDbOps, Controller

LEMMA SnapSources ==
  ASSUME Typed, [Next]_vars, NEW q \in Pod
  PROVE  ctl'[q].snap.posted \in {ctl[q].snap.posted, cluster.posted, NoOp}
<1> DEFINE Goal == ctl'[q].snap.posted \in {ctl[q].snap.posted, cluster.posted, NoOp}
<1>0. ctl \in [Pod -> Controller]
  BY DEF Typed, TypeOK
<1>1. CASE ctl' = ctl
  BY <1>1
<1>2. ASSUME NEW o \in Op, CreateOp(o) \/ DeleteOp(o) PROVE Goal
  BY <1>0, <1>2, WriteDbOpsSnaps DEF CreateOp, DeleteOp
<1>3. CASE CompleteOp
  BY <1>0, <1>3, WriteDbOpsSnaps DEF CompleteOp
<1>4. ASSUME NEW p \in Pod, NEW pc, Goto(p, pc) PROVE Goal
  BY <1>0, <1>4 DEF Goto, Controller
<1>5. ASSUME NEW p \in Pod, StartController(p) PROVE Goal
  BY <1>0, <1>5 DEF StartController, Down
<1>6. ASSUME NEW p \in Pod, Refresh(p) PROVE Goal
  <2>1. PICK snap \in {ctl[p].snap, Decoded(ctl[p].snap, cluster)} : Turn(p, snap)
    BY <1>6 DEF Refresh
  <2>2. snap.posted \in {ctl[p].snap.posted, cluster.posted, NoOp}
    BY <2>1 DEF Decoded
  <2>3. ctl'[q].snap \in {ctl[q].snap, snap} /\ (q # p => ctl'[q].snap = ctl[q].snap)
    BY <1>0, <2>1 DEF Turn, Controller
  <2> QED BY <2>2, <2>3
<1>7. ASSUME NEW p \in Pod, ReadDbOps(p) PROVE Goal
  BY <1>0, <1>4, <1>7 DEF ReadDbOps, Controller
<1>8. ASSUME NEW p \in Pod, MarkDbOps(p) PROVE Goal
  <2> DEFINE after(pc) == [ctl EXCEPT ![p].pc = pc, ![p].held = NoObject,
                                      ![p].fresh = FALSE]
  <2>1. ASSUME NEW pc \in {"reporting", "loop"}
        PROVE  after(pc) \in [Pod -> Controller] /\ after(pc)[q].snap = ctl[q].snap
    BY <1>0, ConstantsTyped DEF Controller, ControllerPC
  <2>2. \E pc \in {"reporting", "loop"}:
                \E o, obj : WriteDbOps(o, obj, after(pc), rec)
    BY <1>8 DEF MarkDbOps
  <2> HIDE DEF after
  <2> QED BY <2>1, <2>2, WriteDbOpsSnaps
<1>9. ASSUME NEW p \in Pod, MarkRefused(p) PROVE Goal
  BY <1>0, <1>9 DEF MarkRefused, Controller
<1>10. ASSUME NEW p \in Pod, RemovePod(p) \/ CrashController(p) PROVE Goal
  BY <1>0, <1>10 DEF RemovePod, CrashController, Down, NoPosting
<1>11. \/ ctl' = ctl
       \/ \E o \in Op : CreateOp(o) \/ DeleteOp(o)
       \/ CompleteOp
       \/ \E p \in Pod : \/ \E pc : Goto(p, pc)
                         \/ StartController(p) \/ Refresh(p) \/ ReadDbOps(p)
                         \/ MarkDbOps(p) \/ MarkRefused(p)
                         \/ RemovePod(p) \/ CrashController(p)
  <2>1. CASE OperatorStep
    BY <2>1 DEF OperatorStep, SyncDbOps, SyncCluster, SyncPods, Reconcile, ClearCluster,
                PostOp, UpdateRefused, Panic, RestartOperator, serverVars
  <2>2. CASE Disturbance
    BY <2>2 DEF Disturbance, MarkInitialized, TouchCluster, CrashOperator,
                RestartOperator, Resync, EvictPod, serverVars
  <2>3. CASE \E p \in Pod : ControllerStep(p)
    BY <2>3 DEF ControllerStep, FinishBoot, CleanUp, DeletePod, HandlePlaceholder, Report
  <2>4. CASE PlatformStep
    BY <2>4 DEF PlatformStep, CreatePod
  <2>5. CASE UNCHANGED vars
    BY <2>5 DEF vars
  <2> QED BY <2>1, <2>2, <2>3, <2>4, <2>5 DEF Next
<1> QED BY <1>1, <1>2, <1>3, <1>4, <1>5, <1>6, <1>7, <1>8, <1>9, <1>10, <1>11

LEMMA InitAnnounced == HInit => PostedAnnounced
BY DEF HInit, Init, PostedAnnounced, Down, NoPosting

LEMMA StepAnnounced ==
  Typed /\ PostedAnnounced /\ [HNext]_hvars => PostedAnnounced'
<1> SUFFICES ASSUME Typed, PostedAnnounced, [HNext]_hvars PROVE PostedAnnounced'
  OBVIOUS
<1>1. CASE HNext
  <2>1. [Next]_vars /\ announced' = announced \cup ({cluster'.posted} \ {NoOp})
    BY <1>1 DEF HNext, Record
  <2> QED BY <2>1, SnapSources DEF PostedAnnounced
<1>2. CASE UNCHANGED hvars
  BY <1>2 DEF hvars, history, vars, serverVars, PostedAnnounced
<1> QED BY <1>1, <1>2

(***************************************************************************)
(* Refinement.  Each step of DbOpsHistory is a step of OpLedger on the     *)
(* BGDbOps objects, the postings and the initialized annotation, or leaves *)
(* them alone.                                                             *)
(***************************************************************************)
LEMMA InitRefines == HInit => Ledger!Init
BY InitializedAssumption DEF HInit, Init, Ledger!Init, Ledger!Blank, NoObject

LEMMA QuietStep ==
  ASSUME PostedAnnounced, Record, dbops' = dbops, cluster' = cluster
  PROVE  UNCHANGED Ledger!lvars
BY DEF PostedAnnounced, Record, Ledger!lvars

LEMMA StepRefines ==
  Typed /\ CopiesCurrent /\ PostedAnnounced /\ [HNext]_hvars
    => [Ledger!Next]_(Ledger!lvars)
<1> SUFFICES ASSUME Typed, CopiesCurrent, PostedAnnounced, [HNext]_hvars
             PROVE  Ledger!Next \/ UNCHANGED Ledger!lvars
  OBVIOUS
<1>1. CASE UNCHANGED hvars
  BY <1>1 DEF hvars, history, vars, serverVars, Ledger!lvars
<1>2. ASSUME Next, Record, cluster' = cluster PROVE announced' = announced
  BY <1>2 DEF Record, PostedAnnounced
<1>3. ASSUME NEW o \in Op, CreateOp(o), Record, Next PROVE Ledger!Open(o)
  <2>1. cluster' = cluster /\ dbops' = [dbops EXCEPT ![o] = NewObject]
    BY <1>3 DEF CreateOp, WriteDbOps
  <2> QED BY <1>2, <1>3, <2>1
          DEF CreateOp, NewObject, NoObject, Ledger!Open, Ledger!Blank
<1>4. ASSUME NEW o \in Op, DeleteOp(o), Record, Next PROVE Ledger!Withdraw(o)
  <2>1. cluster' = cluster /\ dbops' = [dbops EXCEPT ![o] = NoObject]
    BY <1>4 DEF DeleteOp, WriteDbOps
  <2> QED BY <1>2, <1>4, <2>1 DEF DeleteOp, NoObject, Ledger!Withdraw, Ledger!Blank
<1>5. ASSUME MarkInitialized, Record PROVE Ledger!Initialize
  <2>1. clusterCache = cluster /\ cluster \in BGCluster
    BY <1>5 DEF MarkInitialized, CopiesCurrent, CachesCurrent, Typed, TypeOK
  <2>2. cluster' = [cluster EXCEPT !.initialized = TRUE] /\ dbops' = dbops
    BY <1>5, <2>1 DEF MarkInitialized, WriteCluster
  <2>3. cluster'.initialized = TRUE /\ cluster'.posted = cluster.posted
    BY <2>1, <2>2 DEF BGCluster
  <2> QED BY <1>5, <2>2, <2>3 DEF Record, PostedAnnounced, Ledger!Initialize
<1>6. ASSUME ClearCluster, Record PROVE UNCHANGED Ledger!lvars
  <2>1. rec.cluster = cluster /\ cluster \in BGCluster
    BY <1>6 DEF ClearCluster, CopiesCurrent, WorkerCurrent, Typed, TypeOK
  <2>2. cluster' = Cleared(cluster) /\ dbops' = dbops
    BY <1>6, <2>1 DEF ClearCluster, WriteCluster
  <2>3. cluster'.initialized = cluster.initialized /\ cluster'.posted = NoOp
    BY <2>1, <2>2 DEF Cleared, BGCluster
  <2> QED BY <1>6, <2>2, <2>3 DEF Record, Ledger!lvars
<1>7. ASSUME CompleteOp, Record, Next PROVE Ledger!Close(rec.op) /\ rec.op \in Op
  <2>1. rec.op \in Op /\ rec.obj = dbops[rec.op] /\ rec.obj.exists
    BY <1>7 DEF CompleteOp, CopiesCurrent, WorkerCurrent
  <2>2. cluster' = cluster /\ dbops' = [dbops EXCEPT ![rec.op] = Completed(rec.obj)]
    BY <1>7 DEF CompleteOp, WriteDbOps
  <2> QED BY <1>2, <1>7, <2>1, <2>2 DEF Completed, Ledger!Close
<1>8. ASSUME PostOp, Record PROVE Ledger!Announce(rec.op) /\ rec.op \in Op
  <2>1. rec.cluster = cluster /\ cluster \in BGCluster /\ rec.op \in Op
    BY <1>8 DEF PostOp, CopiesCurrent, WorkerCurrent, Typed, TypeOK, HasOp
  <2>2. cluster' = [cluster EXCEPT !.posted = rec.op] /\ dbops' = dbops
    BY <1>8, <2>1 DEF PostOp, WriteCluster
  <2>3. cluster'.initialized = cluster.initialized /\ cluster'.posted = rec.op
    BY <2>1, <2>2 DEF BGCluster
  <2> QED BY <1>8, <2>1, <2>2, <2>3, OpAssumption DEF Record, Ledger!Announce
<1>9. ASSUME NEW p \in Pod, MarkDbOps(p), Record, Next
      PROVE  \E o \in Op : Ledger!Sign(o, p)
  <2> DEFINE o == ctl[p].snap.posted
             marked == [ctl[p].held EXCEPT !.marks = @ \cup {p}]
  <2>1. o \in Op /\ ctl[p].held = dbops[o] /\ dbops[o].exists
    BY <1>9 DEF MarkDbOps, Typed, HasOp, CopiesCurrent, CurrentIn
  <2>2. o \in announced
    BY <2>1, OpAssumption DEF PostedAnnounced
  <2>3. cluster' = cluster /\ dbops' = [dbops EXCEPT ![o] = marked]
    BY <1>9 DEF MarkDbOps, WriteDbOps
  <2>4. dbops' = [dbops EXCEPT ![o].marks = @ \cup {p}]
    BY <2>1, <2>3
  <2>5. Ledger!Sign(o, p)
    BY <1>2, <1>9, <2>1, <2>2, <2>3, <2>4 DEF Ledger!Sign
  <2> QED BY <2>1, <2>5
<1>10. ASSUME Next, ~\E o \in Op : CreateOp(o) \/ DeleteOp(o), ~MarkInitialized,
              ~ClearCluster, ~CompleteOp, ~PostOp, ~\E p \in Pod : MarkDbOps(p)
       PROVE  dbops' = dbops /\ cluster' = cluster
  <2>1. CASE OperatorStep
    BY <1>10, <2>1 DEF OperatorStep, SyncDbOps, SyncCluster, SyncPods, Reconcile,
                       UpdateRefused, Panic, RestartOperator, serverVars
  <2>2. CASE Disturbance
    BY <1>10, <2>2 DEF Disturbance, TouchCluster, CrashOperator, RestartOperator,
                       EvictPod, CrashController, OnlyPod, Resync, serverVars
  <2>3. CASE \E p \in Pod : ControllerStep(p)
    BY <1>10, <2>3 DEF ControllerStep, StartController, FinishBoot, Refresh, CleanUp,
                       DeletePod, ReadDbOps, MarkRefused, HandlePlaceholder, Report,
                       OnlyPod
  <2>4. CASE PlatformStep
    BY <2>4 DEF PlatformStep, RemovePod, CreatePod, OnlyPod
  <2> QED BY <1>10, <2>1, <2>2, <2>3, <2>4 DEF Next
<1>11. CASE HNext
  <2>1. Next /\ Record
    BY <1>11 DEF HNext
  <2> QED BY <1>3, <1>4, <1>5, <1>6, <1>7, <1>8, <1>9, <1>10, <2>1, QuietStep
          DEF Ledger!Next
<1> QED BY <1>1, <1>11

(* The BGDbOps protocol implements OpLedger: whatever is stale, refused,    *)
(* crashed or lost on the way, no mark or completion is taken back, only    *)
(* posted operations are marked, and "initialized" stays.                   *)
THEOREM ImplementsLedger == HSpec => LedgerSpec
<1>1. HInit => Init
  BY DEF HInit
<1>2. [HNext]_hvars => [Next]_vars
  BY DEF HNext, hvars
<1> QED BY <1>1, <1>2, InitTyped, StepTyped, InitCurrent, StepCurrent, InitAnnounced,
           StepAnnounced, InitRefines, StepRefines, PTL
        DEF HSpec, LedgerSpec, Ledger!Spec
=============================================================================
