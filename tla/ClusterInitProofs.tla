-------------------------- MODULE ClusterInitProofs --------------------------
(***************************************************************************)
(* Proofs about ClusterInit, for any number of pods and any combination of *)
(* faults.                                                                 *)
(***************************************************************************)
EXTENDS ClusterInit, FiniteSetTheorems, TLAPS

LEMMA ConstantsTyped ==
  /\ Idle \in Reconciler /\ Idle.pc = "idle"
  /\ Down \in Process /\ Down.pc = "down" /\ ~Down.initialized
  /\ Instances \subseteq 0 .. MaxPods
BY InstancesAssumption DEF Idle, Reconciler, BGCluster, Down, Process

LEMMA FaultTyped == ASSUME NEW kind, Fault(kind) PROVE faults' \in Faults
BY DEF Fault

LEMMA ContinueTyped ==
  ASSUME faults \in Faults, NEW step \in Reconciler, Continue(step)
  PROVE  rec' \in Reconciler /\ faults' \in Faults
BY ConstantsTyped, FaultTyped DEF Continue

LEMMA InitTyped == Init => TypeOK
<1> SUFFICES ASSUME Init PROVE TypeOK
  OBVIOUS
<1>1. cluster \in BGCluster
  BY InstancesAssumption, ShardedAssumption DEF Init, BGCluster
<1>2. sts \in StatefulSet
  BY InstancesAssumption DEF Init, StatefulSet
<1>3. pods \in [Pod -> PodObject] /\ podCache \in [Pod -> PodObject]
  BY DEF Init, PodObject
<1>4. boot \in [Pod -> Process] /\ sqlRuns \in 0 .. 2
  BY ConstantsTyped DEF Init
<1> QED BY <1>1, <1>2, <1>3, <1>4, ConstantsTyped, FaultAssumption DEF Init, TypeOK

LEMMA ReconcileTyped == ASSUME TypeOK, ReconcileStep PROVE TypeOK'
<1> USE DEF TypeOK
<1>1. CASE Reconcile
  <2>1. rec' \in Reconciler
    BY <1>1, InstancesAssumption DEF Reconcile, Reconciler
  <2> QED BY <1>1, <2>1 DEF Reconcile, serverVars, cacheVars, podVars
<1>2. CASE CreateStatefulSet
  <2>1. rec.copy.instances \in 0 .. MaxPods /\ [rec EXCEPT !.pc = "status"] \in Reconciler
    BY DEF Reconciler, BGCluster
  <2>2. sts' \in StatefulSet /\ stsStale' \in BOOLEAN
    BY <1>2, <2>1 DEF CreateStatefulSet, WriteStatefulSet, Replicas, StatefulSet
  <2> QED BY <1>2, <2>1, <2>2, ContinueTyped DEF CreateStatefulSet, podVars
<1>3. CASE UpdateStatefulSet
  <2>1. /\ rec.copy.instances \in 0 .. MaxPods
        /\ [rec EXCEPT !.pc = "initialization", !.desired = stsCache.replicas] \in Reconciler
    BY DEF Reconciler, BGCluster, StatefulSet
  <2>2. sts' \in StatefulSet /\ stsStale' \in BOOLEAN
    BY <1>3, <2>1 DEF UpdateStatefulSet, WriteStatefulSet, Replicas, StatefulSet
  <2> QED BY <1>3, <2>1, <2>2, ContinueTyped DEF UpdateStatefulSet, podVars
<1>4. CASE MarkInitialized
  <2>1. cluster' \in BGCluster
    BY <1>4 DEF MarkInitialized, Reconciler, BGCluster
  <2>2. [rec EXCEPT !.pc = "status", !.copy = cluster'] \in Reconciler
    BY <2>1 DEF Reconciler
  <2> QED BY <1>4, <2>1, <2>2, ContinueTyped DEF MarkInitialized, podVars
<1>5. CASE LeaveInitialization
  <2>1. rec' \in Reconciler
    BY <1>5 DEF LeaveInitialization, Reconciler
  <2> QED BY <1>5, <2>1 DEF LeaveInitialization, serverVars, cacheVars, podVars
<1>6. CASE SetNodes
  <2>1. cluster' \in BGCluster
    BY <1>6 DEF SetNodes, BGCluster, Listed
  <2> QED BY <1>6, <2>1, ConstantsTyped, ContinueTyped DEF SetNodes, podVars
<1>7. CASE KeepNodes \/ PassFails
  BY <1>7, ConstantsTyped, FaultTyped DEF KeepNodes, PassFails, serverVars, cacheVars, podVars
<1> QED BY <1>1, <1>2, <1>3, <1>4, <1>5, <1>6, <1>7 DEF ReconcileStep

LEMMA PodTyped ==
  ASSUME TypeOK, NEW p \in Pod,
         PlatformStep(p) \/ BootStep(p) \/ Mishap(p)
  PROVE  TypeOK'
<1> USE DEF TypeOK
<1>0. \A pc \in {"down", "starting", "system", "user", "reporting", "loop"} :
        [boot EXCEPT ![p].pc = pc] \in [Pod -> Process]
  BY DEF Process
<1>1. CASE CreatePod(p)
  BY <1>1 DEF CreatePod, PodObject, podVars
<1>2. CASE RemovePod(p) \/ LosePod(p)
  BY <1>2, ConstantsTyped, FaultTyped DEF RemovePod, LosePod, PodGoes, StopProcess, PodObject
<1>3. CASE Elect(p) \/ FailOver(p)
  BY <1>3, FaultTyped DEF Elect, FailOver, Lead, serverVars, cacheVars
<1>4. CASE StartController(p)
  <2>1. boot' \in [Pod -> Process]
    BY <1>4 DEF StartController, Process, BGCluster
  <2> QED BY <1>4, <2>1 DEF StartController, OnlyPod, cacheVars
<1>5. CASE DatabaseReady(p)
  BY <1>0, <1>5 DEF DatabaseReady, Goto, OnlyPod, cacheVars
<1>6. CASE DatabaseTimesOut(p)
  BY <1>0, <1>6, FaultTyped DEF DatabaseTimesOut, Goto, OnlyPod, cacheVars
<1>7. CASE RunSystemCommands(p)
  BY <1>0, <1>7 DEF RunSystemCommands, Goto, OnlyPod, cacheVars
<1>8. CASE SystemCommandsFail(p) \/ CrashController(p)
  BY <1>8, ConstantsTyped, FaultTyped
  DEF SystemCommandsFail, CrashController, StopProcess, serverVars, cacheVars
<1>9. CASE RunUserCommands(p)
  <2>1. sqlRuns' \in 0 .. 2 /\ faults' \in Faults
    BY <1>9, FaultTyped DEF RunUserCommands
  <2> QED BY <1>0, <1>9, <2>1 DEF RunUserCommands, Goto, OnlyPod, cacheVars
<1>10. CASE ReportInitialized(p)
  <2>1. pods' \in [Pod -> PodObject] /\ faults' \in Faults
    BY <1>10, FaultTyped DEF ReportInitialized, PodObject
  <2> QED BY <1>0, <1>10, <2>1 DEF ReportInitialized, Goto, OnlyPod, cacheVars
<1> QED
  BY <1>1, <1>2, <1>3, <1>4, <1>5, <1>6, <1>7, <1>8, <1>9, <1>10
  DEF PlatformStep, BootStep, Mishap

LEMMA StepTyped == TypeOK /\ [Next]_vars => TypeOK'
<1> SUFFICES ASSUME TypeOK, [Next]_vars PROVE TypeOK'
  OBVIOUS
<1> USE DEF TypeOK
<1>1. CASE UNCHANGED vars
  BY <1>1 DEF vars, serverVars, cacheVars, podVars
<1>2. CASE SyncCluster \/ SyncStatefulSet \/ SyncPods
  BY <1>2 DEF SyncCluster, SyncStatefulSet, SyncPods, serverVars, podVars
<1>3. CASE ReconcileStep
  BY <1>3, ReconcileTyped
<1>4. ASSUME NEW p \in Pod,
             PlatformStep(p) \/ BootStep(p) \/ Mishap(p)
      PROVE  TypeOK'
  BY <1>4, PodTyped
<1>5. ASSUME NEW n \in Instances, Scale(n) PROVE TypeOK'
  <2>1. cluster' \in BGCluster /\ rec' \in Reconciler
    BY <1>5, ConstantsTyped DEF Scale, BGCluster, Reconciler
  <2> QED BY <1>5, <2>1, FaultTyped DEF Scale, podVars
<1>6. CASE CrashOperator
  BY <1>6, ConstantsTyped, FaultTyped DEF CrashOperator, serverVars, podVars
<1> QED BY <1>1, <1>2, <1>3, <1>4, <1>5, <1>6 DEF Next

(* Every variable stays in its set.                                          *)
THEOREM TypeCorrect == Spec => []TypeOK
BY InitTyped, StepTyped, PTL DEF Spec

-----------------------------------------------------------------------------
(***************************************************************************)
(* Why the bootstrap SQL is run once.  As long as no process dies, no      *)
(* statement fails, Patroni does not fail over and the user leaves the     *)
(* number of instances alone, the leader stays, no pod goes, and what the  *)
(* caches show of a pod was so and is so.  Pods are annotated by processes that are past the bootstrap,    *)
(* which only a leader lets them reach; and as many annotated pods as the  *)
(* StatefulSet has replicas are all of them, the leader's among them, if   *)
(* there is any.                                                           *)
(***************************************************************************)
Calm == /\ "crash" \notin faults /\ "sqlError" \notin faults
        /\ "edit" \notin faults /\ "failover" \notin faults

(* Every copy of the number of instances is the BGCluster's. *)
OneNumber ==
  /\ cluster.instances \in Instances
  /\ clusterCache.instances = cluster.instances
  /\ rec.pc # "idle" => rec.copy.instances = cluster.instances
  /\ rec.pc = "initialization" => rec.desired = cluster.instances
  /\ sts.exists => sts.replicas = cluster.instances
  /\ stsCache.exists => stsCache.replicas = cluster.instances

(* What is known of a pod. *)
PodsOrdered ==
  \A p \in Pod :
    /\ Running(p) => sts.exists /\ p < cluster.instances
    /\ podCache[p] # "absent" => Running(p)
    /\ podCache[p] = "initialized" => pods[p] = "initialized"
    /\ pods[p] = "initialized" => boot[p].pc = "loop"
    /\ boot[p].pc # "down" => Running(p)

Before == {"starting", "system", "user"}
After  == {"reporting", "loop"}

(* How far the leader is tells whether the SQL was run. *)
LeaderLeads ==
  /\ leader = NoPod => sqlRuns = 0 /\ \A p \in Pod : boot[p].pc \in {"down", "starting"}
  /\ leader # NoPod => \/ boot[leader].pc \in Before /\ sqlRuns = 0
                       \/ boot[leader].pc \in After /\ sqlRuns = 1
  /\ cluster.initialized => sqlRuns = IF cluster.instances = 0 THEN 0 ELSE 1
  /\ \A p \in Pod : boot[p].initialized => sqlRuns = 1

Inv == TypeOK /\ (Calm => OneNumber /\ PodsOrdered /\ LeaderLeads)

LEMMA InvImplies == Inv => BootstrappedOnce
BY DEF Inv, Calm, LeaderLeads, BootstrappedOnce

LEMMA InitInv == Init => Inv
<1> SUFFICES ASSUME Init PROVE Inv
  OBVIOUS
<1>1. OneNumber
  BY ConstantsTyped DEF Init, OneNumber
<1>2. PodsOrdered
  BY ConstantsTyped DEF Init, PodsOrdered, Running
<1>3. LeaderLeads
  BY ConstantsTyped DEF Init, LeaderLeads
<1> QED BY <1>1, <1>2, <1>3, InitTyped DEF Init, Inv

LEMMA FaultsGrow == ASSUME NEW kind, Fault(kind) PROVE faults \subseteq faults' /\ kind \in faults'
BY DEF Fault

LEMMA IntervalSize ==
  ASSUME NEW k \in Nat
  PROVE  IsFiniteSet(0 .. (k - 1)) /\ Cardinality(0 .. (k - 1)) = k
<1>1. 0 \in Int /\ k - 1 \in Int
  OBVIOUS
<1>2. /\ IsFiniteSet(0 .. (k - 1))
      /\ Cardinality(0 .. (k - 1)) = IF 0 > k - 1 THEN 0 ELSE (k - 1) - 0 + 1
  BY <1>1, FS_Interval
<1>3. (IF 0 > k - 1 THEN 0 ELSE (k - 1) - 0 + 1) = k
  OBVIOUS
<1> QED BY <1>2, <1>3

(* As many annotated pods as there are instances are all the pods.           *)
LEMMA AllAnnotated ==
  ASSUME TypeOK, PodsOrdered, AllInitialized, rec.desired = cluster.instances
  PROVE  /\ \A p \in Pod : Running(p) => pods[p] = "initialized"
         /\ cluster.instances # 0 => \E p \in Pod : Running(p)
<1> DEFINE n == cluster.instances
           All == 0 .. (n - 1)
<1>1. n \in Nat
  BY InstancesAssumption DEF TypeOK, BGCluster
<1>2. IsFiniteSet(All) /\ Cardinality(All) = n
  BY <1>1, IntervalSize
<1>3. \A p \in Pod : Running(p) => p \in All
  BY <1>1, InstancesAssumption DEF PodsOrdered, Pod
<1>4. InitializedPods \subseteq All
  BY <1>3 DEF InitializedPods, PodsOrdered
<1>5. InitializedPods = All
  BY <1>2, <1>4, FS_Subset DEF AllInitialized
<1>6. n # 0 => 0 \in All
  BY <1>1
<1> QED BY <1>3, <1>5, <1>6 DEF InitializedPods, PodsOrdered

Known == OneNumber /\ PodsOrdered /\ LeaderLeads

(* A cluster without instances has no pods, and no process. *)
LEMMA SomeInstances ==
  ASSUME TypeOK, PodsOrdered, NEW p \in Pod, Running(p) \/ boot[p].pc # "down"
  PROVE  cluster.instances # 0
<1>1. p < cluster.instances /\ p \in Nat
  BY InstancesAssumption DEF PodsOrdered, Pod
<1> QED BY <1>1

(* The steps of the operator. *)
LEMMA ReconcileKeeps ==
  ASSUME Inv, Known, TypeOK', ReconcileStep
  PROVE  Known'
<1>0. TypeOK
  BY DEF Inv
<1> USE DEF Known
<1>1. CASE Reconcile
  BY <1>0, <1>1 DEF Reconcile, OneNumber, PodsOrdered, Running, LeaderLeads,
                    serverVars, cacheVars, podVars
<1>2. CASE CreateStatefulSet
  <2>1. OneNumber'
    BY <1>0, <1>2, ConstantsTyped
    DEF CreateStatefulSet, WriteStatefulSet, Replicas, Continue, OneNumber, TypeOK, Reconciler
  <2> QED BY <1>2, <2>1 DEF CreateStatefulSet, podVars, PodsOrdered, Running, LeaderLeads
<1>3. CASE UpdateStatefulSet
  <2>1. sts'.replicas = cluster.instances /\ sts'.exists = sts.exists
    BY <1>0, <1>3 DEF UpdateStatefulSet, WriteStatefulSet, Replicas, OneNumber, TypeOK, StatefulSet
  <2>2. OneNumber'
    BY <1>0, <1>3, <2>1, ConstantsTyped
    DEF UpdateStatefulSet, Continue, OneNumber, TypeOK, Reconciler
  <2> QED BY <1>3, <2>1, <2>2 DEF UpdateStatefulSet, podVars, PodsOrdered, Running, LeaderLeads
<1>4. CASE MarkInitialized
  <2>1. cluster'.instances = cluster.instances /\ cluster' \in BGCluster
    BY <1>0, <1>4 DEF MarkInitialized, OneNumber, TypeOK, Reconciler, BGCluster
  <2>2. OneNumber'
    BY <1>0, <1>4, <2>1, ConstantsTyped DEF MarkInitialized, Continue, OneNumber, TypeOK, Reconciler
  <2>3. ASSUME cluster.instances = 0 PROVE sqlRuns = 0
    <3>1. \A p \in Pod : boot[p].pc = "down"
      BY <1>0, <2>3, SomeInstances
    <3> QED BY <1>0, <3>1 DEF LeaderLeads, TypeOK, Before, After
  <2>4. ASSUME cluster.instances # 0 PROVE sqlRuns = 1
    <3>1. /\ \A p \in Pod : Running(p) => pods[p] = "initialized"
          /\ \E p \in Pod : Running(p)
      BY <1>0, <1>4, <2>4, AllAnnotated DEF MarkInitialized, OneNumber
    <3>2. PICK p \in Pod : boot[p].pc = "loop"
      BY <3>1 DEF PodsOrdered
    <3>3. leader \in Pod /\ boot[leader].pc # "down"
      BY <1>0, <3>2 DEF LeaderLeads, TypeOK, Before, After
    <3>4. boot[leader].pc = "loop"
      BY <3>1, <3>3 DEF PodsOrdered
    <3> QED BY <3>3, <3>4, NoPodAssumption DEF LeaderLeads, Before
  <2>5. sqlRuns' = IF cluster'.instances = 0 THEN 0 ELSE 1
    BY <1>4, <2>1, <2>3, <2>4 DEF MarkInitialized, podVars
  <2>6. PodsOrdered'
    BY <1>4, <2>1 DEF MarkInitialized, podVars, PodsOrdered, Running
  <2>7. LeaderLeads'
    BY <1>4, <2>5 DEF MarkInitialized, podVars, LeaderLeads
  <2> QED BY <2>2, <2>6, <2>7
<1>5. CASE LeaveInitialization
  BY <1>0, <1>5 DEF LeaveInitialization, OneNumber, PodsOrdered, Running, LeaderLeads,
                    serverVars, cacheVars, podVars, TypeOK, Reconciler
<1>6. CASE SetNodes
  <2>1. cluster'.instances = cluster.instances /\ cluster'.initialized = cluster.initialized
    BY <1>0, <1>6 DEF SetNodes, TypeOK, BGCluster
  <2>2. OneNumber'
    BY <1>6, <2>1, ConstantsTyped DEF SetNodes, Continue, OneNumber
  <2> QED BY <1>6, <2>1, <2>2 DEF SetNodes, podVars, PodsOrdered, Running, LeaderLeads
<1>7. CASE KeepNodes \/ PassFails
  BY <1>7, ConstantsTyped
  DEF KeepNodes, PassFails, OneNumber, PodsOrdered, Running, LeaderLeads,
      serverVars, cacheVars, podVars
<1> QED BY <1>1, <1>2, <1>3, <1>4, <1>5, <1>6, <1>7 DEF ReconcileStep

(* The steps of a pod. *)
LEMMA PodKeeps ==
  ASSUME Inv, Known, TypeOK', Calm', NEW p \in Pod,
         PlatformStep(p) \/ BootStep(p) \/ Mishap(p)
  PROVE  Known'
<1>0. TypeOK
  BY DEF Inv
<1> USE DEF Known
<1>1. CASE CreatePod(p)
  <2>1. OneNumber' /\ LeaderLeads'
    BY <1>1 DEF CreatePod, podVars, OneNumber, LeaderLeads
  <2>2. PodsOrdered'
    BY <1>0, <1>1 DEF CreatePod, podVars, OneNumber, PodsOrdered, Running, TypeOK
  <2> QED BY <2>1, <2>2
<1>2. ASSUME RemovePod(p) PROVE FALSE
  <2>1. p >= sts.replicas /\ Running(p)
    BY <1>2 DEF RemovePod, PodGoes
  <2>2. sts.replicas = cluster.instances /\ p < cluster.instances
    BY <2>1 DEF OneNumber, PodsOrdered
  <2>3. p \in Int /\ cluster.instances \in Int
    BY <1>0, InstancesAssumption DEF Pod, TypeOK, BGCluster
  <2> QED BY <2>1, <2>2, <2>3
<1>3. CASE Elect(p)
  BY <1>0, <1>3, NoPodAssumption
  DEF Elect, Lead, serverVars, cacheVars, OneNumber, PodsOrdered, Running, LeaderLeads, Before, After
<1>4. CASE StartController(p)
  <2>1. OneNumber'
    BY <1>4 DEF StartController, OnlyPod, cacheVars, OneNumber
  <2>2. PodsOrdered'
    BY <1>0, <1>4 DEF StartController, OnlyPod, cacheVars, PodsOrdered, Running, TypeOK
  <2>3. cluster.instances # 0
    BY <1>0, <1>4, SomeInstances DEF StartController
  <2>4. LeaderLeads'
    BY <1>0, <1>4, <2>3 DEF StartController, OnlyPod, LeaderLeads, Before, After, TypeOK
  <2> QED BY <2>1, <2>2, <2>4
<1>5. CASE DatabaseReady(p)
  <2>1. OneNumber'
    BY <1>5 DEF DatabaseReady, OnlyPod, cacheVars, OneNumber
  <2>2. PodsOrdered'
    BY <1>0, <1>5 DEF DatabaseReady, Goto, OnlyPod, cacheVars, PodsOrdered, Running, TypeOK, Process
  <2>3. LeaderLeads'
    BY <1>0, <1>5 DEF DatabaseReady, AlreadyInitialized, Goto, OnlyPod, LeaderLeads, Before, After,
                      TypeOK, Process
  <2> QED BY <2>1, <2>2, <2>3
<1>6. CASE DatabaseTimesOut(p)
  <2>1. OneNumber'
    BY <1>6 DEF DatabaseTimesOut, OnlyPod, cacheVars, OneNumber
  <2>2. PodsOrdered'
    BY <1>0, <1>6 DEF DatabaseTimesOut, Goto, OnlyPod, cacheVars, PodsOrdered, Running, TypeOK, Process
  <2>3. LeaderLeads'
    BY <1>0, <1>6 DEF DatabaseTimesOut, Goto, OnlyPod, LeaderLeads, Before, After, TypeOK, Process
  <2> QED BY <2>1, <2>2, <2>3
<1>7. CASE RunSystemCommands(p)
  <2>1. OneNumber'
    BY <1>7 DEF RunSystemCommands, OnlyPod, cacheVars, OneNumber
  <2>2. PodsOrdered'
    BY <1>0, <1>7 DEF RunSystemCommands, Goto, OnlyPod, cacheVars, PodsOrdered, Running, TypeOK, Process
  <2>3. LeaderLeads'
    BY <1>0, <1>7 DEF RunSystemCommands, Goto, OnlyPod, LeaderLeads, Before, After, TypeOK, Process
  <2> QED BY <2>1, <2>2, <2>3
<1>8. CASE SystemCommandsFail(p)
  <2>1. /\ leader # p /\ UNCHANGED <<faults, leader, sqlRuns, serverVars, cacheVars, rec>>
        /\ boot' = [boot EXCEPT ![p] = Down]
    BY <1>8, FaultsGrow DEF SystemCommandsFail, StopProcess, Calm
  <2>2. OneNumber'
    BY <2>1 DEF OneNumber, serverVars, cacheVars
  <2>3. PodsOrdered'
    BY <1>0, <1>8, <2>1, ConstantsTyped
    DEF SystemCommandsFail, PodsOrdered, Running, serverVars, cacheVars, TypeOK
  <2>4. LeaderLeads'
    BY <1>0, <1>8, <2>1, ConstantsTyped DEF SystemCommandsFail, LeaderLeads, serverVars, TypeOK
  <2> QED BY <2>2, <2>3, <2>4
<1>9. CASE RunUserCommands(p)
  <2>1. OneNumber'
    BY <1>9 DEF RunUserCommands, OnlyPod, cacheVars, OneNumber
  <2>2. PodsOrdered'
    BY <1>0, <1>9 DEF RunUserCommands, Goto, OnlyPod, cacheVars, PodsOrdered, Running, TypeOK, Process
  <2>3. \/ leader = p /\ sqlRuns' = (IF sqlRuns = 0 THEN 1 ELSE 2)
        \/ leader # p /\ UNCHANGED sqlRuns
    BY <1>9, FaultsGrow DEF RunUserCommands, Calm
  <2>4. cluster.instances # 0
    BY <1>0, <1>9, SomeInstances DEF RunUserCommands
  <2>5. LeaderLeads'
    BY <1>0, <1>9, <2>3, <2>4
    DEF RunUserCommands, Goto, OnlyPod, LeaderLeads, Before, After, TypeOK, Process
  <2> QED BY <2>1, <2>2, <2>5
<1>10. CASE ReportInitialized(p)
  <2>1. OneNumber'
    BY <1>10 DEF ReportInitialized, OnlyPod, cacheVars, OneNumber
  <2>2. PodsOrdered'
    BY <1>0, <1>10 DEF ReportInitialized, Goto, OnlyPod, cacheVars, PodsOrdered, Running, TypeOK, Process
  <2>3. LeaderLeads'
    BY <1>0, <1>10 DEF ReportInitialized, Goto, OnlyPod, LeaderLeads, Before, After, TypeOK, Process
  <2> QED BY <2>1, <2>2, <2>3
<1>11. ASSUME LosePod(p) \/ FailOver(p) \/ CrashController(p) PROVE FALSE
  BY <1>11, FaultsGrow DEF LosePod, FailOver, CrashController, Calm
<1> QED
  BY <1>1, <1>2, <1>3, <1>4, <1>5, <1>6, <1>7, <1>8, <1>9, <1>10, <1>11
  DEF PlatformStep, BootStep, Mishap

LEMMA StepInv == Inv /\ [Next]_vars => Inv'
<1> SUFFICES ASSUME Inv, [Next]_vars PROVE Inv'
  OBVIOUS
<1>0. TypeOK /\ TypeOK'
  BY StepTyped DEF Inv
<1>1. CASE UNCHANGED vars
  BY <1>0, <1>1 DEF Inv, Calm, OneNumber, PodsOrdered, Running, LeaderLeads,
                    vars, serverVars, cacheVars, podVars
<1>2. CASE SyncCluster \/ SyncStatefulSet
  BY <1>0, <1>2 DEF Inv, Calm, OneNumber, PodsOrdered, Running, LeaderLeads,
                    SyncCluster, SyncStatefulSet, serverVars, podVars
<1>3. CASE SyncPods
  BY <1>0, <1>3 DEF Inv, Calm, OneNumber, PodsOrdered, Running, LeaderLeads,
                    SyncPods, serverVars, podVars
<1>4. CASE ReconcileStep
  <2>1. faults \subseteq faults'
    BY <1>4, FaultsGrow
    DEF ReconcileStep, Reconcile, CreateStatefulSet, UpdateStatefulSet, MarkInitialized,
        LeaveInitialization, SetNodes, KeepNodes, PassFails, Continue
  <2>2. Calm' => Calm
    BY <2>1 DEF Calm
  <2> QED BY <1>0, <1>4, <2>2, ReconcileKeeps DEF Inv, Known
<1>5. ASSUME NEW p \in Pod,
             PlatformStep(p) \/ BootStep(p) \/ Mishap(p)
      PROVE  Inv'
  <2>1. faults \subseteq faults'
    BY <1>5, FaultsGrow
    DEF PlatformStep, BootStep, Mishap, CreatePod, RemovePod, LosePod, Elect, FailOver,
        StartController, DatabaseReady, RunSystemCommands, SystemCommandsFail,
        RunUserCommands, ReportInitialized, DatabaseTimesOut, CrashController
  <2>2. Calm' => Calm
    BY <2>1 DEF Calm
  <2> QED BY <1>0, <1>5, <2>2, PodKeeps DEF Inv, Known
<1>6. ASSUME NEW n \in Instances, Scale(n) PROVE Inv'
  <2>1. ~Calm'
    BY <1>6, FaultsGrow DEF Scale, Calm
  <2> QED BY <1>0, <2>1 DEF Inv
<1>7. CASE CrashOperator
  <2>1. ~Calm'
    BY <1>7, FaultsGrow DEF CrashOperator, Calm
  <2> QED BY <1>0, <2>1 DEF Inv
<1> QED BY <1>1, <1>2, <1>3, <1>4, <1>5, <1>6, <1>7 DEF Next

(* Whatever the caches show, a cluster is marked as initialized only after   *)
(* its bootstrap SQL was run, which was run once; or has no instances to run *)
(* it.                                                                       *)
THEOREM BootstrapRunOnce == Spec => []BootstrappedOnce
BY InitInv, StepInv, InvImplies, PTL DEF Spec

-----------------------------------------------------------------------------
(***************************************************************************)
(* Optimistic concurrency.  What the worker still holds as current, and    *)
(* what the cache shows if it is up to date, is the BGCluster as it is; so *)
(* that an update that is not refused changes what it means to change.     *)
(***************************************************************************)
CopiesCurrent ==
  /\ rec.fresh => rec.copy = cluster
  /\ ~clusterStale => clusterCache = cluster

LEMMA InitCurrent == Init => CopiesCurrent
BY DEF Init, CopiesCurrent, Idle

LEMMA StepCurrent == TypeOK /\ CopiesCurrent /\ [Next]_vars => CopiesCurrent'
<1> SUFFICES ASSUME TypeOK, CopiesCurrent, [Next]_vars PROVE CopiesCurrent'
  OBVIOUS
<1>0. rec \in Reconciler /\ ~Idle.fresh
  BY DEF TypeOK, Idle
<1>1. ASSUME NEW step, Continue(step), UNCHANGED <<cluster, clusterCache, clusterStale>>,
             step.fresh => step.copy = cluster
      PROVE  CopiesCurrent'
  BY <1>0, <1>1 DEF Continue, CopiesCurrent
<1>2. ASSUME NEW pc, rec' = [rec EXCEPT !.pc = pc] \/ rec' = Idle \/ rec' = rec,
             UNCHANGED <<cluster, clusterCache, clusterStale>>
      PROVE  CopiesCurrent'
  BY <1>0, <1>2 DEF CopiesCurrent, Reconciler
<1>3. CASE ReconcileStep
  <2>1. CASE Reconcile
    BY <2>1 DEF Reconcile, CopiesCurrent, serverVars, cacheVars
  <2>2. CASE CreateStatefulSet
    BY <1>0, <1>1, <2>2 DEF CreateStatefulSet, CopiesCurrent, Reconciler
  <2>3. CASE UpdateStatefulSet
    BY <1>0, <1>1, <2>3 DEF UpdateStatefulSet, CopiesCurrent, Reconciler
  <2>4. CASE MarkInitialized
    BY <1>0, <2>4 DEF MarkInitialized, Continue, CopiesCurrent, Reconciler
  <2>5. CASE SetNodes
    BY <1>0, <2>5 DEF SetNodes, Continue, CopiesCurrent
  <2>6. CASE LeaveInitialization \/ KeepNodes \/ PassFails
    BY <1>2, <2>6 DEF LeaveInitialization, KeepNodes, PassFails, serverVars, cacheVars
  <2> QED BY <1>3, <2>1, <2>2, <2>3, <2>4, <2>5, <2>6 DEF ReconcileStep
<1>4. CASE SyncCluster
  BY <1>4 DEF SyncCluster, CopiesCurrent, serverVars
<1>5. CASE SyncStatefulSet \/ SyncPods
  BY <1>2, <1>5 DEF SyncStatefulSet, SyncPods, serverVars
<1>6. ASSUME NEW p \in Pod,
             PlatformStep(p) \/ BootStep(p) \/ Mishap(p)
      PROVE  CopiesCurrent'
  BY <1>2, <1>6
  DEF PlatformStep, BootStep, Mishap, CreatePod, RemovePod, LosePod, PodGoes, Elect,
      FailOver, Lead, StartController, DatabaseReady, RunSystemCommands,
      SystemCommandsFail, RunUserCommands, ReportInitialized, DatabaseTimesOut,
      CrashController, OnlyPod, serverVars, cacheVars
<1>7. ASSUME NEW n \in Instances, Scale(n) PROVE CopiesCurrent'
  BY <1>0, <1>7 DEF Scale, CopiesCurrent, Reconciler
<1>8. CASE CrashOperator
  BY <1>0, <1>8 DEF CrashOperator, CopiesCurrent, serverVars
<1>9. CASE UNCHANGED vars
  BY <1>2, <1>9 DEF vars, serverVars, cacheVars
<1> QED BY <1>3, <1>4, <1>5, <1>6, <1>7, <1>8, <1>9 DEF Next

LEMMA StepKeepsUpdates ==
  ASSUME TypeOK, CopiesCurrent, [Next]_vars
  PROVE  /\ cluster.initialized => cluster'.initialized
         /\ cluster'.instances # cluster.instances => "edit" \in faults' \ faults
<1>0. cluster \in BGCluster
  BY DEF TypeOK
<1>1. CASE MarkInitialized
  <2>1. cluster' = [cluster EXCEPT !.initialized = TRUE]
    BY <1>1 DEF MarkInitialized, CopyCurrent, CopiesCurrent
  <2> QED BY <1>0, <2>1 DEF BGCluster
<1>2. CASE SetNodes
  BY <1>0, <1>2 DEF SetNodes, BGCluster
<1>3. ASSUME NEW n \in Instances, Scale(n)
      PROVE  cluster'.initialized = cluster.initialized /\ "edit" \in faults' \ faults
  BY <1>0, <1>3 DEF Scale, Fault, BGCluster
<1>4. CASE ReconcileStep /\ ~MarkInitialized /\ ~SetNodes
  BY <1>4 DEF ReconcileStep, Reconcile, CreateStatefulSet, UpdateStatefulSet,
              LeaveInitialization, KeepNodes, PassFails, serverVars
<1>5. ASSUME NEW p \in Pod,
             PlatformStep(p) \/ BootStep(p) \/ Mishap(p)
      PROVE  cluster' = cluster
  BY <1>5
  DEF PlatformStep, BootStep, Mishap, CreatePod, RemovePod, LosePod, PodGoes, Elect,
      FailOver, Lead, StartController, DatabaseReady, RunSystemCommands,
      SystemCommandsFail, RunUserCommands, ReportInitialized, DatabaseTimesOut,
      CrashController, OnlyPod, serverVars
<1>6. CASE SyncCluster \/ SyncStatefulSet \/ SyncPods \/ CrashOperator \/ UNCHANGED vars
  BY <1>6 DEF SyncCluster, SyncStatefulSet, SyncPods, CrashOperator, vars, serverVars
<1> QED BY <1>1, <1>2, <1>3, <1>4, <1>5, <1>6 DEF Next

(* The operator's own updates of the BGCluster, from copies of any age,      *)
(* never take back a user's, nor the mark of an initialized cluster.         *)
THEOREM NoUpdateUndone == Spec => UpdatesKept
<1>1. TypeOK /\ CopiesCurrent /\ [Next]_vars
        => [/\ cluster.initialized => cluster'.initialized
            /\ cluster'.instances # cluster.instances => "edit" \in faults' \ faults]_vars
  BY StepKeepsUpdates
<1> QED BY <1>1, InitTyped, StepTyped, InitCurrent, StepCurrent, PTL DEF Spec, UpdatesKept
=============================================================================
