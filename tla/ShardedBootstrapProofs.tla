----------------------- MODULE ShardedBootstrapProofs -----------------------
(***************************************************************************)
(* Proofs about ShardedBootstrap, for any number of shards, any templates  *)
(* and any combination of faults.                                          *)
(***************************************************************************)
EXTENDS ShardedBootstrap, TLAPS

-----------------------------------------------------------------------------
(* Type correctness needs that the process which adds a worker is inside    *)
(* its list.                                                                *)
InsideList == boot.pc = "adding" => boot.next < boot.size

Typed == TypeOK /\ InsideList

LEMMA Bounds ==
  /\ MaxShards \in Nat
  /\ 0 \in 0 .. MaxShards
  /\ NoStatus \in NoStatus .. MaxShards
  /\ \A n \in 0 .. MaxShards : n \in NoStatus .. MaxShards
BY ShardsAssumption DEF NoStatus

LEMMA ConstantsTyped ==
  /\ AnyTemplate \in Template
  /\ NoCluster \in BGCluster
  /\ Idle \in Reconciler
  /\ Down \in Process
<1>1. AnyTemplate \in Template
  BY TemplateAssumption DEF AnyTemplate
<1>2. NoCluster \in BGCluster
  BY <1>1, Bounds DEF NoCluster, NewCluster, BGCluster
<1>3. [shards |-> 0, template |-> AnyTemplate, ready |-> NoStatus] \in BGShardedCluster
  BY <1>1, Bounds DEF BGShardedCluster
<1>4. Idle \in Reconciler
  BY <1>3, Bounds DEF Idle, Reconciler
<1>5. Down \in Process
  BY Bounds DEF Down, Process
<1> QED BY <1>1, <1>2, <1>4, <1>5

LEMMA NewClusterTyped == ASSUME NEW t \in Template PROVE NewCluster(t) \in BGCluster
BY ShardsAssumption DEF NewCluster, BGCluster

LEMMA ShardsTyped ==
  ASSUME NEW n \in 0 .. MaxShards PROVE Shards(n) \subseteq Worker
BY ShardsAssumption DEF Shards, Worker

LEMMA WriteClusterTyped ==
  ASSUME NEW c \in Cluster, NEW object \in BGCluster,
         clusters \in [Cluster -> BGCluster], stale \subseteq Cluster,
         WriteCluster(c, object)
  PROVE  clusters' \in [Cluster -> BGCluster] /\ stale' \subseteq Cluster
BY DEF WriteCluster

LEMMA InitTyped == Init => Typed
<1> SUFFICES ASSUME Init PROVE Typed
  OBVIOUS
<1>1. sharded \in BGShardedCluster
  BY ConstantsTyped, Bounds, ShardsAssumption DEF Init, BGShardedCluster
<1>2. clusters \in [Cluster -> BGCluster] /\ rec \in Reconciler /\ boot \in Process
  BY ConstantsTyped DEF Init
<1>3. InsideList
  BY DEF Init, Down, InsideList
<1> QED BY <1>1, <1>2, <1>3, FaultAssumption DEF Init, Typed, TypeOK

(* What a step of the reconciler leaves in rec and queued. *)
LEMMA ContinueTyped ==
  ASSUME NEW step \in Reconciler, queued \in BOOLEAN, faults \in Faults, Continue(step)
  PROVE  rec' \in Reconciler /\ queued' \in BOOLEAN /\ faults' \in Faults
BY ConstantsTyped DEF Continue, Abandon, Fault

LEMMA AtClusterTyped ==
  ASSUME TypeOK, AtCluster
  PROVE  CurrentCluster \in Cluster /\ AfterCluster \in Reconciler
<1>1. rec \in Reconciler /\ rec.asked.shards \in 0 .. MaxShards /\ MaxShards \in Nat
  BY ShardsAssumption DEF TypeOK, Reconciler, BGShardedCluster
<1>2. CASE rec.pc = "coordinator"
  BY <1>1, <1>2 DEF CurrentCluster, AfterCluster, Goto, Cluster, Reconciler
<1>3. CASE rec.pc = "worker" /\ rec.next < rec.asked.shards
  <2>1. rec.next \in Worker /\ rec.next + 1 \in 0 .. MaxShards
    BY <1>1, <1>3 DEF Worker, Shards, Reconciler
  <2> QED BY <1>1, <1>3, <2>1 DEF CurrentCluster, AfterCluster, Cluster, Reconciler
<1> QED BY <1>2, <1>3 DEF AtCluster

LEMMA CoordinatorTyped == Coordinator \in Cluster /\ \A w \in Worker : w \in Cluster
BY DEF Cluster

LEMMA StepTyped == Typed /\ [Next]_vars => Typed'
<1> SUFFICES ASSUME Typed, [Next]_vars PROVE Typed'
  OBVIOUS
<1> USE DEF Typed
<1>1. ASSUME NEW n \in ShardCounts, NEW t \in Template, Apply(n, t) PROVE Typed'
  <2>1. n \in 0 .. MaxShards
    BY ShardsAssumption
  <2>2. sharded' \in BGShardedCluster /\ rec' \in Reconciler
    BY <1>1, <2>1 DEF Apply, TypeOK, BGShardedCluster, Reconciler
  <2> QED BY <1>1, <2>2 DEF Apply, Fault, TypeOK, InsideList, podVars
<1>2. ASSUME NEW c \in Cluster, TouchCluster(c) PROVE Typed'
  BY <1>2 DEF TouchCluster, Fault, TypeOK, InsideList, serverVars, podVars
<1>3. ASSUME NEW c \in Cluster, MarkInitialized(c) PROVE Typed'
  <2>1. [cache[c] EXCEPT !.initialized = TRUE] \in BGCluster
    BY DEF TypeOK, BGCluster
  <2>2. clusters' \in [Cluster -> BGCluster] /\ stale' \subseteq Cluster
    BY <1>3, <2>1, WriteClusterTyped DEF MarkInitialized, TypeOK
  <2> QED BY <1>3, <2>2 DEF MarkInitialized, TypeOK, InsideList, podVars
<1>4. ASSUME NEW w \in Worker, ExtendWorker(w) PROVE Typed'
  BY <1>4 DEF ExtendWorker, TypeOK, InsideList, serverVars, cacheVars
<1>5. CASE SyncSharded
  BY <1>5 DEF SyncSharded, TypeOK, InsideList, serverVars, podVars
<1>6. ASSUME NEW c \in Cluster, SyncCluster(c) PROVE Typed'
  BY <1>6 DEF SyncCluster, TypeOK, InsideList, serverVars, podVars
<1>7. CASE Reconcile
  <2>1. rec' \in Reconciler
    BY <1>7, Bounds DEF Reconcile, TypeOK, Reconciler
  <2> QED BY <1>7, <2>1 DEF Reconcile, TypeOK, InsideList, serverVars, cacheVars, podVars
<1>8. CASE CreateCluster
  <2>1. CurrentCluster \in Cluster /\ AfterCluster \in Reconciler
    BY <1>8, AtClusterTyped DEF CreateCluster
  <2>2. NewCluster(rec.asked.template) \in BGCluster
    BY NewClusterTyped DEF TypeOK, Reconciler, BGShardedCluster
  <2>3. clusters' \in [Cluster -> BGCluster] /\ stale' \subseteq Cluster
    BY <1>8, <2>1, <2>2, WriteClusterTyped DEF CreateCluster, TypeOK
  <2>4. rec' \in Reconciler /\ queued' \in BOOLEAN /\ faults' \in Faults
    BY <1>8, <2>1, ContinueTyped DEF CreateCluster, TypeOK
  <2> QED BY <1>8, <2>3, <2>4 DEF CreateCluster, TypeOK, InsideList, podVars
<1>9. CASE UpdateCluster
  <2>1. CurrentCluster \in Cluster /\ AfterCluster \in Reconciler
    BY <1>9, AtClusterTyped DEF UpdateCluster
  <2>2. [cache[CurrentCluster] EXCEPT !.template = rec.asked.template] \in BGCluster
    BY <2>1 DEF TypeOK, Reconciler, BGShardedCluster, BGCluster
  <2>3. clusters' \in [Cluster -> BGCluster] /\ stale' \subseteq Cluster
    BY <1>9, <2>1, <2>2, WriteClusterTyped DEF UpdateCluster, TypeOK
  <2>4. rec' \in Reconciler /\ queued' \in BOOLEAN /\ faults' \in Faults
    BY <1>9, <2>1, ContinueTyped DEF UpdateCluster, TypeOK
  <2> QED BY <1>9, <2>3, <2>4 DEF UpdateCluster, TypeOK, InsideList, podVars
<1>10. CASE KeepCluster
  BY <1>10, AtClusterTyped
     DEF KeepCluster, TypeOK, InsideList, serverVars, cacheVars, podVars
<1>11. CASE SetWorkerList
  <2>1. [cache[Coordinator] EXCEPT !.list = rec.asked.shards] \in BGCluster
    BY CoordinatorTyped DEF TypeOK, Reconciler, BGShardedCluster, BGCluster
  <2>2. clusters' \in [Cluster -> BGCluster] /\ stale' \subseteq Cluster
    BY <1>11, <2>1, CoordinatorTyped, WriteClusterTyped DEF SetWorkerList, TypeOK
  <2>3. [rec EXCEPT !.pc = "worker", !.next = 0] \in Reconciler
    BY Bounds DEF TypeOK, Reconciler
  <2>4. rec' \in Reconciler /\ queued' \in BOOLEAN /\ faults' \in Faults
    BY <1>11, <2>3, ContinueTyped DEF SetWorkerList, TypeOK
  <2> QED BY <1>11, <2>2, <2>4 DEF SetWorkerList, TypeOK, InsideList, podVars
<1>12. CASE CopySignals
  <2>1. Goto("status") \in Reconciler
    BY DEF Goto, TypeOK, Reconciler
  <2>2. WorkersSeen \subseteq Worker
    BY CoordinatorTyped, ShardsTyped
       DEF WorkersSeen, TypeOK, BGCluster, Reconciler, BGShardedCluster
  <2>3. [cache[Coordinator] EXCEPT !.seen = WorkersSeen] \in BGCluster
    BY <2>2, CoordinatorTyped DEF TypeOK, BGCluster
  <2>4. clusters' \in [Cluster -> BGCluster] /\ stale' \subseteq Cluster
    BY <1>12, <2>3, CoordinatorTyped, WriteClusterTyped DEF CopySignals, TypeOK
  <2>5. rec' \in Reconciler /\ queued' \in BOOLEAN /\ faults' \in Faults
    BY <1>12, <2>1, ContinueTyped DEF CopySignals, TypeOK
  <2> QED BY <1>12, <2>4, <2>5 DEF CopySignals, TypeOK, InsideList, podVars
<1>13. CASE SetStatus
  <2>1. [sharded EXCEPT !.ready = rec.asked.shards] \in BGShardedCluster
    BY Bounds DEF TypeOK, Reconciler, BGShardedCluster, NoStatus
  <2>2. rec' \in Reconciler /\ queued' \in BOOLEAN /\ faults' \in Faults
    BY <1>13, ConstantsTyped, ContinueTyped DEF SetStatus, TypeOK
  <2> QED BY <1>13, <2>1, <2>2 DEF SetStatus, TypeOK, InsideList, podVars
<1>14. CASE StepRefused
  BY <1>14, ConstantsTyped
     DEF StepRefused, Abandon, Fault, TypeOK, InsideList, serverVars, cacheVars, podVars
<1>15. CASE CrashOperator
  BY <1>15, ConstantsTyped
     DEF CrashOperator, Fault, TypeOK, InsideList, serverVars, podVars
<1>16. CASE StartBoot
  <2>1. boot' \in Process /\ boot'.pc = "booting"
    BY <1>16, CoordinatorTyped, ConstantsTyped DEF StartBoot, TypeOK, BGCluster, Process
  <2> QED BY <1>16, <2>1
          DEF StartBoot, OnlyPod, TypeOK, InsideList, serverVars, cacheVars
<1>17. CASE SkipBoot
  <2>1. boot' \in Process /\ boot'.pc = "loop"
    BY <1>17 DEF SkipBoot, TypeOK, Process
  <2> QED BY <1>17, <2>1
          DEF SkipBoot, OnlyPod, TypeOK, InsideList, serverVars, cacheVars
<1>18. CASE RunSystemCommands
  <2>1. boot' \in Process /\ boot'.pc \in {"waiting", "down"} /\ faults' \in Faults
    BY <1>18, ConstantsTyped DEF RunSystemCommands, Fault, TypeOK, Process, Down
  <2> QED BY <1>18, <2>1
          DEF RunSystemCommands, OnlyPod, TypeOK, InsideList, serverVars, cacheVars
<1>19. Refreshed("adding") \in Process
  BY CoordinatorTyped DEF Refreshed, TypeOK, Process, BGCluster
<1>20. CASE AwaitWorker
  BY <1>19, <1>20 DEF AwaitWorker, MoreWorkers, Refreshed, OnlyPod, TypeOK, InsideList,
                      Process, serverVars, cacheVars
<1>21. CASE WaitTimesOut
  BY <1>19, <1>21 DEF WaitTimesOut, GivesUp, MoreWorkers, Refreshed, OnlyPod, TypeOK,
                      InsideList, Process, serverVars, cacheVars
<1>22. CASE AddWorker
  <2>1. boot.next \in Worker /\ boot.next + 1 \in 0 .. MaxShards
    BY <1>22, Bounds DEF AddWorker, InsideList, TypeOK, Process, Worker, Shards
  <2>2. boot' \in Process /\ boot'.pc = "waiting"
    BY <1>22, <2>1 DEF AddWorker, TypeOK, Process
  <2>3. nodes' \subseteq Worker /\ faults' \in Faults
    BY <1>22, <2>1 DEF AddWorker, Fault, TypeOK
  <2> QED BY <1>22, <2>2, <2>3
          DEF AddWorker, OnlyPod, TypeOK, InsideList, serverVars, cacheVars
<1>23. CASE FinishWorkers
  <2>1. boot' \in Process /\ boot'.pc = "reporting"
    BY <1>23 DEF FinishWorkers, TypeOK, Process
  <2> QED BY <1>23, <2>1
          DEF FinishWorkers, OnlyPod, TypeOK, InsideList, serverVars, cacheVars
<1>24. CASE ReportInitialized
  <2>1. boot' \in Process /\ boot'.pc = "loop" /\ reported' \in BOOLEAN /\ faults' \in Faults
    BY <1>24 DEF ReportInitialized, Fault, TypeOK, Process
  <2> QED BY <1>24, <2>1
          DEF ReportInitialized, OnlyPod, TypeOK, InsideList, serverVars, cacheVars
<1>25. CASE CrashController
  BY <1>25, ConstantsTyped DEF CrashController, Fault, Down, OnlyPod, TypeOK, InsideList,
                               serverVars, cacheVars
<1>26. CASE UNCHANGED vars
  BY <1>26 DEF vars, serverVars, cacheVars, podVars, TypeOK, InsideList
<1> QED BY <1>1, <1>2, <1>3, <1>4, <1>5, <1>6, <1>7, <1>8, <1>9, <1>10, <1>11, <1>12,
           <1>13, <1>14, <1>15, <1>16, <1>17, <1>18, <1>20, <1>21, <1>22, <1>23,
           <1>24, <1>25, <1>26
        DEF Next, OperatorStep, ReconcileStep, Sync, BootStep, Disturbance

(* Every variable stays in its set, whatever the number of shards: no step  *)
(* of the operator or of the coordinator's process leaves the list of       *)
(* workers it runs over (reconcile_bgcluster.go:36, bootstrap.go:206).      *)
THEOREM TypeCorrect == Spec => []TypeOK
<1>1. Init => Typed
  BY InitTyped
<1>2. Typed /\ [Next]_vars => Typed'
  BY StepTyped
<1>3. Typed => TypeOK
  BY DEF Typed
<1> QED BY <1>1, <1>2, <1>3, PTL DEF Spec

-----------------------------------------------------------------------------
(***************************************************************************)
(* What an accepted update rests on: a cached copy that is not stale is    *)
(* what the server has.  And what the objects say is true: a BGCluster     *)
(* that is not there says nothing, one that is initialized stays so and    *)
(* has its extension if it is a worker, and the coordinator's signals, and *)
(* the process's copy of them, name initialized workers only.              *)
(***************************************************************************)
CopiesCurrent == \A c \in Cluster : c \notin stale => cache[c] = clusters[c]

Blank(object) == ~object.initialized /\ object.seen = {}
AbsentBlank   == \A c \in Cluster : ~clusters[c].exists => Blank(clusters[c])
CacheTrue     == \A w \in Worker : cache[w].initialized => clusters[w].initialized
ReadyExtended == \A w \in Worker : clusters[w].initialized => w \in extended
SignalsTrue   == \A w \in clusters[Coordinator].seen : clusters[w].initialized
ProcessTrue   == \A w \in boot.seen : clusters[w].initialized

Inv == /\ Typed
       /\ CopiesCurrent
       /\ AbsentBlank
       /\ CacheTrue
       /\ ReadyExtended
       /\ SignalsTrue
       /\ ProcessTrue

LEMMA NotWorker == Coordinator \in Cluster /\ \A w \in Worker : w \in Cluster /\ w # Coordinator
BY CoordinatorAssumption DEF Cluster

(* An accepted update leaves no copy out of date unnoticed. *)
LEMMA WriteKeepsCurrent ==
  ASSUME NEW c \in Cluster, NEW object, clusters \in [Cluster -> BGCluster],
         CopiesCurrent, WriteCluster(c, object), cache' = cache
  PROVE  CopiesCurrent'
<1> SUFFICES ASSUME NEW d \in Cluster, d \notin stale' PROVE cache'[d] = clusters'[d]
  BY DEF CopiesCurrent
<1>1. clusters' = [clusters EXCEPT ![c] = object] /\ d \notin stale
  BY DEF WriteCluster
<1>2. CASE object = clusters[c]
  BY <1>1, <1>2 DEF CopiesCurrent
<1>3. CASE object # clusters[c]
  BY <1>1, <1>3 DEF CopiesCurrent, WriteCluster
<1> QED BY <1>2, <1>3

(* What a step makes of initialization, signals and extensions when it      *)
(* touches none of them.                                                    *)
SaysTheSame ==
  \A c \in Cluster : /\ clusters'[c].initialized = clusters[c].initialized
                     /\ clusters'[c].seen = clusters[c].seen

(* A write that leaves initialized and seen of the object as they are.      *)
LEMMA NeutralWrite ==
  ASSUME NEW c \in Cluster, NEW object, Inv, WriteCluster(c, object), object.exists,
         object.initialized = clusters[c].initialized, object.seen = clusters[c].seen,
         cache' = cache, extended' = extended, boot' = boot, Typed'
  PROVE  Inv' /\ SaysTheSame
<1>1. clusters \in [Cluster -> BGCluster] /\ clusters' = [clusters EXCEPT ![c] = object]
  BY DEF Inv, Typed, TypeOK, WriteCluster
<1>2. SaysTheSame
  BY <1>1 DEF SaysTheSame
<1>3. CopiesCurrent'
  BY <1>1, WriteKeepsCurrent DEF Inv
<1>4. AbsentBlank'
  BY <1>1 DEF Inv, AbsentBlank, Blank
<1>5. CacheTrue' /\ ReadyExtended'
  BY <1>2, NotWorker DEF Inv, CacheTrue, ReadyExtended, SaysTheSame
<1>6. clusters[Coordinator].seen \subseteq Worker /\ boot.seen \subseteq Worker
  BY NotWorker DEF Inv, Typed, TypeOK, BGCluster, Process
<1>7. SignalsTrue' /\ ProcessTrue'
  BY <1>2, <1>6, NotWorker DEF Inv, SignalsTrue, ProcessTrue, SaysTheSame
<1> QED BY <1>2, <1>3, <1>4, <1>5, <1>7 DEF Inv

(* A step that leaves the objects and their copies alone. *)
LEMMA QuietStep ==
  ASSUME Inv, Typed', clusters' = clusters, cache' = cache, stale' = stale,
         extended \subseteq extended',
         boot'.seen \subseteq boot.seen \cup clusters[Coordinator].seen
  PROVE  Inv' /\ SaysTheSame
<1>1. CopiesCurrent' /\ AbsentBlank' /\ SaysTheSame
  BY DEF Inv, CopiesCurrent, AbsentBlank, Blank, SaysTheSame
<1>2. CacheTrue' /\ ReadyExtended'
  BY DEF Inv, CacheTrue, ReadyExtended
<1>3. SignalsTrue' /\ ProcessTrue'
  BY DEF Inv, SignalsTrue, ProcessTrue
<1> QED BY <1>1, <1>2, <1>3 DEF Inv

Abstract == [Membership!Next]_(Membership!mvars)

(* What says the same of every object maps to a stuttering step. *)
LEMMA SameMapsToStutter ==
  ASSUME SaysTheSame, extended' = extended, nodes' = nodes
  PROVE  Abstract
<1>1. {w \in Worker : clusters'[w].initialized} = {w \in Worker : clusters[w].initialized}
  BY NotWorker DEF SaysTheSame
<1>2. /\ clusters'[Coordinator].seen = clusters[Coordinator].seen
      /\ clusters'[Coordinator].initialized = clusters[Coordinator].initialized
  BY NotWorker DEF SaysTheSame
<1> QED BY <1>1, <1>2 DEF Abstract, Membership!mvars

-----------------------------------------------------------------------------
(* The informers and the restart of the operator only bring copies up to    *)
(* date, so a cached BGCluster is initialized only if it is so.             *)
LEMMA CachesCatchUp ==
  ASSUME Inv, Typed', clusters' = clusters, extended' = extended, boot' = boot, nodes' = nodes,
         \A c \in Cluster : \/ cache'[c] = clusters[c]
                            \/ cache'[c] = cache[c] /\ (c \in stale => c \in stale')
  PROVE  Inv' /\ Abstract
<1>1. CopiesCurrent' /\ AbsentBlank' /\ SaysTheSame
  BY DEF Inv, CopiesCurrent, AbsentBlank, Blank, SaysTheSame
<1>2. CacheTrue' /\ ReadyExtended'
  BY NotWorker DEF Inv, CacheTrue, ReadyExtended
<1>3. SignalsTrue' /\ ProcessTrue'
  BY DEF Inv, SignalsTrue, ProcessTrue
<1> QED BY <1>1, <1>2, <1>3, SameMapsToStutter DEF Inv

LEMMA InformersStep ==
  ASSUME Inv, Typed', Sync \/ CrashOperator
  PROVE  Inv' /\ Abstract
<1>1. CASE SyncSharded
  BY <1>1, CachesCatchUp DEF SyncSharded, serverVars, podVars
<1>2. ASSUME NEW c \in Cluster, SyncCluster(c) PROVE Inv' /\ Abstract
  <2>1. cache \in [Cluster -> BGCluster]
    BY DEF Inv, Typed, TypeOK
  <2> QED BY <1>2, <2>1, CachesCatchUp DEF SyncCluster, serverVars, podVars
<1>3. CASE CrashOperator
  BY <1>3, CachesCatchUp DEF CrashOperator, serverVars, podVars
<1> QED BY <1>1, <1>2, <1>3 DEF Sync

(* The edits of users and of other reconcilers say nothing of membership.   *)
LEMMA EditStep ==
  ASSUME Inv, Typed', (\E n \in ShardCounts, t \in Template : Apply(n, t))
                      \/ (\E c \in Cluster : TouchCluster(c))
  PROVE  Inv' /\ Abstract
<1>1. ASSUME NEW n \in ShardCounts, NEW t \in Template, Apply(n, t) PROVE Inv' /\ Abstract
  BY <1>1, QuietStep, SameMapsToStutter DEF Apply, podVars
<1>2. ASSUME NEW c \in Cluster, TouchCluster(c) PROVE Inv' /\ Abstract
  <2>1. \A d \in Cluster : d \in stale => d \in stale'
    BY <1>2 DEF TouchCluster
  <2> QED BY <1>2, <2>1, CachesCatchUp DEF TouchCluster, serverVars, podVars
<1> QED BY <1>1, <1>2

-----------------------------------------------------------------------------
(* The reconciler's writes.  Of a BGCluster that is there, the accepted     *)
(* update starts from what the server has.                                  *)
LEMMA ClusterStep ==
  ASSUME Inv, Typed', CreateCluster \/ UpdateCluster \/ SetWorkerList
  PROVE  Inv' /\ Abstract
<1> DEFINE c == CurrentCluster
<1>1. ASSUME AtCluster PROVE c \in Cluster
  BY <1>1, AtClusterTyped DEF Inv, Typed, TypeOK
<1>2. clusters \in [Cluster -> BGCluster] /\ cache \in [Cluster -> BGCluster]
  BY DEF Inv, Typed, TypeOK
<1>3. CASE CreateCluster
  <2> DEFINE object == NewCluster(rec.asked.template)
  <2>1. c \in Cluster /\ ~clusters[c].exists /\ WriteCluster(c, object)
    BY <1>1, <1>3 DEF CreateCluster
  <2>2. /\ object.exists /\ object.initialized = clusters[c].initialized
        /\ object.seen = clusters[c].seen
    BY <1>2, <2>1 DEF NewCluster, Inv, AbsentBlank, Blank, BGCluster
  <2>3. cache' = cache /\ extended' = extended /\ boot' = boot /\ nodes' = nodes
    BY <1>3 DEF CreateCluster, podVars
  <2> QED BY <2>1, <2>2, <2>3, NeutralWrite, SameMapsToStutter
<1>4. CASE UpdateCluster
  <2> DEFINE object == [cache[c] EXCEPT !.template = rec.asked.template]
  <2>1. c \in Cluster /\ cache[c].exists /\ c \notin stale /\ WriteCluster(c, object)
    BY <1>1, <1>4 DEF UpdateCluster
  <2>2. cache[c] = clusters[c]
    BY <2>1 DEF Inv, CopiesCurrent
  <2>3. /\ object.exists /\ object.initialized = clusters[c].initialized
        /\ object.seen = clusters[c].seen
    BY <1>2, <2>1, <2>2 DEF BGCluster
  <2>4. cache' = cache /\ extended' = extended /\ boot' = boot /\ nodes' = nodes
    BY <1>4 DEF UpdateCluster, podVars
  <2> QED BY <2>1, <2>3, <2>4, NeutralWrite, SameMapsToStutter
<1>5. CASE SetWorkerList
  <2> DEFINE object == [cache[Coordinator] EXCEPT !.list = rec.asked.shards]
  <2>1. /\ Coordinator \in Cluster /\ cache[Coordinator].exists
        /\ Coordinator \notin stale /\ WriteCluster(Coordinator, object)
    BY <1>5, NotWorker DEF SetWorkerList, ListAccepted
  <2>2. cache[Coordinator] = clusters[Coordinator]
    BY <2>1 DEF Inv, CopiesCurrent
  <2>3. /\ object.exists /\ object.initialized = clusters[Coordinator].initialized
        /\ object.seen = clusters[Coordinator].seen
    BY <1>2, <2>1, <2>2 DEF BGCluster
  <2>4. cache' = cache /\ extended' = extended /\ boot' = boot /\ nodes' = nodes
    BY <1>5 DEF SetWorkerList, podVars
  <2> QED BY <2>1, <2>3, <2>4, NeutralWrite, SameMapsToStutter
<1> QED BY <1>3, <1>4, <1>5

(* The steps of the reconciler that write no BGCluster. *)
LEMMA OtherReconcileStep ==
  ASSUME Inv, Typed', Reconcile \/ KeepCluster \/ SetStatus \/ StepRefused
  PROVE  Inv' /\ Abstract
<1>1. /\ clusters' = clusters /\ cache' = cache /\ stale' = stale
      /\ extended' = extended /\ nodes' = nodes /\ boot' = boot
  BY DEF Reconcile, KeepCluster, SetStatus, StepRefused, serverVars, cacheVars, podVars
<1> QED BY <1>1, QuietStep, SameMapsToStutter

(* A worker that the reconciler signals is initialized in the cache, so it  *)
(* is initialized.                                                          *)
LEMMA SignalStep ==
  ASSUME Inv, Typed', CopySignals
  PROVE  Inv' /\ Abstract
<1>1. /\ cache' = cache /\ extended' = extended /\ nodes' = nodes /\ boot' = boot
  BY DEF CopySignals, podVars
<1>2. CASE clusters' = clusters /\ stale' = stale
  BY <1>1, <1>2, QuietStep, SameMapsToStutter
<1>3. CASE /\ Coordinator \notin stale /\ cache[Coordinator].exists
           /\ WriteCluster(Coordinator, [cache[Coordinator] EXCEPT !.seen = WorkersSeen])
  <2> DEFINE new == WorkersSeen \ cache[Coordinator].seen
  <2>1. /\ clusters \in [Cluster -> BGCluster] /\ boot.seen \subseteq Worker
        /\ clusters[Coordinator].seen \subseteq Worker
    BY NotWorker DEF Inv, Typed, TypeOK, BGCluster, Process
  <2>2. cache[Coordinator] = clusters[Coordinator]
    BY <1>3, NotWorker DEF Inv, CopiesCurrent
  <2>3. clusters' = [clusters EXCEPT ![Coordinator] =
                       [clusters[Coordinator] EXCEPT !.seen = WorkersSeen]]
    BY <1>3, <2>2 DEF WriteCluster
  <2>4. \A w \in Worker : clusters'[w] = clusters[w]
    BY <2>1, <2>3, NotWorker
  <2>5. clusters'[Coordinator] = [clusters[Coordinator] EXCEPT !.seen = WorkersSeen]
    BY <2>1, <2>3, NotWorker
  <2>6. /\ clusters'[Coordinator].seen = WorkersSeen
        /\ clusters'[Coordinator].initialized = clusters[Coordinator].initialized
        /\ clusters'[Coordinator].exists = clusters[Coordinator].exists
    BY <2>1, <2>5, NotWorker DEF BGCluster
  <2>7. \A w \in WorkersSeen : w \in Worker /\ clusters[w].initialized
    <3>1. Shards(rec.asked.shards) \subseteq Worker
      BY ShardsTyped DEF Inv, Typed, TypeOK, Reconciler, BGShardedCluster
    <3> QED BY <2>1, <2>2, <3>1 DEF WorkersSeen, Inv, SignalsTrue, CacheTrue
  <2>8. CopiesCurrent'
    BY <1>1, <1>3, <2>1, NotWorker, WriteKeepsCurrent DEF Inv
  <2>9. AbsentBlank'
    <3>1. clusters[Coordinator].exists
      BY <1>3, <2>2
    <3> QED BY <2>4, <2>6, <3>1 DEF Inv, AbsentBlank, Blank, Cluster
  <2>10. CacheTrue' /\ ReadyExtended'
    BY <1>1, <2>4 DEF Inv, CacheTrue, ReadyExtended
  <2>11. SignalsTrue' /\ ProcessTrue'
    BY <1>1, <2>1, <2>4, <2>6, <2>7 DEF Inv, SignalsTrue, ProcessTrue
  <2>12. Abstract
    <3>1. {w \in Worker : clusters'[w].initialized} = {w \in Worker : clusters[w].initialized}
      BY <2>4
    <3>2. WorkersSeen = clusters[Coordinator].seen \cup new
      BY <2>2 DEF WorkersSeen
    <3>3. /\ new \subseteq {w \in Worker : clusters[w].initialized}
          /\ new \in SUBSET Worker
      BY <2>7
    <3>4. Membership!Signal(new)
      BY <1>1, <2>6, <3>1, <3>2, <3>3 DEF Membership!Signal
    <3> QED BY <3>3, <3>4 DEF Abstract, Membership!Next
  <2> QED BY <2>8, <2>9, <2>10, <2>11, <2>12 DEF Inv
<1> QED BY <1>2, <1>3 DEF CopySignals, SignalsReadable

(* A BGCluster becomes initialized when its pods are: a worker's only when  *)
(* the extension is there.                                                  *)
LEMMA MarkStep ==
  ASSUME Inv, Typed', NEW c \in Cluster, MarkInitialized(c)
  PROVE  Inv' /\ Abstract
<1> DEFINE object == [clusters[c] EXCEPT !.initialized = TRUE]
<1>1. /\ cache' = cache /\ extended' = extended /\ nodes' = nodes /\ boot' = boot
  BY DEF MarkInitialized, podVars
<1>2. /\ clusters \in [Cluster -> BGCluster] /\ boot.seen \subseteq Worker
      /\ clusters[Coordinator].seen \subseteq Worker
  BY NotWorker DEF Inv, Typed, TypeOK, BGCluster, Process
<1>3. cache[c] = clusters[c]
  BY DEF MarkInitialized, Inv, CopiesCurrent
<1>4. clusters[c].exists /\ WriteCluster(c, object)
  BY <1>3 DEF MarkInitialized
<1>5. clusters' = [clusters EXCEPT ![c] = object]
  BY <1>4 DEF WriteCluster
<1>6. \A d \in Cluster : /\ clusters'[d].exists = clusters[d].exists
                         /\ clusters'[d].seen = clusters[d].seen
                         /\ clusters'[d].initialized = (d = c \/ clusters[d].initialized)
  <2> TAKE d \in Cluster
  <2>1. CASE d = c
    BY <1>2, <1>5, <2>1 DEF BGCluster
  <2>2. CASE d # c
    BY <1>2, <1>5, <2>2 DEF BGCluster
  <2> QED BY <2>1, <2>2
<1>7. c \in Worker => c \in extended
  BY NotWorker DEF MarkInitialized, PodsInitialized
<1>8. CopiesCurrent'
  BY <1>1, <1>2, <1>4, WriteKeepsCurrent DEF Inv
<1>9. AbsentBlank'
  BY <1>4, <1>6 DEF Inv, AbsentBlank, Blank
<1>10. CacheTrue' /\ ReadyExtended'
  BY <1>1, <1>6, <1>7, NotWorker DEF Inv, CacheTrue, ReadyExtended
<1>11. SignalsTrue' /\ ProcessTrue'
  BY <1>1, <1>2, <1>6, NotWorker DEF Inv, SignalsTrue, ProcessTrue
<1>12. Abstract
  <2>1. CASE c = Coordinator
    <3>1. {w \in Worker : clusters'[w].initialized} = {w \in Worker : clusters[w].initialized}
      BY <1>6, <2>1, NotWorker
    <3>2. clusters'[Coordinator].initialized
          /\ clusters'[Coordinator].seen = clusters[Coordinator].seen
      BY <1>6, <2>1
    <3>3. Membership!Finish
      BY <1>1, <1>2, <3>1, <3>2, <1>5, <2>1 DEF Membership!Finish
    <3> QED BY <3>3 DEF Abstract, Membership!Next
  <2>2. CASE c \in Worker
    <3>1. {w \in Worker : clusters'[w].initialized}
            = {w \in Worker : clusters[w].initialized} \cup {c}
      BY <1>6, <2>2, NotWorker
    <3>2. clusters'[Coordinator] = clusters[Coordinator]
      BY <1>2, <1>5, <2>2, NotWorker
    <3>3. Membership!BecomeReady(c)
      BY <1>1, <1>7, <2>2, <3>1, <3>2 DEF Membership!BecomeReady
    <3> QED BY <2>2, <3>3 DEF Abstract, Membership!Next
  <2> QED BY <2>1, <2>2 DEF Cluster
<1> QED BY <1>8, <1>9, <1>10, <1>11, <1>12 DEF Inv

(* A worker's pod. *)
LEMMA ExtendStep ==
  ASSUME Inv, Typed', NEW w \in Worker, ExtendWorker(w)
  PROVE  Inv' /\ Abstract
<1>1. /\ clusters' = clusters /\ cache' = cache /\ stale' = stale
      /\ extended' = extended \cup {w} /\ boot' = boot /\ nodes' = nodes
  BY DEF ExtendWorker, serverVars, cacheVars
<1>2. Membership!Extend(w)
  BY <1>1 DEF Membership!Extend
<1> QED BY <1>1, <1>2, QuietStep DEF Abstract, Membership!Next

-----------------------------------------------------------------------------
(* The coordinator's process: it learns signals only from the server, and   *)
(* a worker joins only when citus_add_node finds the extension.             *)
LEMMA ProcessStep ==
  ASSUME Inv, Typed', BootStep \/ WaitTimesOut \/ CrashController
  PROVE  Inv' /\ Abstract
<1>1. /\ clusters' = clusters /\ cache' = cache /\ stale' = stale /\ extended' = extended
  BY DEF BootStep, StartBoot, SkipBoot, RunSystemCommands, AwaitWorker, AddWorker,
         FinishWorkers, ReportInitialized, WaitTimesOut, CrashController, OnlyPod,
         serverVars, cacheVars
<1>2. boot'.seen \subseteq boot.seen \cup clusters[Coordinator].seen
  <2>1. boot \in Process
    BY DEF Inv, Typed, TypeOK
  <2>2. CASE StartBoot
    <3> DEFINE c == clusters[Coordinator]
    <3>1. boot'.seen = c.seen
      BY <2>2 DEF StartBoot, Down
    <3> QED BY <3>1
  <2>3. CASE AwaitWorker \/ WaitTimesOut
    BY <2>1, <2>3 DEF AwaitWorker, WaitTimesOut, Refreshed, Process
  <2>4. CASE SkipBoot \/ FinishWorkers \/ ReportInitialized
    BY <2>1, <2>4 DEF SkipBoot, FinishWorkers, ReportInitialized, Process
  <2>5. CASE RunSystemCommands \/ CrashController
    BY <2>1, <2>5 DEF RunSystemCommands, CrashController, Down, Process
  <2>6. CASE AddWorker
    BY <2>1, <2>6 DEF AddWorker, Process
  <2> QED BY <2>2, <2>3, <2>4, <2>5, <2>6 DEF BootStep
<1>3. Inv' /\ SaysTheSame
  BY <1>1, <1>2, QuietStep
<1>4. CASE AddWorker /\ nodes' # nodes
  <2>1. boot.next \in extended /\ nodes' = nodes \cup {boot.next}
    BY <1>4 DEF AddWorker
  <2>2. boot.next \in Worker
    BY <2>1 DEF Inv, Typed, TypeOK
  <2>3. Membership!Join(boot.next)
    BY <1>1, <2>1 DEF Membership!Join
  <2> QED BY <1>3, <2>2, <2>3 DEF Abstract, Membership!Next
<1>5. CASE nodes' = nodes
  BY <1>1, <1>3, <1>5, SameMapsToStutter
<1> QED
  BY <1>4, <1>5 DEF BootStep, StartBoot, SkipBoot, RunSystemCommands, AwaitWorker,
         FinishWorkers, ReportInitialized, WaitTimesOut, CrashController

-----------------------------------------------------------------------------
LEMMA InitInv == Init => Inv
<1> SUFFICES ASSUME Init PROVE Inv
  OBVIOUS
<1>1. Typed
  BY InitTyped
<1>2. \A c \in Cluster : cache[c] = NoCluster /\ clusters[c] = NoCluster
  BY DEF Init
<1>3. NoCluster.seen = {} /\ NoCluster.initialized = FALSE
  BY DEF NoCluster, NewCluster
<1>4. boot.seen = {}
  BY DEF Init, Down
<1> QED BY <1>1, <1>2, <1>3, <1>4, NotWorker
        DEF Inv, CopiesCurrent, AbsentBlank, Blank, CacheTrue, ReadyExtended, SignalsTrue,
            ProcessTrue

LEMMA StepInv == Inv /\ [Next]_vars => Inv' /\ Abstract
<1> SUFFICES ASSUME Inv, [Next]_vars PROVE Inv' /\ Abstract
  OBVIOUS
<1>1. Typed'
  BY StepTyped DEF Inv
<1>2. CASE UNCHANGED vars
  BY <1>1, <1>2, QuietStep, SameMapsToStutter DEF vars, serverVars, cacheVars, podVars
<1>3. CASE Sync \/ CrashOperator
  BY <1>1, <1>3, InformersStep
<1>4. CASE Reconcile \/ ReconcileStep
  BY <1>1, <1>4, ClusterStep, OtherReconcileStep, SignalStep DEF ReconcileStep
<1>5. CASE \E c \in Cluster : MarkInitialized(c)
  BY <1>1, <1>5, MarkStep
<1>6. CASE \E w \in Worker : ExtendWorker(w)
  BY <1>1, <1>6, ExtendStep
<1>7. CASE BootStep \/ WaitTimesOut \/ CrashController
  BY <1>1, <1>7, ProcessStep
<1>8. CASE \/ \E n \in ShardCounts, t \in Template : Apply(n, t)
           \/ \E c \in Cluster : TouchCluster(c)
  BY <1>1, <1>8, EditStep
<1> QED BY <1>2, <1>3, <1>4, <1>5, <1>6, <1>7, <1>8 DEF Next, OperatorStep, Disturbance

(* Whatever the number of shards: a worker is signalled to the coordinator  *)
(* only when it is initialized, joins only with the extension, and nothing  *)
(* of this is taken back, although the reconciler writes from cached copies *)
(* (reconcile_bgcluster.go:163-182).                                        *)
THEOREM ImplementsMembership == Spec => MembershipSpec
<1>1. Init => Membership!Init
  <2> SUFFICES ASSUME Init PROVE Membership!Init
    OBVIOUS
  <2>1. \A c \in Cluster : clusters[c] = NoCluster
    BY DEF Init
  <2>2. NoCluster.seen = {} /\ NoCluster.initialized = FALSE
    BY DEF NoCluster, NewCluster
  <2> QED BY <2>1, <2>2, NotWorker DEF Init, Membership!Init
<1>2. Inv /\ [Next]_vars => Abstract
  BY StepInv
<1>3. Spec => []Inv
  <2>1. Inv /\ [Next]_vars => Inv'
    BY StepInv
  <2> QED BY <2>1, InitInv, PTL DEF Spec
<1> QED BY <1>1, <1>2, <1>3, PTL DEF Spec, MembershipSpec, Membership!Spec, Abstract

-----------------------------------------------------------------------------
(***************************************************************************)
(* The coordinator's process, at each point of its loop over the workers:  *)
(* the ones before boot.next have joined, and the one it is about to add   *)
(* has its extension, unless a wait ran out or a statement failed.         *)
(***************************************************************************)
Faulted   == "timeout" \in faults \/ "sqlError" \in faults
Joined(n) == Shards(n) \subseteq nodes \/ Faulted

InLoop ==
  /\ boot.pc = "booting" => boot.next = 0
  /\ boot.pc \in {"waiting", "adding"} => ~boot.initialized /\ Joined(boot.next)
  /\ boot.pc = "adding" => boot.next \in extended \/ Faulted
  /\ boot.pc \in {"reporting", "loop"} /\ ~boot.initialized => Joined(boot.size)

(* Nobody else's step disturbs it. *)
LEMMA OthersKeepInLoop ==
  ASSUME InLoop, boot' = boot, nodes' = nodes, extended \subseteq extended',
         faults \subseteq faults'
  PROVE  InLoop'
BY DEF InLoop, Joined, Faulted

LEMMA OthersStep ==
  ASSUME InLoop, \/ OperatorStep \/ \E w \in Worker : ExtendWorker(w)
                 \/ CrashOperator \/ \E c \in Cluster : TouchCluster(c)
                 \/ \E n \in ShardCounts, t \in Template : Apply(n, t)
  PROVE  InLoop'
<1>1. boot' = boot /\ nodes' = nodes /\ extended \subseteq extended'
  <2>1. CASE Sync
    BY <2>1 DEF Sync, SyncSharded, SyncCluster, podVars
  <2>2. CASE Reconcile \/ ReconcileStep
    BY <2>2 DEF ReconcileStep, Reconcile, CreateCluster, UpdateCluster, KeepCluster,
                SetWorkerList, CopySignals, SetStatus, StepRefused, podVars
  <2>3. CASE \E c \in Cluster : MarkInitialized(c)
    BY <2>3 DEF MarkInitialized, podVars
  <2>4. CASE \E w \in Worker : ExtendWorker(w)
    BY <2>4 DEF ExtendWorker
  <2>5. CASE CrashOperator \/ \E c \in Cluster : TouchCluster(c)
    BY <2>5 DEF CrashOperator, TouchCluster, podVars
  <2>6. CASE \E n \in ShardCounts, t \in Template : Apply(n, t)
    BY <2>6 DEF Apply, podVars
  <2> QED BY <2>1, <2>2, <2>3, <2>4, <2>5, <2>6 DEF OperatorStep
<1>2. faults \subseteq faults'
  <2>1. \A kind : Fault(kind) => faults \subseteq faults'
    BY DEF Fault
  <2>2. CASE Sync \/ Reconcile \/ \E c \in Cluster : MarkInitialized(c)
    BY <2>2 DEF Sync, SyncSharded, SyncCluster, Reconcile, MarkInitialized
  <2>3. CASE ReconcileStep
    <3>1. \A step : Continue(step) => faults \subseteq faults'
      BY <2>1 DEF Continue
    <3> QED BY <2>1, <2>3, <3>1 DEF ReconcileStep, CreateCluster, UpdateCluster,
               KeepCluster, SetWorkerList, CopySignals, SetStatus, StepRefused
  <2>4. CASE \E w \in Worker : ExtendWorker(w)
    BY <2>4 DEF ExtendWorker
  <2>5. CASE CrashOperator \/ \E c \in Cluster : TouchCluster(c)
    BY <2>1, <2>5 DEF CrashOperator, TouchCluster
  <2>6. CASE \E n \in ShardCounts, t \in Template : Apply(n, t)
    BY <2>1, <2>6 DEF Apply
  <2> QED BY <2>2, <2>3, <2>4, <2>5, <2>6 DEF OperatorStep
<1> QED BY <1>1, <1>2, OthersKeepInLoop

LEMMA InLoopStep ==
  ASSUME Inv, InLoop, Next
  PROVE  InLoop'
<1>1. /\ boot \in Process /\ boot.next \in Nat /\ boot.size \in Nat
      /\ faults \in SUBSET FaultKind
  BY Bounds, FaultAssumption DEF Inv, Typed, TypeOK, Process
<1>2. CASE StartBoot
  <2>1. boot'.pc = "booting" /\ boot'.next = 0
    BY <1>2 DEF StartBoot, Down
  <2> QED BY <2>1 DEF InLoop
<1>3. CASE SkipBoot
  <2>1. boot'.pc = "loop" /\ boot'.initialized
    BY <1>1, <1>3 DEF SkipBoot, Process
  <2> QED BY <2>1 DEF InLoop
<1>4. CASE RunSystemCommands
  <2>1. CASE boot' = Down
    BY <2>1 DEF InLoop, Down
  <2>2. CASE boot' = [boot EXCEPT !.pc = "waiting"]
    <3>1. boot'.pc = "waiting" /\ ~boot'.initialized /\ boot'.next = 0
      BY <1>1, <1>4, <2>2 DEF RunSystemCommands, InLoop, Process
    <3>2. Shards(0) = {}
      BY DEF Shards
    <3> QED BY <3>1, <3>2 DEF InLoop, Joined
  <2> QED BY <1>4, <2>1, <2>2 DEF RunSystemCommands
<1>5. CASE AwaitWorker
  <2>1. boot.next \in Worker /\ boot.next \in extended
    BY <1>5, NotWorker DEF AwaitWorker, NextWorkerSeen, Inv, Typed, TypeOK, Process, BGCluster,
       SignalsTrue, ProcessTrue, ReadyExtended
  <2>2. /\ boot'.pc = "adding" /\ boot'.initialized = boot.initialized
        /\ boot'.next = boot.next
    BY <1>1, <1>5 DEF AwaitWorker, Refreshed, Process
  <2>3. extended' = extended /\ nodes' = nodes /\ faults' = faults
    BY <1>5 DEF AwaitWorker, OnlyPod
  <2> QED BY <1>5, <2>1, <2>2, <2>3 DEF AwaitWorker, InLoop, Joined, Faulted
<1>6. CASE WaitTimesOut
  <2>1. boot'.pc = "adding" /\ boot'.initialized = boot.initialized /\ Faulted'
    BY <1>1, <1>6 DEF WaitTimesOut, Refreshed, Process, Faulted
  <2> QED BY <1>6, <2>1 DEF WaitTimesOut, GivesUp, InLoop, Joined
<1>7. CASE AddWorker
  <2>1. /\ boot'.pc = "waiting" /\ boot'.initialized = boot.initialized
        /\ boot'.next = boot.next + 1
    BY <1>1, <1>7 DEF AddWorker, Process
  <2>2. Shards(boot.next + 1) \subseteq nodes' \/ Faulted'
    <3>1. CASE Faulted \/ Faulted'
      BY <1>7, <3>1 DEF AddWorker, Fault, Faulted
    <3>2. CASE ~Faulted /\ ~Faulted'
      <4>1. boot.next \in extended /\ nodes' = nodes \cup {boot.next}
        BY <1>1, <1>7, <3>2 DEF AddWorker, Fault, Faulted, InLoop
      <4>2. Shards(boot.next + 1) = Shards(boot.next) \cup {boot.next}
        BY <1>1 DEF Shards
      <4>3. Shards(boot.next) \subseteq nodes
        BY <1>7, <3>2 DEF AddWorker, InLoop, Joined
      <4>4. Shards(boot.next + 1) \subseteq nodes'
        BY <4>1, <4>2, <4>3
      <4> QED BY <4>4
    <3> QED BY <3>1, <3>2
  <2> QED BY <1>7, <2>1, <2>2 DEF AddWorker, InLoop, Joined
<1>8. CASE FinishWorkers
  <2>1. boot'.pc = "reporting" /\ boot'.size = boot.size
    BY <1>1, <1>8 DEF FinishWorkers, Process
  <2>2. Shards(boot.size) \subseteq Shards(boot.next)
    BY <1>1, <1>8 DEF FinishWorkers, AllAwaited, MoreWorkers, Shards
  <2>3. nodes' = nodes /\ faults' = faults
    BY <1>8 DEF FinishWorkers
  <2> QED BY <1>8, <2>1, <2>2, <2>3 DEF FinishWorkers, AllAwaited, InLoop, Joined, Faulted
<1>9. CASE ReportInitialized
  <2>1. /\ boot'.pc = "loop" /\ boot'.size = boot.size
        /\ boot'.initialized = boot.initialized
    BY <1>1, <1>9 DEF ReportInitialized, Process
  <2>2. nodes' = nodes /\ faults \subseteq faults'
    BY <1>9 DEF ReportInitialized, Fault
  <2> QED BY <1>9, <2>1, <2>2 DEF ReportInitialized, InLoop, Joined, Faulted
<1>10. CASE CrashController
  BY <1>10 DEF CrashController, Down, InLoop
<1> QED BY <1>2, <1>3, <1>4, <1>5, <1>6, <1>7, <1>8, <1>9, <1>10, OthersStep
        DEF Next, BootStep, Disturbance

(* Whatever the number of shards and however the reconciler and the         *)
(* process interleave: a coordinator process that has been through its list *)
(* of workers has added every one of them, unless a wait ran out or a       *)
(* statement failed (bootstrap.go:206-220).                                 *)
THEOREM EveryWorkerJoined == Spec => []JoinedUnlessFault
<1>1. Init => Inv /\ InLoop
  BY InitInv DEF Init, Down, InLoop
<1>2. Inv /\ InLoop /\ [Next]_vars => Inv' /\ InLoop'
  <2> SUFFICES ASSUME Inv, InLoop, [Next]_vars PROVE Inv' /\ InLoop'
    OBVIOUS
  <2>1. Inv'
    BY StepInv
  <2>2. CASE Next
    BY <2>1, <2>2, InLoopStep
  <2>3. CASE UNCHANGED vars
    <3>1. boot' = boot /\ nodes' = nodes /\ extended' = extended /\ faults' = faults
      BY <2>3 DEF vars, podVars
    <3> QED BY <2>1, <3>1, OthersKeepInLoop
  <2> QED BY <2>2, <2>3
<1>3. InLoop => JoinedUnlessFault
  BY DEF InLoop, Joined, Faulted, JoinedUnlessFault
<1> QED BY <1>1, <1>2, <1>3, PTL DEF Spec
-----------------------------------------------------------------------------
(***************************************************************************)
(* The reconciler and its rest.  As long as something is pending, a pass   *)
(* is still to come, and nothing need hold yet.  When nothing is, no step  *)
(* of the pass under way, if there is one, has changed anything, so it has *)
(* seen what the server has: each of its steps has found its part done.    *)
(***************************************************************************)
Pending == queued \/ shardedStale \/ stale # {}

Made(c) == clusters[c].exists /\ clusters[c].template = sharded.template

ListRight == Made(Coordinator) /\ clusters[Coordinator].list = sharded.shards
Copied    == \A w \in Shards(sharded.shards) :
               clusters[w].initialized => w \in clusters[Coordinator].seen

PassCurrent == rec.fresh => rec.asked = sharded
OldPass     == rec.pc # "idle" /\ ~rec.fresh => Pending
SoFar ==
  /\ rec.pc = "idle" => AsAsked
  /\ rec.pc = "list" => Made(Coordinator)
  /\ rec.pc = "worker" => ListRight /\ \A w \in Shards(rec.next) : Made(w)
  /\ rec.pc = "status" => /\ ListRight /\ Copied
                          /\ \A w \in Shards(sharded.shards) : Made(w)

RestInv == /\ ~shardedStale => shardedCache = sharded
           /\ PassCurrent
           /\ OldPass
           /\ ~Pending => SoFar

(* While something is pending, only the copies of the BGShardedCluster      *)
(* matter.                                                                  *)
LEMMA PendingStep ==
  ASSUME Pending', ~shardedStale' => shardedCache' = sharded',
         rec'.fresh => rec'.asked = sharded'
  PROVE  RestInv'
BY DEF RestInv, PassCurrent, OldPass

(* Whoever touches neither the objects nor the reconciler disturbs nothing. *)
LEMMA AsideStep ==
  ASSUME RestInv, UNCHANGED <<sharded, clusters, shardedCache, shardedStale, stale, queued, rec>>
  PROVE  RestInv'
BY DEF RestInv, PassCurrent, OldPass, SoFar, Pending, AsAsked, ListRight, Copied, Made

(* A write outdates a copy, or finds what it would write.                   *)
LEMMA WriteOrSame ==
  ASSUME NEW c \in Cluster, NEW object, clusters \in [Cluster -> BGCluster],
         WriteCluster(c, object)
  PROVE  stale' # {} \/ (clusters' = clusters /\ stale' = stale /\ clusters[c] = object)
BY DEF WriteCluster

LEMMA IdleOld == ~Idle.fresh /\ Idle.pc = "idle"
BY DEF Idle

(* The reply of a write was lost: the key is queued again.                  *)
LEMMA AbandonStep ==
  ASSUME RestInv, Abandon, ~shardedStale' => shardedCache' = sharded'
  PROVE  RestInv'
BY IdleOld, PendingStep DEF Abandon, Pending

(* A step of a pass that goes on: either its write is pending, or nothing   *)
(* changed, and then the next step's facts are to be shown.                 *)
LEMMA GoOn ==
  ASSUME RestInv, UNCHANGED <<sharded, shardedCache, shardedStale, queued>>,
         rec'.fresh = rec.fresh, rec'.asked = rec.asked, rec.pc # "idle",
         stale' # {} \/ (clusters' = clusters /\ stale' = stale /\ (~Pending => SoFar'))
  PROVE  RestInv'
<1>1. CASE Pending'
  BY <1>1, PendingStep DEF RestInv, PassCurrent
<1>2. CASE ~Pending'
  <2>1. ~Pending /\ SoFar'
    BY <1>2 DEF Pending
  <2>2. rec.fresh
    BY <2>1 DEF RestInv, OldPass
  <2> QED BY <2>1, <2>2 DEF RestInv, PassCurrent, OldPass
<1> QED BY <1>1, <1>2

(* With nothing pending, a pass has read what the server has.               *)
LEMMA NothingPending ==
  ASSUME Inv, RestInv, ~Pending, rec.pc # "idle"
  PROVE  rec.asked = sharded /\ cache = clusters /\ SoFar
<1>1. rec.asked = sharded /\ SoFar
  BY DEF RestInv, PassCurrent, OldPass
<1>2. \A c \in Cluster : cache[c] = clusters[c]
  BY DEF Pending, Inv, CopiesCurrent
<1> QED BY <1>1, <1>2 DEF Inv, Typed, TypeOK

LEMMA ClusterRests ==
  ASSUME Inv, RestInv, CreateCluster \/ UpdateCluster \/ KeepCluster
  PROVE  RestInv'
<1> DEFINE c == CurrentCluster
<1>1. /\ UNCHANGED <<sharded, shardedCache, shardedStale>>
      /\ AtCluster /\ rec.pc # "idle"
  BY DEF CreateCluster, UpdateCluster, KeepCluster, serverVars, cacheVars, AtCluster
<1>2. c \in Cluster /\ clusters \in [Cluster -> BGCluster]
  BY <1>1, AtClusterTyped DEF Inv, Typed, TypeOK
<1>3. /\ rec \in Reconciler /\ rec.next \in Nat
      /\ AfterCluster.fresh = rec.fresh /\ AfterCluster.asked = rec.asked
  BY Bounds DEF Inv, Typed, TypeOK, Reconciler, AfterCluster, Goto
<1>4. stale' # {} \/ (clusters' = clusters /\ stale' = stale /\ (~Pending => Made(c)))
  <2>1. CASE CreateCluster
    <3>1. NewCluster(rec.asked.template).exists
          /\ NewCluster(rec.asked.template).template = rec.asked.template
      BY DEF NewCluster
    <3> QED BY <1>1, <1>2, <2>1, <3>1, WriteOrSame, NothingPending DEF CreateCluster, Made
  <2>2. CASE UpdateCluster
    <3>1. cache[c] \in BGCluster /\ cache[c].exists
      BY <1>2, <2>2 DEF UpdateCluster, Inv, Typed, TypeOK
    <3> DEFINE object == [cache[c] EXCEPT !.template = rec.asked.template]
    <3>2. object.exists /\ object.template = rec.asked.template
      BY <3>1 DEF BGCluster
    <3>3. stale' # {} \/ (clusters' = clusters /\ stale' = stale /\ clusters[c] = object)
      BY <1>2, <2>2, WriteOrSame DEF UpdateCluster
    <3> QED BY <1>1, <3>2, <3>3, NothingPending DEF Made
  <2>3. CASE KeepCluster
    BY <1>1, <2>3, NothingPending DEF KeepCluster, UpToDate, Made, serverVars, cacheVars
  <2> QED BY <2>1, <2>2, <2>3
<1>5. CASE rec' = AfterCluster /\ UNCHANGED queued
  <2>1. ASSUME clusters' = clusters, ~Pending, Made(c) PROVE SoFar'
    <3>1. SoFar /\ rec.asked = sharded
      BY <1>1, <2>1, NothingPending
    <3>2. CASE rec.pc = "coordinator"
      <4>1. rec'.pc = "list" /\ c = Coordinator
        BY <1>3, <1>5, <3>2 DEF AfterCluster, Goto, CurrentCluster, Reconciler
      <4> QED BY <1>1, <2>1, <4>1 DEF SoFar, Made
    <3>3. CASE rec.pc = "worker"
      <4>1. rec'.pc = "worker" /\ c = rec.next /\ rec'.next = rec.next + 1
        BY <1>3, <1>5, <3>3 DEF AfterCluster, CurrentCluster, Reconciler
      <4>2. \A w \in Shards(rec'.next) : w = rec.next \/ w \in Shards(rec.next)
        BY <1>3, <4>1 DEF Shards
      <4> QED BY <1>1, <2>1, <3>1, <3>3, <4>1, <4>2 DEF SoFar, Made, ListRight
    <3> QED BY <1>1, <3>2, <3>3 DEF AtCluster
  <2> QED BY <1>1, <1>3, <1>4, <1>5, <2>1, GoOn
<1>6. CASE Abandon
  BY <1>1, <1>6, AbandonStep DEF RestInv
<1> QED BY <1>5, <1>6 DEF CreateCluster, UpdateCluster, KeepCluster, Continue

LEMMA ListRests ==
  ASSUME Inv, RestInv, SetWorkerList
  PROVE  RestInv'
<1> DEFINE object == [cache[Coordinator] EXCEPT !.list = rec.asked.shards]
           step   == [rec EXCEPT !.pc = "worker", !.next = 0]
<1>1. /\ UNCHANGED <<sharded, shardedCache, shardedStale>> /\ rec.pc = "list"
      /\ WriteCluster(Coordinator, object)
  BY DEF SetWorkerList
<1>2. /\ clusters \in [Cluster -> BGCluster] /\ cache[Coordinator] \in BGCluster
      /\ rec \in Reconciler
  BY NotWorker DEF Inv, Typed, TypeOK
<1>3. object.list = rec.asked.shards
  BY <1>2 DEF BGCluster
<1>4. stale' # {} \/ (/\ clusters' = clusters /\ stale' = stale
                      /\ clusters[Coordinator].list = rec.asked.shards)
  <2>1. stale' # {} \/ (clusters' = clusters /\ stale' = stale /\ clusters[Coordinator] = object)
    <3> HIDE DEF object
    <3> QED BY <1>1, <1>2, NotWorker, WriteOrSame
  <2> QED BY <1>3, <2>1
<1>5. CASE rec' = step /\ UNCHANGED queued
  <2>1. /\ rec'.pc = "worker" /\ rec'.next = 0
        /\ rec'.fresh = rec.fresh /\ rec'.asked = rec.asked
    BY <1>2, <1>5 DEF Reconciler
  <2>2. Shards(0) = {}
    BY DEF Shards
  <2>3. ASSUME clusters' = clusters, ~Pending, clusters[Coordinator].list = rec.asked.shards
        PROVE  SoFar'
    <3>1. SoFar /\ rec.asked = sharded
      BY <1>1, <2>3, NothingPending
    <3> QED BY <1>1, <2>1, <2>2, <2>3, <3>1 DEF SoFar, ListRight, Made
  <2> QED BY <1>1, <1>4, <1>5, <2>1, <2>3, GoOn
<1>6. CASE Abandon
  BY <1>1, <1>6, AbandonStep DEF RestInv
<1> QED BY <1>5, <1>6 DEF SetWorkerList, Continue

LEMMA SignalsRest ==
  ASSUME Inv, RestInv, CopySignals
  PROVE  RestInv'
<1> DEFINE object == [cache[Coordinator] EXCEPT !.seen = WorkersSeen]
<1>1. /\ UNCHANGED <<sharded, shardedCache, shardedStale>> /\ AtSignals
      /\ rec.pc = "worker" /\ rec.next = rec.asked.shards
  BY DEF CopySignals, AtSignals
<1>2. /\ clusters \in [Cluster -> BGCluster] /\ cache[Coordinator] \in BGCluster
      /\ rec \in Reconciler
  BY NotWorker DEF Inv, Typed, TypeOK
<1>3. object.seen = WorkersSeen
  BY <1>2 DEF BGCluster
<1>4. stale' # {} \/ (/\ clusters' = clusters /\ stale' = stale
                      /\ ~Pending => clusters[Coordinator].seen = WorkersSeen)
  <2>1. CASE WorkersSeen = cache[Coordinator].seen /\ UNCHANGED <<clusters, stale>>
    BY <1>1, <2>1, NothingPending
  <2>2. CASE WriteCluster(Coordinator, object)
    BY <1>2, <1>3, <2>2, NotWorker, WriteOrSame
  <2> QED BY <2>1, <2>2 DEF CopySignals
<1>5. CASE rec' = Goto("status") /\ UNCHANGED queued
  <2>1. rec'.pc = "status" /\ rec'.fresh = rec.fresh /\ rec'.asked = rec.asked
    BY <1>2, <1>5 DEF Reconciler, Goto
  <2>2. ASSUME clusters' = clusters, ~Pending, clusters[Coordinator].seen = WorkersSeen
        PROVE  SoFar'
    <3>1. SoFar /\ rec.asked = sharded /\ cache = clusters
      BY <1>1, <2>2, NothingPending
    <3>2. Copied
      BY <2>2, <3>1 DEF Copied, WorkersSeen
    <3> QED BY <1>1, <2>1, <2>2, <3>1, <3>2 DEF SoFar, ListRight, Made, Copied
  <2> QED BY <1>1, <1>4, <1>5, <2>1, <2>2, GoOn
<1>6. CASE Abandon
  BY <1>1, <1>6, AbandonStep DEF RestInv
<1> QED BY <1>5, <1>6 DEF CopySignals, Continue

LEMMA StatusRests ==
  ASSUME Inv, RestInv, SetStatus
  PROVE  RestInv'
<1>1. /\ rec.pc = "status" /\ UNCHANGED <<clusters, shardedCache, stale>>
  BY DEF SetStatus
<1>2. CASE shardedStale'
  <2>1. rec' = Idle
    BY <1>2 DEF SetStatus, Continue, Abandon
  <2> QED BY <1>2, <2>1, IdleOld, PendingStep DEF Pending
<1>3. CASE ~shardedStale'
  <2>1. /\ rec' = Idle /\ rec.asked.ready = rec.asked.shards
        /\ UNCHANGED <<sharded, shardedStale, queued>>
    BY <1>3 DEF SetStatus
  <2>2. ASSUME ~Pending PROVE SoFar'
    <3>1. SoFar /\ rec.asked = sharded
      BY <1>1, <2>2, NothingPending
    <3>2. AsAsked
      BY <1>1, <2>1, <3>1 DEF SoFar, AsAsked, ListRight, Copied, Made
    <3> QED BY <1>1, <2>1, <3>2, IdleOld DEF SoFar, AsAsked
  <2> QED BY <1>1, <2>1, <2>2, IdleOld DEF RestInv, PassCurrent, OldPass, Pending
<1> QED BY <1>2, <1>3

LEMMA RestStep ==
  ASSUME Inv, RestInv, [Next]_vars
  PROVE  RestInv'
<1>1. CASE Sync \/ CrashOperator
  <2>1. Pending'
    BY <1>1 DEF Sync, SyncSharded, SyncCluster, CrashOperator, Pending
  <2>2. (~shardedStale' => shardedCache' = sharded') /\ sharded' = sharded
    BY <1>1 DEF Sync, SyncSharded, SyncCluster, CrashOperator, serverVars, RestInv
  <2>3. rec' = rec \/ rec' = Idle
    BY <1>1 DEF Sync, SyncSharded, SyncCluster, CrashOperator
  <2> QED BY <2>1, <2>2, <2>3, IdleOld, PendingStep DEF RestInv, PassCurrent
<1>2. CASE Reconcile
  <2>1. /\ UNCHANGED <<sharded, clusters, shardedCache, shardedStale, stale>>
        /\ rec'.pc = "coordinator" /\ rec'.asked = shardedCache
        /\ rec'.fresh = ~shardedStale
    BY <1>2 DEF Reconcile, serverVars, cacheVars
  <2> QED BY <2>1 DEF RestInv, PassCurrent, OldPass, SoFar, Pending
<1>3. CASE StepRefused
  BY <1>3, AbandonStep DEF StepRefused, serverVars, cacheVars, RestInv
<1>4. ASSUME NEW c \in Cluster, MarkInitialized(c) PROVE RestInv'
  <2>1. clusters \in [Cluster -> BGCluster] /\ cache[c] = clusters[c]
    BY <1>4 DEF MarkInitialized, Inv, Typed, TypeOK, CopiesCurrent
  <2> DEFINE object == [cache[c] EXCEPT !.initialized = TRUE]
  <2>2. object # clusters[c]
    BY <1>4, <2>1 DEF MarkInitialized, BGCluster
  <2>3. stale' # {}
    BY <1>4, <2>1, <2>2, WriteOrSame DEF MarkInitialized
  <2> QED BY <1>4, <2>3, PendingStep DEF MarkInitialized, Pending, RestInv, PassCurrent
<1>5. CASE \E n \in ShardCounts, t \in Template : Apply(n, t)
  <2>1. shardedStale' /\ rec' = [rec EXCEPT !.fresh = FALSE] /\ rec \in Reconciler
    BY <1>5 DEF Apply, Inv, Typed, TypeOK
  <2>2. ~rec'.fresh
    BY <2>1 DEF Reconciler
  <2> QED BY <2>1, <2>2, PendingStep DEF Pending
<1>6. CASE \E c \in Cluster : TouchCluster(c)
  <2>1. stale' # {} /\ UNCHANGED <<sharded, shardedCache, shardedStale, rec>>
    BY <1>6 DEF TouchCluster, serverVars
  <2> QED BY <2>1, PendingStep DEF Pending, RestInv, PassCurrent
<1>7. CASE \/ BootStep \/ WaitTimesOut \/ CrashController
           \/ \E w \in Worker : ExtendWorker(w) \/ UNCHANGED vars
  <2>1. UNCHANGED <<sharded, clusters, shardedCache, shardedStale, stale, queued, rec>>
    BY <1>7 DEF BootStep, StartBoot, SkipBoot, RunSystemCommands, AwaitWorker, AddWorker,
       FinishWorkers, ReportInitialized, WaitTimesOut, CrashController, ExtendWorker,
       OnlyPod, vars, serverVars, cacheVars
  <2> QED BY <2>1, AsideStep
<1>8. UNCHANGED vars => RestInv'
  BY AsideStep DEF vars, serverVars, cacheVars
<1> QED BY <1>1, <1>2, <1>3, <1>4, <1>5, <1>6, <1>7, <1>8, ClusterRests, ListRests,
           SignalsRest, StatusRests
        DEF Next, OperatorStep, ReconcileStep, Disturbance

(* Whatever the number of shards, and whatever mix of old and new objects   *)
(* the passes saw, was refused, lost or edited on the way: the reconciler   *)
(* rests only when all is done that it was asked                            *)
(* (reconcile_bgcluster.go:22-60).                                          *)
THEOREM RestsWhenDone == Spec => []RestMeansDone
<1>1. Init => Inv /\ RestInv
  <2>1. Init => RestInv
    BY IdleOld DEF Init, RestInv, PassCurrent, OldPass, Pending
  <2> QED BY <2>1, InitInv
<1>2. Inv /\ RestInv /\ [Next]_vars => Inv' /\ RestInv'
  BY StepInv, RestStep
<1>3. RestInv => RestMeansDone
  BY DEF RestInv, SoFar, Pending, RestMeansDone, AtRest
<1> QED BY <1>1, <1>2, <1>3, PTL DEF Spec
=============================================================================
