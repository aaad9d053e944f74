----------------------------- MODULE ClusterInit -----------------------------
(***************************************************************************)
(* How a BGCluster becomes initialized.  BGClusterReconciler keeps a       *)
(* StatefulSet with as many replicas as the BGCluster has instances; the   *)
(* controller process in each pod waits for its database, runs the         *)
(* bootstrap SQL and annotates its pod; and the reconciler, when it finds  *)
(* every pod annotated, annotates the BGCluster, which tells every process *)
(* that starts later to bootstrap nothing.                                 *)
(*                                                                         *)
(* The work queue is not here: a pass writes the cluster's secret twice,   *)
(* with and without its owner, and the reconciler watches secrets, so that *)
(* each pass is the cause of another.                                      *)
(***************************************************************************)
EXTENDS Naturals, FiniteSets

CONSTANTS
  MaxPods,    \* the most instances a user asks for
  Instances,  \* the numbers of instances a user asks for
  Sharded,    \* whether the BGCluster is part of a sharded cluster: values it may have
  NoPod,      \* no pod is Patroni's leader
  Faults      \* the faults that may happen together, each of them once

Pod       == 0 .. (MaxPods - 1)
FaultKind == {"apiError", "crash", "edit", "failover", "timeout", "sqlError",
              "unreported"}

ASSUME InstancesAssumption == MaxPods \in Nat /\ Instances \subseteq 0 .. MaxPods
ASSUME ShardedAssumption == Sharded \subseteq BOOLEAN
ASSUME NoPodAssumption == NoPod \notin Pod
ASSUME FaultAssumption == {} \in Faults /\ Faults \subseteq SUBSET FaultKind

VARIABLES
  (* the API server *)
  cluster,       \* the BGCluster: instances, initialized, status.nodes
  sts,           \* the StatefulSet
  pods,          \* by pod: is it there, and is it annotated initialized
  (* the operator *)
  clusterCache, stsCache, podCache,
  clusterStale,  \* the cached resourceVersion is behind the server's
  stsStale,
  rec,           \* the reconcile worker
  (* the pods *)
  boot,          \* the controller process of each
  leader,        \* Patroni's leader
  sqlRuns,       \* how often the bootstrap SQL was run, two meaning twice or more
  faults         \* the faults that have happened

serverVars == <<cluster, sts, pods>>
cacheVars  == <<clusterCache, stsCache, podCache, clusterStale, stsStale>>
podVars    == <<boot, leader, sqlRuns>>
vars       == <<serverVars, cacheVars, rec, podVars, faults>>

-----------------------------------------------------------------------------
BGCluster   == [instances : 0 .. MaxPods, sharded : BOOLEAN,
                initialized : BOOLEAN, nodes : SUBSET Pod]
StatefulSet == [exists : BOOLEAN, replicas : 0 .. MaxPods]
PodObject   == {"absent", "plain", "initialized"}
Process     == [pc : {"down", "starting", "system", "user", "reporting", "loop"},
                initialized : BOOLEAN]
Reconciler  == [pc : {"idle", "statefulset", "initialization", "status"},
                copy : BGCluster, fresh : BOOLEAN, desired : 0 .. MaxPods]

Down == [pc |-> "down", initialized |-> FALSE]
Idle == [pc |-> "idle", fresh |-> FALSE, desired |-> 0,
         copy |-> [instances |-> 0, sharded |-> FALSE, initialized |-> FALSE,
                   nodes |-> {}]]

Fault(kind) == /\ kind \notin faults
               /\ faults' = faults \cup {kind}
               /\ faults' \in Faults

Running(p) == pods[p] # "absent"
Listed     == {p \in Pod : podCache[p] # "absent"}

(* The user asks for another number of instances. *)
Scale(n) ==
  /\ n # cluster.instances
  /\ Fault("edit")
  /\ cluster' = [cluster EXCEPT !.instances = n]
  /\ clusterStale' = TRUE
  /\ rec' = [rec EXCEPT !.fresh = FALSE]
  /\ UNCHANGED <<sts, pods, clusterCache, stsCache, podCache, stsStale, podVars>>

-----------------------------------------------------------------------------
(* The informers. *)
SyncCluster ==
  /\ clusterStale
  /\ clusterCache' = cluster
  /\ clusterStale' = FALSE
  /\ UNCHANGED <<serverVars, stsCache, podCache, stsStale, rec, podVars, faults>>

SyncStatefulSet ==
  /\ stsStale
  /\ stsCache' = sts
  /\ stsStale' = FALSE
  /\ UNCHANGED <<serverVars, clusterCache, podCache, clusterStale, rec, podVars, faults>>

SyncPods ==
  /\ podCache # pods
  /\ podCache' = pods
  /\ UNCHANGED <<serverVars, clusterCache, stsCache, clusterStale, stsStale, rec,
                 podVars, faults>>

-----------------------------------------------------------------------------
(***************************************************************************)
(* BGClusterReconciler.Reconcile.  The services, config maps, secret and   *)
(* RBAC objects it keeps between the steps below are left out: they may    *)
(* end the pass with an error, and that is all they do to the rest.        *)
(***************************************************************************)
Reconcile ==
  /\ rec.pc = "idle"
  /\ rec' = [pc |-> "statefulset", copy |-> clusterCache, fresh |-> ~clusterStale,
             desired |-> 0]
  /\ UNCHANGED <<serverVars, cacheVars, podVars, faults>>

(* After a write: on to the next step, unless the reply was lost. *)
Continue(step) ==
  \/ rec' = step /\ UNCHANGED faults
  \/ rec' = Idle /\ Fault("apiError")

WriteStatefulSet(object) ==
  /\ sts' = object
  /\ stsStale' = (stsStale \/ object # sts)

OneMore(bgCluster)  == bgCluster.instances + 1        \* mutant: off by one
Replicas(bgCluster) == bgCluster.instances

(* reconcileStatefulSet.  After a creation the pods are not looked at; after *)
(* an update they are counted against the StatefulSet as it was before.      *)
CreateStatefulSet ==
  /\ rec.pc = "statefulset"
  /\ ~stsCache.exists
  /\ ~sts.exists
  /\ WriteStatefulSet([exists |-> TRUE, replicas |-> Replicas(rec.copy)])
  /\ Continue([rec EXCEPT !.pc = "status"])
  /\ UNCHANGED <<cluster, pods, clusterCache, stsCache, podCache, clusterStale, podVars>>

UpdateStatefulSet ==
  /\ rec.pc = "statefulset"
  /\ stsCache.exists
  /\ ~stsStale
  /\ WriteStatefulSet([sts EXCEPT !.replicas = Replicas(rec.copy)])
  /\ Continue([rec EXCEPT !.pc = "initialization", !.desired = stsCache.replicas])
  /\ UNCHANGED <<cluster, pods, clusterCache, stsCache, podCache, clusterStale, podVars>>

(* reconcileBGClusterInitialization. *)
InitializedPods == {p \in Pod : podCache[p] = "initialized"}

CountedListed == InitializedPods = Listed    \* mutant: not against the desired number
CountedTwice  == /\ Cardinality(InitializedPods) > rec.desired   \* mutant: off by one
                 /\ InitializedPods = Listed
AllInitialized == /\ Cardinality(InitializedPods) = rec.desired
                  /\ InitializedPods = Listed

(* The update is refused if the BGCluster has changed since it was read. *)
CopyAny     == TRUE                          \* mutant: written whatever the version
CopyCurrent == rec.fresh

MarkInitialized ==
  /\ rec.pc = "initialization"
  /\ AllInitialized
  /\ ~rec.copy.initialized
  /\ CopyCurrent
  /\ cluster' = [rec.copy EXCEPT !.initialized = TRUE]
  /\ clusterStale' = TRUE
  /\ Continue([rec EXCEPT !.pc = "status", !.copy = cluster'])
  /\ UNCHANGED <<sts, pods, clusterCache, stsCache, podCache, stsStale, podVars>>

LeaveInitialization ==
  /\ rec.pc = "initialization"
  /\ ~AllInitialized \/ rec.copy.initialized
  /\ rec' = [rec EXCEPT !.pc = "status"]
  /\ UNCHANGED <<serverVars, cacheVars, podVars, faults>>

(***************************************************************************)
(* status.nodes, on a BGCluster read again from the cache.  The list of    *)
(* pods comes in no fixed order, so that several of them may look changed  *)
(* when they are not.  An empty list is the nil slice, which is written as *)
(* null where the BGCluster's definition requires an array.                *)
(***************************************************************************)
NodesDiffer == \/ clusterCache.nodes # Listed
               \/ Cardinality(Listed) > 1

StatusLags    == clusterCache.nodes \subseteq Listed   \* mutant: growth missed
StatusCurrent == clusterCache.nodes = Listed

NodesArePods == Listed # {}

SetNodes ==
  /\ rec.pc = "status"
  /\ NodesDiffer
  /\ NodesArePods
  /\ ~clusterStale
  /\ cluster' = [cluster EXCEPT !.nodes = Listed]
  /\ clusterStale' = TRUE
  /\ Continue(Idle)
  /\ UNCHANGED <<sts, pods, clusterCache, stsCache, podCache, stsStale, podVars>>

KeepNodes ==
  /\ rec.pc = "status"
  /\ StatusCurrent
  /\ rec' = Idle
  /\ UNCHANGED <<serverVars, cacheVars, podVars, faults>>

(* A conflict, a StatefulSet the cache has not got yet, an object that is not *)
(* valid, or an API error.                                                    *)
Refused ==
  \/ rec.pc = "statefulset" /\ IF stsCache.exists THEN stsStale ELSE sts.exists
  \/ rec.pc = "initialization" /\ AllInitialized /\ ~rec.copy.initialized /\ ~CopyCurrent
  \/ rec.pc = "status" /\ NodesDiffer /\ (clusterStale \/ ~NodesArePods)

PassFails ==
  /\ rec.pc # "idle"
  /\ \/ Refused /\ UNCHANGED faults
     \/ Fault("apiError")
  /\ rec' = Idle
  /\ UNCHANGED <<serverVars, cacheVars, podVars>>

CrashOperator ==
  /\ Fault("crash")
  /\ clusterCache' = cluster /\ stsCache' = sts /\ podCache' = pods
  /\ clusterStale' = FALSE /\ stsStale' = FALSE
  /\ rec' = Idle
  /\ UNCHANGED <<serverVars, podVars>>

-----------------------------------------------------------------------------
(***************************************************************************)
(* The StatefulSet controller creates pods in order, each when those       *)
(* before it run, and removes the last first.  It notes either in the      *)
(* StatefulSet's status.  A pod that goes takes its process along.         *)
(***************************************************************************)
CreatePod(p) ==
  /\ sts.exists /\ p < sts.replicas
  /\ ~Running(p)
  /\ \A q \in Pod : q < p => Running(q)
  /\ pods' = [pods EXCEPT ![p] = "plain"]
  /\ stsStale' = TRUE
  /\ UNCHANGED <<cluster, sts, clusterCache, stsCache, podCache, clusterStale, rec,
                 podVars, faults>>

StopProcess(p) ==
  /\ boot' = [boot EXCEPT ![p] = Down]
  /\ leader' = IF leader = p THEN NoPod ELSE leader
  /\ UNCHANGED sqlRuns

PodGoes(p) ==
  /\ Running(p)
  /\ pods' = [pods EXCEPT ![p] = "absent"]
  /\ stsStale' = TRUE
  /\ StopProcess(p)
  /\ UNCHANGED <<cluster, sts, clusterCache, stsCache, podCache, clusterStale, rec>>

RemovePod(p) ==
  /\ p >= sts.replicas
  /\ \A q \in Pod : q > p => ~Running(q)
  /\ PodGoes(p)
  /\ UNCHANGED faults

(* It is evicted, or its node is gone. *)
LosePod(p) == PodGoes(p) /\ Fault("crash")

(* Patroni makes one of the running databases the leader, *)
Lead(p) ==
  /\ boot[p].pc # "down"
  /\ leader' = p
  /\ UNCHANGED <<serverVars, cacheVars, rec, boot, sqlRuns>>

Elect(p) == leader = NoPod /\ Lead(p) /\ UNCHANGED faults

(* and may choose another while the process beside the old one runs on. *)
FailOver(p) == leader \notin {NoPod, p} /\ Lead(p) /\ Fault("failover")

-----------------------------------------------------------------------------
(* RunController in the pod p, up to its loop. *)
OnlyPod == UNCHANGED <<cluster, sts, cacheVars, rec, leader>>

Goto(p, pc) == boot' = [boot EXCEPT ![p].pc = pc]

StartController(p) ==
  /\ Running(p)
  /\ boot[p].pc = "down"
  /\ boot' = [boot EXCEPT ![p] = [pc |-> "starting", initialized |-> cluster.initialized]]
  /\ OnlyPod
  /\ UNCHANGED <<pods, sqlRuns, faults>>

(* waitForDatabase, and which of the bootstrap functions comes next. *)
AlreadyInitialized(p) == boot[p].initialized

DatabaseReady(p) ==
  /\ boot[p].pc = "starting"
  /\ leader # NoPod
  /\ Goto(p, IF AlreadyInitialized(p) THEN "loop"
             ELSE IF cluster.sharded THEN "system" ELSE "user")
  /\ OnlyPod
  /\ UNCHANGED <<pods, sqlRuns, faults>>

(* No database within five minutes: the process exits. *)
DatabaseTimesOut(p) ==
  /\ boot[p].pc = "starting"
  /\ leader = NoPod
  /\ Fault("timeout")
  /\ Goto(p, "down")
  /\ OnlyPod
  /\ UNCHANGED <<pods, sqlRuns>>

(***************************************************************************)
(* The system commands of a worker or a coordinator: CREATE EXTENSION,     *)
(* which only the leader can run.  A failure ends the process.             *)
(***************************************************************************)
RunSystemCommands(p) ==
  /\ boot[p].pc = "system"
  /\ leader = p
  /\ Goto(p, "user")
  /\ OnlyPod
  /\ UNCHANGED <<pods, sqlRuns, faults>>

SystemCommandsFail(p) ==
  /\ boot[p].pc = "system"
  /\ \/ leader # p /\ UNCHANGED faults
     \/ Fault("sqlError")
  /\ StopProcess(p)
  /\ UNCHANGED <<serverVars, cacheVars, rec>>

(* The user's commands: a failure, as on a replica, is only logged. *)
RunUserCommands(p) ==
  /\ boot[p].pc = "user"
  /\ \/ leader = p /\ sqlRuns' = (IF sqlRuns = 0 THEN 1 ELSE 2) /\ UNCHANGED faults
     \/ leader # p /\ UNCHANGED <<sqlRuns, faults>>
     \/ Fault("sqlError") /\ UNCHANGED sqlRuns
  /\ Goto(p, "reporting")
  /\ OnlyPod
  /\ UNCHANGED pods

(* The pod's annotation; here too a failure is only logged. *)
ReportInitialized(p) ==
  /\ boot[p].pc = "reporting"
  /\ \/ pods' = [pods EXCEPT ![p] = "initialized"] /\ UNCHANGED faults
     \/ Fault("unreported") /\ UNCHANGED pods
  /\ Goto(p, "loop")
  /\ OnlyPod
  /\ UNCHANGED sqlRuns

(* The container dies and is started again in the same pod. *)
CrashController(p) ==
  /\ boot[p].pc # "down"
  /\ Fault("crash")
  /\ StopProcess(p)
  /\ UNCHANGED <<serverVars, cacheVars, rec>>

-----------------------------------------------------------------------------
Init ==
  /\ cluster \in [instances : Instances, sharded : Sharded, initialized : {FALSE},
                  nodes : {{}}]
  /\ sts = [exists |-> FALSE, replicas |-> 0]
  /\ pods = [p \in Pod |-> "absent"]
  /\ clusterCache = cluster /\ stsCache = sts /\ podCache = pods
  /\ clusterStale = FALSE /\ stsStale = FALSE
  /\ rec = Idle
  /\ boot = [p \in Pod |-> Down]
  /\ leader = NoPod
  /\ sqlRuns = 0
  /\ faults = {}

ReconcileStep ==
  \/ Reconcile \/ CreateStatefulSet \/ UpdateStatefulSet \/ MarkInitialized
  \/ LeaveInitialization \/ SetNodes \/ KeepNodes \/ PassFails

PlatformStep(p) == CreatePod(p) \/ RemovePod(p) \/ Elect(p)

BootStep(p) ==
  \/ StartController(p) \/ DatabaseReady(p) \/ RunSystemCommands(p)
  \/ SystemCommandsFail(p) \/ RunUserCommands(p) \/ ReportInitialized(p)

Mishap(p) == LosePod(p) \/ FailOver(p) \/ DatabaseTimesOut(p) \/ CrashController(p)

Next ==
  \/ SyncCluster \/ SyncStatefulSet \/ SyncPods
  \/ ReconcileStep
  \/ \E p \in Pod : PlatformStep(p) \/ BootStep(p) \/ Mishap(p)
  \/ \E n \in Instances : Scale(n)
  \/ CrashOperator

Spec == Init /\ [][Next]_vars

(* Informers catch up, passes follow one another, the platform keeps the    *)
(* pods as the StatefulSet says and one of them as the leader, and the      *)
(* processes go on.  The user and the mishaps owe nothing.                  *)
Fairness ==
  /\ WF_vars(SyncCluster) /\ WF_vars(SyncStatefulSet) /\ WF_vars(SyncPods)
  /\ WF_vars(ReconcileStep)
  /\ \A p \in Pod : WF_vars(PlatformStep(p)) /\ WF_vars(BootStep(p))

FairSpec == Spec /\ Fairness

-----------------------------------------------------------------------------
(* Every variable stays in its set. *)
TypeOK ==
  /\ cluster \in BGCluster /\ clusterCache \in BGCluster
  /\ sts \in StatefulSet /\ stsCache \in StatefulSet
  /\ pods \in [Pod -> PodObject] /\ podCache \in [Pod -> PodObject]
  /\ clusterStale \in BOOLEAN /\ stsStale \in BOOLEAN
  /\ rec \in Reconciler
  /\ boot \in [Pod -> Process]
  /\ leader \in Pod \cup {NoPod}
  /\ sqlRuns \in 0 .. 2
  /\ faults \in Faults

(* A cluster marked initialized (reconcile_statefulsets.go:68-77) has had   *)
(* its bootstrap SQL run exactly once, whatever the caches showed, unless a *)
(* process died, a statement failed, Patroni changed the leader or the      *)
(* cluster was scaled meanwhile.                                            *)
(* One that was asked to have no instances is marked at once, without.      *)
BootstrappedOnce ==
  cluster.initialized =>
    \/ sqlRuns = IF cluster.instances = 0 THEN 0 ELSE 1
    \/ faults \cap {"crash", "failover", "sqlError", "edit"} # {}

(* The operator writes the whole BGCluster from a copy that may lag behind  *)
(* (reconcile_statefulsets.go:77) and undoes nobody's update: the number of *)
(* instances changes only as the user asks, and a cluster once marked       *)
(* initialized stays so.                                                    *)
UpdatesKept ==
  [][/\ cluster.initialized => cluster'.initialized
     /\ cluster'.instances # cluster.instances => "edit" \in faults' \ faults]_vars

(* A cluster is initialized in the end (reconcile_statefulsets.go:44-87),   *)
(* although nothing watches its pods, provided that every pod's report is   *)
(* written.  One that is part of a sharded cluster and has replicas is not  *)
(* (ISSUES.md:5): they cannot run the system commands.                      *)
EventuallyInitialized ==
  <>(\/ cluster.initialized
     \/ cluster.sharded /\ cluster.instances > 1
     \/ "unreported" \in faults)

Observed == cluster.nodes = {p \in Pod : Running(p)}

(* status.nodes comes to name the pods there are (bgcluster_controller      *)
(* .go:69-91) each time it differs, through conflicts, crashes, lost pods   *)
(* and edits, as long as there are any.                                     *)
NodesFollow == []<>(Observed \/ \A p \in Pod : ~Running(p))

-----------------------------------------------------------------------------
(* What the repository says and the code does not do. *)

(* "BGClusterStatus defines the observed state of BGCluster"                *)
(* (bgcluster_types.go:62): status.nodes comes to name the pods there are,  *)
(* also when there are none.                                                *)
NodesObserved == []<>Observed
=============================================================================
