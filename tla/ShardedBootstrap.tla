-------------------------- MODULE ShardedBootstrap --------------------------
(***************************************************************************)
(* How a BGShardedCluster becomes a Citus cluster.  The operator's         *)
(* BGShardedClusterReconciler makes one BGCluster for the coordinator and  *)
(* one for each worker, writes the list of workers on the coordinator, and *)
(* copies there, worker by worker, that a worker is initialized.  The      *)
(* controller process in the coordinator's pod takes the list from the     *)
(* copy of its BGCluster it read when it started, waits for each worker in *)
(* turn, and adds it to the Citus metadata.                                *)
(***************************************************************************)
EXTENDS Integers

CONSTANTS
  MaxShards,    \* the most shards a user asks for
  ShardCounts,  \* the numbers of shards a user asks for
  Template,     \* the BGCluster specs a user may ask for
  Coordinator,  \* the BGCluster named <cluster>-coordinator
  Faults        \* the faults that may happen together, each of them once

Shards(n) == 0 .. (n - 1)
Worker    == Shards(MaxShards)      \* the BGClusters named <cluster>-worker-<i>
Cluster   == Worker \cup {Coordinator}
FaultKind == {"apiError", "crash", "touch", "edit", "timeout", "sqlError"}

ASSUME ShardsAssumption == /\ MaxShards \in Nat
                           /\ ShardCounts \subseteq 0 .. MaxShards
ASSUME CoordinatorAssumption == Coordinator \notin Worker
ASSUME TemplateAssumption == Template # {}
ASSUME FaultAssumption == {} \in Faults /\ Faults \subseteq SUBSET FaultKind

VARIABLES
  (* the API server *)
  sharded,       \* the BGShardedCluster: what is asked for, and its status
  clusters,      \* the BGClusters made for it
  (* the operator process *)
  shardedCache,  \* its informer caches
  cache,
  shardedStale,  \* the cached resourceVersion is behind the server's
  stale,         \* the same for each BGCluster
  queued,        \* the BGShardedCluster is in the work queue
  rec,           \* the one reconcile worker
  (* databases and the controller process of the coordinator's pod *)
  extended,      \* workers whose database has the Citus extension
  nodes,         \* workers in the coordinator's pg_dist_node
  boot,          \* the coordinator's controller process
  reported,      \* its pod is annotated initialized
  faults         \* the faults that have happened

serverVars == <<sharded, clusters>>
cacheVars  == <<shardedCache, cache, shardedStale, stale>>
podVars    == <<extended, nodes, boot, reported>>
vars       == <<serverVars, cacheVars, queued, rec, podVars, faults>>

-----------------------------------------------------------------------------
(***************************************************************************)
(* Objects.  "list" is how many workers the coordinator's worker list      *)
(* names; a list that is missing is read as an empty one.  "seen" are the  *)
(* workers with a "<worker>-initialized" annotation on the coordinator.    *)
(* The status of the BGShardedCluster, once it is there, always says       *)
(* "Ready"; "ready" is how many workers it names.                          *)
(***************************************************************************)
NoStatus == -1
BGShardedCluster == [shards : 0 .. MaxShards, template : Template,
                     ready : NoStatus .. MaxShards]
BGCluster == [exists : BOOLEAN, template : Template, initialized : BOOLEAN,
              list : 0 .. MaxShards, seen : SUBSET Worker]

NewCluster(t) == [exists |-> TRUE, template |-> t, initialized |-> FALSE,
                  list |-> 0, seen |-> {}]
AnyTemplate   == CHOOSE t \in Template : TRUE
NoCluster     == [NewCluster(AnyTemplate) EXCEPT !.exists = FALSE]

(* The reconciler holds the BGShardedCluster it read, and whether that is   *)
(* still the server's; the process holds the list it started with and the   *)
(* annotations it has read since.                                           *)
Reconciler == [pc : {"idle", "coordinator", "list", "worker", "signals", "status"},
               next : 0 .. MaxShards, asked : BGShardedCluster, fresh : BOOLEAN]
Process    == [pc : {"down", "booting", "waiting", "adding", "reporting", "loop"},
               initialized : BOOLEAN, seen : SUBSET Worker,
               size : 0 .. MaxShards, next : 0 .. MaxShards]

Idle == [pc |-> "idle", next |-> 0, fresh |-> FALSE,
         asked |-> [shards |-> 0, template |-> AnyTemplate, ready |-> NoStatus]]
Down == [pc |-> "down", initialized |-> FALSE, seen |-> {}, size |-> 0, next |-> 0]

Fault(kind) == /\ kind \notin faults
               /\ faults' = faults \cup {kind}
               /\ faults' \in Faults

(* An accepted update: one that changes the object outdates the cached copy. *)
WriteCluster(c, object) ==
  /\ clusters' = [clusters EXCEPT ![c] = object]
  /\ stale' = IF object = clusters[c] THEN stale ELSE stale \cup {c}

-----------------------------------------------------------------------------
(* The user applies the BGShardedCluster again, with other numbers. *)
Apply(n, t) ==
  /\ <<n, t>> # <<sharded.shards, sharded.template>>
  /\ Fault("edit")
  /\ sharded' = [sharded EXCEPT !.shards = n, !.template = t]
  /\ shardedStale' = TRUE
  /\ rec' = [rec EXCEPT !.fresh = FALSE]
  /\ UNCHANGED <<clusters, shardedCache, cache, stale, queued, podVars>>

(* Another reconciler writes a part of a BGCluster this module has not got. *)
TouchCluster(c) ==
  /\ clusters[c].exists
  /\ Fault("touch")
  /\ stale' = stale \cup {c}
  /\ UNCHANGED <<serverVars, shardedCache, cache, shardedStale, queued, rec, podVars>>

(***************************************************************************)
(* BGClusterReconciler finds the pods of a BGCluster initialized and says  *)
(* so, from its cached copy.  A worker's pod reports after it has created  *)
(* the extension, the coordinator's when its process gets there.           *)
(***************************************************************************)
PodsInitialized(c) == IF c = Coordinator THEN reported ELSE c \in extended

MarkInitialized(c) ==
  /\ cache[c].exists
  /\ ~cache[c].initialized
  /\ c \notin stale
  /\ PodsInitialized(c)
  /\ WriteCluster(c, [cache[c] EXCEPT !.initialized = TRUE])
  /\ UNCHANGED <<sharded, shardedCache, cache, shardedStale, queued, rec, podVars, faults>>

(* The pod of worker w runs CREATE EXTENSION in its database. *)
ExtendWorker(w) ==
  /\ clusters[w].exists
  /\ w \notin extended
  /\ extended' = extended \cup {w}
  /\ UNCHANGED <<serverVars, cacheVars, queued, rec, nodes, boot, reported, faults>>

-----------------------------------------------------------------------------
(* The informers: both kinds of object are watched, and an event of either  *)
(* queues the BGShardedCluster.                                             *)
SyncSharded ==
  /\ shardedStale
  /\ shardedCache' = sharded
  /\ shardedStale' = FALSE
  /\ queued' = TRUE
  /\ UNCHANGED <<serverVars, cache, stale, rec, podVars, faults>>

SyncCluster(c) ==
  /\ c \in stale
  /\ cache' = [cache EXCEPT ![c] = clusters[c]]
  /\ stale' = stale \ {c}
  /\ queued' = TRUE
  /\ UNCHANGED <<serverVars, shardedCache, shardedStale, rec, podVars, faults>>

-----------------------------------------------------------------------------
(***************************************************************************)
(* BGShardedClusterReconciler.Reconcile.  Each of its steps reads a cached *)
(* BGCluster and may write it back: the two are one action, since nothing  *)
(* that happens between them can change what an accepted update wrote.     *)
(***************************************************************************)
Reconcile ==
  /\ rec.pc = "idle"
  /\ queued
  /\ queued' = FALSE
  /\ rec' = [pc |-> "coordinator", next |-> 0, asked |-> shardedCache,
             fresh |-> ~shardedStale]
  /\ UNCHANGED <<serverVars, cacheVars, podVars, faults>>

(* An error ends the reconcile, and the key goes back to the queue. *)
GiveUp  == rec' = Idle /\ UNCHANGED queued      \* mutant: the error is swallowed
Abandon == rec' = Idle /\ queued' = TRUE

(* After a write: on to the next step, unless the reply was lost. *)
Continue(step) ==
  \/ rec' = step /\ UNCHANGED <<queued, faults>>
  \/ Abandon /\ Fault("apiError")

Goto(pc) == [rec EXCEPT !.pc = pc]

(* reconcileBGCluster, for the coordinator and then for each worker. *)
CurrentCluster == IF rec.pc = "coordinator" THEN Coordinator ELSE rec.next

AfterCluster ==
  IF rec.pc = "coordinator" THEN Goto("list") ELSE [rec EXCEPT !.next = @ + 1]

AtCluster == rec.pc = "coordinator" \/ (rec.pc = "worker" /\ rec.next < rec.asked.shards)

UpToDate(c) == cache[c].exists /\ cache[c].template = rec.asked.template

CreateCluster ==
  /\ AtCluster
  /\ LET c == CurrentCluster
     IN  /\ ~cache[c].exists
         /\ ~clusters[c].exists
         /\ WriteCluster(c, NewCluster(rec.asked.template))
  /\ Continue(AfterCluster)
  /\ UNCHANGED <<sharded, shardedCache, cache, shardedStale, podVars>>

UpdateCluster ==
  /\ AtCluster
  /\ LET c == CurrentCluster
     IN  /\ cache[c].exists /\ ~UpToDate(c)
         /\ c \notin stale
         /\ WriteCluster(c, [cache[c] EXCEPT !.template = rec.asked.template])
  /\ Continue(AfterCluster)
  /\ UNCHANGED <<sharded, shardedCache, cache, shardedStale, podVars>>

KeepCluster ==
  /\ AtCluster
  /\ UpToDate(CurrentCluster)
  /\ rec' = AfterCluster
  /\ UNCHANGED <<serverVars, cacheVars, queued, podVars, faults>>

(* updateWorkerListAnnotation: always an update, even of the same list. *)
ListUnconditional == cache[Coordinator].exists   \* mutant: no resourceVersion
ListAccepted == cache[Coordinator].exists /\ Coordinator \notin stale

SetWorkerList ==
  /\ rec.pc = "list"
  /\ ListAccepted
  /\ WriteCluster(Coordinator, [cache[Coordinator] EXCEPT !.list = rec.asked.shards])
  /\ Continue([rec EXCEPT !.pc = "worker", !.next = 0])
  /\ UNCHANGED <<sharded, shardedCache, cache, shardedStale, podVars>>

(***************************************************************************)
(* updateCoordinatorAnnotations: an update only when some worker is newly  *)
(* seen.  It needs every worker asked for to be in the cache.              *)
(***************************************************************************)
LastMissed == cache[Coordinator].seen         \* mutant: off by one
                \cup {w \in Shards(rec.asked.shards - 1) : cache[w].initialized}
WorkersSeen == cache[Coordinator].seen
                 \cup {w \in Shards(rec.asked.shards) : cache[w].initialized}

SignalsReadable == /\ cache[Coordinator].exists
                   /\ \A w \in Shards(rec.asked.shards) : cache[w].exists

AtSignals == rec.pc = "worker" /\ rec.next = rec.asked.shards

CopySignals ==
  /\ AtSignals
  /\ SignalsReadable
  /\ \/ /\ WorkersSeen = cache[Coordinator].seen
        /\ rec' = Goto("status")
        /\ UNCHANGED <<clusters, stale, queued, faults>>
     \/ /\ WorkersSeen # cache[Coordinator].seen
        /\ Coordinator \notin stale
        /\ WriteCluster(Coordinator, [cache[Coordinator] EXCEPT !.seen = WorkersSeen])
        /\ Continue(Goto("status"))
  /\ UNCHANGED <<sharded, shardedCache, cache, shardedStale, podVars>>

(* updateStatus, with the BGShardedCluster read at the start. *)
SetStatus ==
  /\ rec.pc = "status"
  /\ \/ /\ rec.asked.ready = rec.asked.shards
        /\ rec' = Idle
        /\ UNCHANGED <<sharded, shardedStale, queued, faults>>
     \/ /\ rec.asked.ready # rec.asked.shards
        /\ rec.fresh
        /\ sharded' = [sharded EXCEPT !.ready = rec.asked.shards]
        /\ shardedStale' = TRUE
        /\ Continue(Idle)
  /\ UNCHANGED <<clusters, shardedCache, cache, stale, podVars>>

(***************************************************************************)
(* A step that ends in an error and writes nothing: an object that the     *)
(* cache has not got yet, a conflict, or the API server's own trouble.     *)
(***************************************************************************)
Refused ==
  \/ /\ AtCluster
     /\ LET c == CurrentCluster
        IN  IF cache[c].exists THEN ~UpToDate(c) /\ c \in stale
                               ELSE clusters[c].exists
  \/ rec.pc = "list" /\ ~ListAccepted
  \/ AtSignals /\ ~SignalsReadable
  \/ /\ AtSignals /\ SignalsReadable
     /\ WorkersSeen # cache[Coordinator].seen
     /\ Coordinator \in stale
  \/ rec.pc = "status" /\ rec.asked.ready # rec.asked.shards /\ ~rec.fresh

StepRefused ==
  /\ rec.pc # "idle"
  /\ \/ Refused /\ UNCHANGED faults
     \/ Fault("apiError")
  /\ Abandon
  /\ UNCHANGED <<serverVars, cacheVars, podVars>>

(* The operator dies and starts again: fresh caches, everything queued. *)
CrashOperator ==
  /\ Fault("crash")
  /\ shardedCache' = sharded
  /\ cache' = clusters
  /\ shardedStale' = FALSE
  /\ stale' = {}
  /\ queued' = TRUE
  /\ rec' = Idle
  /\ UNCHANGED <<serverVars, podVars>>

-----------------------------------------------------------------------------
(***************************************************************************)
(* The controller process of the coordinator's pod, which                  *)
(* BGClusterReconciler makes as soon as the coordinator's BGCluster is     *)
(* there: RunController, then bootstrapCoordinatorNode.                    *)
(***************************************************************************)
OnlyPod == UNCHANGED <<serverVars, cacheVars, queued, rec, extended>>

StartBoot ==
  /\ boot.pc = "down"
  /\ clusters[Coordinator].exists
  /\ LET seen == clusters[Coordinator]
     IN  boot' = [Down EXCEPT !.pc = "booting", !.initialized = seen.initialized,
                              !.seen = seen.seen, !.size = seen.list]
  /\ OnlyPod
  /\ UNCHANGED <<nodes, reported, faults>>

(* An initialized coordinator is not bootstrapped again. *)
SkipBoot ==
  /\ boot.pc = "booting"
  /\ boot.initialized
  /\ boot' = [boot EXCEPT !.pc = "loop"]
  /\ OnlyPod
  /\ UNCHANGED <<nodes, reported, faults>>

(* The system commands; when they fail the process exits. *)
RunSystemCommands ==
  /\ boot.pc = "booting"
  /\ ~boot.initialized
  /\ \/ boot' = [boot EXCEPT !.pc = "waiting"] /\ UNCHANGED faults
     \/ boot' = Down /\ Fault("sqlError")
  /\ OnlyPod
  /\ UNCHANGED <<nodes, reported>>

(***************************************************************************)
(* waitForInitilizatedAnnotation for the next worker of the list.  It      *)
(* refreshes the process's copy, which only ever gains annotations (see    *)
(* Decoded in DbOps), and returns when the worker has been seen or, after  *)
(* two minutes, with an error that the caller ignores.                     *)
(***************************************************************************)
NotRefreshed == boot.next \in boot.seen       \* mutant: looks at the old copy
NextWorkerSeen == boot.next \in boot.seen \cup clusters[Coordinator].seen

OneTooMany  == boot.next <= boot.size         \* mutant: off by one
MoreWorkers == boot.next < boot.size

Refreshed(pc) == [boot EXCEPT !.pc = pc, !.seen = @ \cup clusters[Coordinator].seen]

AwaitWorker ==
  /\ boot.pc = "waiting"
  /\ MoreWorkers
  /\ NextWorkerSeen
  /\ boot' = Refreshed("adding")
  /\ OnlyPod
  /\ UNCHANGED <<nodes, reported, faults>>

WaitsForEver == FALSE                         \* mutant: no deadline
GivesUp == boot.pc = "waiting" /\ MoreWorkers /\ ~NextWorkerSeen

WaitTimesOut ==
  /\ GivesUp
  /\ faults' = faults \cup {"timeout"}        \* as often as there is a wait
  /\ faults' \in Faults
  /\ boot' = Refreshed("adding")
  /\ OnlyPod
  /\ UNCHANGED <<nodes, reported>>

(* citus_add_node fails without the extension on the other side; either     *)
(* way the bootstrap goes on with the next worker.                          *)
AddWorker ==
  /\ boot.pc = "adding"
  /\ \/ boot.next \in extended /\ nodes' = nodes \cup {boot.next} /\ UNCHANGED faults
     \/ boot.next \notin extended /\ UNCHANGED <<nodes, faults>>
     \/ Fault("sqlError") /\ UNCHANGED nodes
  /\ boot' = [boot EXCEPT !.pc = "waiting", !.next = @ + 1]
  /\ OnlyPod
  /\ UNCHANGED reported

WaitSkipped == boot.pc = "waiting"            \* mutant: the loop is left early
AllAwaited == boot.pc = "waiting" /\ ~MoreWorkers

FinishWorkers ==
  /\ AllAwaited
  /\ boot' = [boot EXCEPT !.pc = "reporting"]
  /\ OnlyPod
  /\ UNCHANGED <<nodes, reported, faults>>

(* The user's own SQL, whose failure is logged, and the pod's annotation. *)
ReportInitialized ==
  /\ boot.pc = "reporting"
  /\ \/ reported' = TRUE /\ UNCHANGED faults
     \/ Fault("apiError") /\ UNCHANGED reported
  /\ boot' = [boot EXCEPT !.pc = "loop"]
  /\ OnlyPod
  /\ UNCHANGED nodes

CrashController ==
  /\ boot.pc # "down"
  /\ Fault("crash")
  /\ boot' = Down
  /\ OnlyPod
  /\ UNCHANGED <<nodes, reported>>

-----------------------------------------------------------------------------
(* Templates are alike, so which of them comes first does not matter. *)
Init ==
  /\ sharded \in [shards : ShardCounts, template : {AnyTemplate}, ready : {NoStatus}]
  /\ clusters = [c \in Cluster |-> NoCluster]
  /\ shardedCache = sharded
  /\ cache = clusters
  /\ shardedStale = FALSE
  /\ stale = {}
  /\ queued = TRUE
  /\ rec = Idle
  /\ extended = {}
  /\ nodes = {}
  /\ boot = Down
  /\ reported = FALSE
  /\ faults = {}

ReconcileStep ==
  \/ CreateCluster \/ UpdateCluster \/ KeepCluster \/ SetWorkerList
  \/ CopySignals \/ SetStatus \/ StepRefused

Sync == SyncSharded \/ \E c \in Cluster : SyncCluster(c)

OperatorStep ==
  \/ Sync \/ Reconcile \/ ReconcileStep
  \/ \E c \in Cluster : MarkInitialized(c)

BootStep ==
  \/ StartBoot \/ SkipBoot \/ RunSystemCommands \/ AwaitWorker \/ AddWorker
  \/ FinishWorkers \/ ReportInitialized

Disturbance ==
  \/ \E n \in ShardCounts, t \in Template : Apply(n, t)
  \/ \E c \in Cluster : TouchCluster(c)
  \/ CrashOperator \/ CrashController

Next ==
  \/ OperatorStep
  \/ BootStep
  \/ WaitTimesOut
  \/ \E w \in Worker : ExtendWorker(w)
  \/ Disturbance

Spec == Init /\ [][Next]_vars

(***************************************************************************)
(* Informers catch up, the reconcile worker takes what is queued and goes  *)
(* on with it, a worker's pod boots, and so does the coordinator's, whose  *)
(* wait does not last for ever.  The users and the faults owe nothing.     *)
(***************************************************************************)
Fairness ==
  /\ WF_vars(Sync)
  /\ WF_vars(Reconcile \/ ReconcileStep)
  /\ WF_vars(\E c \in Cluster : MarkInitialized(c))
  /\ WF_vars(\E w \in Worker : ExtendWorker(w))
  /\ WF_vars(BootStep) /\ WF_vars(WaitTimesOut)

FairSpec == Spec /\ Fairness

-----------------------------------------------------------------------------
(* Every variable stays in its set: no index leaves the list it runs over. *)
TypeOK ==
  /\ sharded \in BGShardedCluster
  /\ clusters \in [Cluster -> BGCluster]
  /\ shardedCache \in BGShardedCluster
  /\ cache \in [Cluster -> BGCluster]
  /\ shardedStale \in BOOLEAN
  /\ stale \subseteq Cluster
  /\ queued \in BOOLEAN
  /\ rec \in Reconciler
  /\ extended \subseteq Worker
  /\ nodes \subseteq Worker
  /\ boot \in Process
  /\ reported \in BOOLEAN
  /\ faults \in Faults

(* Whatever the caches show the reconciler, what the objects say of the     *)
(* workers only ever grows, and a worker is signalled to the coordinator    *)
(* only when it is initialized (reconcile_bgcluster.go:163-182).            *)
Membership == INSTANCE CitusMembership WITH
                ready     <- {w \in Worker : clusters[w].initialized},
                signalled <- clusters[Coordinator].seen,
                joined    <- nodes,
                finished  <- clusters[Coordinator].initialized
MembershipSpec == Membership!Spec

(* A coordinator process that has been through its list of workers          *)
(* (bootstrap.go:206-220) has added every one of them, unless a wait ran    *)
(* out or a statement failed: a signal never comes before the extension.    *)
JoinedUnlessFault ==
  boot.pc \in {"reporting", "loop"} /\ ~boot.initialized
    => \/ Shards(boot.size) \subseteq nodes
       \/ faults \cap {"timeout", "sqlError"} # {}

(* The reconciler has nothing left to do: no key in its queue, no change on *)
(* its way to a cache, no pass under way.                                   *)
AtRest == ~queued /\ ~shardedStale /\ stale = {} /\ rec.pc = "idle"

(* Every BGCluster is there and as asked, the worker list and the status    *)
(* are right, and every initialized worker is signalled.                    *)
AsAsked ==
  /\ sharded.ready = sharded.shards
  /\ clusters[Coordinator].list = sharded.shards
  /\ \A c \in Shards(sharded.shards) \cup {Coordinator} :
       clusters[c].exists /\ clusters[c].template = sharded.template
  /\ \A w \in Shards(sharded.shards) :
       clusters[w].initialized => w \in clusters[Coordinator].seen

(* It rests only when all is done that it was asked: whatever mix of old    *)
(* and new objects its passes saw (reconcile_bgcluster.go:22-60), whatever  *)
(* was refused, lost or edited on the way, no change goes unnoticed and no  *)
(* error is dropped.                                                        *)
RestMeansDone == AtRest => AsAsked

(* A worker that is initialized is signalled to the coordinator in the end  *)
(* (reconcile_bgcluster.go:45), unless the user takes the shard away.       *)
SignalArrives ==
  \A w \in Worker :
    clusters[w].initialized /\ w < sharded.shards
      ~> (w \in clusters[Coordinator].seen \/ w >= sharded.shards)

(* The coordinator is marked initialized in the end: the wait for workers   *)
(* that wait for nobody cannot block it (bootstrap.go:213).                 *)
CoordinatorFinishes ==
  clusters[Coordinator].exists ~> clusters[Coordinator].initialized

(* When the user has made the last edit, the objects come to say what the   *)
(* BGShardedCluster asks for and stay that way (bgshardedcluster_controller *)
(* .go:27-72), whatever conflicts, crashes and lost replies did before.     *)
Converges ==
  <>[](/\ sharded.ready = sharded.shards
       /\ clusters[Coordinator].list = sharded.shards
       /\ \A c \in Shards(sharded.shards) \cup {Coordinator} :
            clusters[c].exists /\ clusters[c].template = sharded.template)

(* "coordinator adds workers to citus as they report via annotations"       *)
(* (README.md:55): a worker in the coordinator's list, once it has          *)
(* reported, is added.                                                      *)
ReportedGetsAdded ==
  \A w \in Worker :
    w \in clusters[Coordinator].seen /\ w < boot.size ~> w \in nodes
=============================================================================
