# Bestgres in TLA+

Bestgres is a Kubernetes operator for PostgreSQL clusters run by Patroni. One
Go binary has three modes: `operator` (the reconcilers), `controller` (PID 1 of
every database pod) and `init` (copies the binary into the pod). The parts
never talk to each other. Everything they say passes through objects of the
Kubernetes API server, mostly through annotations, and what one part reads may
be out of date when it acts on it. That is what these modules are about.

Paths below are relative to `src/go/`.

## 1. The system

| Component | State it keeps | Operations | Talks to |
|---|---|---|---|
| **BGDbOpsReconciler** (`controllers/reconcile_bgdbops.go`) | none of its own: annotations of the BGCluster and of the BGDbOps | post an operation; when all pods report, clear it and mark it completed | BGCluster, BGDbOps, pods, read through informer caches |
| **Controller process** (`cmd/controller/controller.go`) | its copy of the BGCluster, the `completed` annotation of its pod | boot, loop, restart its pod, run a placeholder operation, report | API server directly |
| **Pod bootstrap** (`cmd/controller/bootstrap.go`) | `initialized` annotation of its pod, the database | SQL for a standalone cluster, a worker, a coordinator; waits for workers | API server, psql, Patroni |
| **BGCluster initialization** (`controllers/reconcile_statefulsets.go`) | `initialized` annotation of the BGCluster | create and update the StatefulSet, count initialized pods | StatefulSet and pod caches |
| **BGClusterReconciler** (`controllers/bgcluster_controller.go`) | services, secret, config maps, RBAC objects, `status.nodes` | create or update each in a fixed order | API server, caches |
| **BGShardedClusterReconciler** (`controllers/reconcile_bgcluster.go`) | coordinator and worker BGClusters; the `worker-list` annotation | create, annotate | BGClusters |
| **BGShardedDbOpsReconciler** (`controllers/reconcile_bgshardeddbops.go`) | one child BGDbOps per cluster | create the children | BGDbOps |
| **SQL and command retries** (`cmd/controller/helpers.go`) | none | run, classify the error, wait, repeat | psql, patronictl |
| **Start-up** (`cmd/main.go`, `cmd/operator`, `cmd/controller/init.go`) | none | wiring, copying a file | |

### How they interact

*A restart.* A user applies a BGDbOps. The reconciler writes it into the
annotations of the BGCluster (`pending`, `op`, `spec`, `in-progress`: always
together). The controller in each pod reads the BGCluster every two seconds. It
sees the posting, deletes its own pod, and says on the dying pod that it has
completed. The StatefulSet brings the pod back without annotations; the new
process finds the posting still there, and because the cluster is initialized
it reports the restart on the new pod instead of restarting again. Its loop then
marks the BGDbOps. When all pods listed carry the report, the reconciler deletes
the posting and, in a second update, marks the BGDbOps completed. A pod that is not listed, because it
does not exist yet or is being replaced, is not waited for.

*Initialization.* A pod that finds a BGCluster without the `initialized`
annotation runs the bootstrap of its role and annotates itself. BGClusterReconciler
counts those pods and annotates the BGCluster. A coordinator waits for its
workers to be initialized before it adds them to Citus.

### What is hard here

- Informer caches lag, each by its own delay; a reconcile mixes a fresh read of one
  object with an old one of another.
- Updates carry a resourceVersion: those made from an old copy are refused,
  and what was done before the refusal stays done.
- A reply may be lost after the write happened.
- A process may die between two writes. The operator then starts with fresh
  caches; a controller starts again in the same pod, annotations included.
- Only BGDbOps objects wake the BGDbOps reconciler; pods do not. Config maps do not wake
  BGClusterReconciler, and children do not wake BGShardedDbOpsReconciler.
- controller-runtime 0.18 does not recover a panic in a reconciler.
- `refreshContext` reads into the object it already holds. The decoder
  adds and overwrites keys of an existing map but removes none.

### What makes each component correct

- BGDbOps protocol: completed means every pod that was listed acted; a pod restarts once for one
  posting; a restart ends; no report is lost to a concurrent write; only operations
  that were posted are marked; a request is posted or stays in the operator's sight.
- Initialization: a cluster is initialized when all its pods are, and stays so; the
  operator's writes undo nobody's update.
- Sharded bootstrap: a coordinator that went through its list has added its workers; what one
  writer says of a worker is neither too early nor lost to another; the reconciler rests only when
  all is done, and the objects converge.
- Owned resources: passes follow one another as long as there is a BGCluster; the objects come to
  be in order, whatever was done to them; the pods of a cluster share its credentials; what others
  write is not undone; a deleted cluster leaves nothing behind.
- Sharded operations: no request is dropped, every cluster is served, progress is real, and what
  happened to a child is not undone.

`PROJECT.json` lists the hazards one by one, each at its line, with the
properties that would notice.

## 2. Modules

| Module | What it is |
|---|---|
| `DbOps` | the BGDbOps protocol of one BGCluster: the API server, the operator with its caches, the controller in every pod, the platform, and faults |
| `DbOpsHistory` | the same with history variables, and the properties that need them |
| `OpLedger` | abstract specification: what may ever happen to the BGDbOps objects and to `initialized` |
| `ShardedBootstrap` | from a BGShardedCluster to a Citus cluster: the sharded reconciler with its caches, what BGClusterReconciler and the workers' pods contribute, and the controller process of the coordinator's pod |
| `CitusMembership` | abstract specification: how a worker gets its extension, becomes ready, is signalled and joins |
| `ClusterInit` | one BGCluster from nothing to initialized: BGClusterReconciler, the StatefulSet controller, Patroni's choice of a leader, the bootstrap in every pod |
| `OwnedResources` | one pass of BGClusterReconciler after another over the services, StatefulSet, config maps, secret, service account, role and binding; Patroni's writes, the pods' passwords, the user, garbage collection |
| `ShardedDbOps` | the fan-out of a BGShardedDbOps to one BGDbOps for each cluster |
| `DbOpsProofs`, `DbOpsHistoryProofs`, `ShardedBootstrapProofs`, `ClusterInitProofs`, `OwnedResourcesProofs`, `ShardedDbOpsProofs` | theorems, with proofs |
| `MCDbOpsHistory`, `MCShardedBootstrap`, `MCClusterInit`, `MCOwnedResources`, `MCShardedDbOps` | constants for TLC |

The detailed modules look at the same objects from different sides. In each,
what another is about is a single step: `DbOps` has a boot that takes a while
and then ends, `ShardedBootstrap` a `MarkInitialized` that asks whether the
pods have reported, `ShardedDbOps` a `FinishChild`, `ClusterInit` no operations at all.

`DbOps` and `ShardedDbOps` meet at `OpLedger`. The one shows that the protocol in a
cluster implements it; the other, that towards each cluster the fan-out only does what
`OpLedger` allows a user to do: it opens entries and never touches one that is there.

### DbOps: state

| Variable | Code |
|---|---|
| `dbops` | BGDbOps objects on the server: `marks` are the pods whose `bgcluster.bestgres.io/<pod>` annotation is there, `completed` is `bgdbops.bestgres.io/completed` |
| `cluster` | annotations of the BGCluster: `initialized`, and the four annotations of a posting as one field `posted` |
| `pods` | each pod's phase and its `completed` annotation |
| `ctl` | each controller process: where it is, its copy `snap` of the BGCluster, the BGDbOps it `held` between `Get` and `Update` |
| `dbopsCache`, `clusterCache`, `podCache` | the operator's informer caches |
| `staleOps`, `clusterStale`, `fresh`, `opFresh`, `clusterFresh` | whether the resourceVersion of a copy is still the server's |
| `queue`, `rec` | the work queue of the BGDbOps controller and its single worker |
| `left` | faults that may still occur |

A resourceVersion is never compared with anything but the server's, so one bit
per copy stands for it. A write that changes an object clears the bit of every
other copy; a write that changes nothing does not, as on the real server.

### DbOps: actions

| Action | Code |
|---|---|
| `Reconcile` | `Reconcile` up to its first update: the reads, the early returns, `AllCompleted` |
| `ClearCluster`, `CompleteOp`, `PostOp` | its three updates, each accepted, or accepted with the reply lost |
| `UpdateRefused` | any of them answered by a conflict or an error, nothing written, the key put back |
| `Panic` | the assignment into a nil map |
| `StartController`, `FinishBoot` | `getResources`, and the bootstrap functions as far as operations go |
| `Refresh`, `CleanUp` | one turn of `reconciliationLoop` |
| `DeletePod`, `ReadDbOps`, `MarkDbOps`, `MarkRefused` | `handleRestart`, one action per call |
| `HandlePlaceholder`, `Report` | the other operations; the end of `handleBgDbOps` |
| `MarkInitialized`, `TouchCluster` | what the other reconcilers write to the BGCluster |
| `SyncDbOps`, `SyncCluster`, `SyncPods`, `Resync` | informers; `SyncDbOps` also queues what moved |
| `CrashOperator`, `CrashController` | a process dies and is started again |
| `RemovePod`, `CreatePod`, `EvictPod` | kubelet and StatefulSet controller; an eviction, a drained node or a user deleting a pod |

### ShardedBootstrap: state

| Variable | Code |
|---|---|
| `sharded` | the BGShardedCluster: `spec.shards`, the rest of its spec as `template`, and how many workers its status names (`ready`) |
| `clusters` | the BGClusters `<cluster>-coordinator` and `<cluster>-worker-<i>`: `template` is the spec, `initialized` the annotation, and on the coordinator `list` is the length of `worker-list`, `seen` the workers with a `<worker>-initialized` annotation |
| `shardedCache`, `cache`, `shardedStale`, `stale` | informer caches, and whether their resourceVersion is behind |
| `queued`, `rec` | the work queue's one key, and the worker |
| `extended`, `nodes` | in the databases: workers with the extension, rows of `pg_dist_node` |
| `boot`, `reported` | the coordinator's controller process with the copy it started from; its pod's annotation |
| `faults` | the kinds of fault that have happened |

### ShardedBootstrap: actions

| Action | Code |
|---|---|
| `Reconcile`, `CreateCluster`, `UpdateCluster`, `KeepCluster` | `Reconcile`, `reconcileBGCluster` for the coordinator and then each worker |
| `SetWorkerList`, `CopySignals`, `SetStatus` | `updateWorkerListAnnotation`, `updateCoordinatorAnnotations`, `updateStatus` |
| `StepRefused` | any of these answered by a conflict or an error |
| `MarkInitialized`, `TouchCluster` | BGClusterReconciler's and other writers' part of a BGCluster |
| `StartBoot`, `SkipBoot`, `RunSystemCommands` | `RunController` and `bootstrapCoordinatorNode` up to its loop |
| `AwaitWorker`, `WaitTimesOut`, `AddWorker`, `FinishWorkers`, `ReportInitialized` | the loop over the workers, `waitForInitilizatedAnnotation`, `citus_add_node`, the end |
| `ExtendWorker` | `bootstrapWorkerNode` |
| `SyncSharded`, `SyncCluster`, `CrashOperator`, `CrashController`, `Apply` | informers, restarts, the user |

### ClusterInit: state and actions

`cluster`, `sts` and `pods` are the server's objects; `clusterCache`, `stsCache`,
`podCache` the operator's copies; `rec` the pass in progress; `boot` the controller process
of each pod; `leader` is Patroni's; `sqlRuns` counts how often the user's bootstrap
SQL has run (two stands for more).

| Action | Code |
|---|---|
| `Reconcile`, `CreateStatefulSet`, `UpdateStatefulSet` | the start of a pass and `reconcileStatefulSet` |
| `MarkInitialized`, `LeaveInitialization` | `reconcileBGClusterInitialization` |
| `SetNodes`, `KeepNodes` | the end of the pass: `status.nodes` from the pods listed |
| `PassFails` | a pass that ends with an error, at any step; among the errors the refusal of an empty list of nodes, which `getPodNames` returns as a nil slice |
| `StartController`, `DatabaseReady`, `DatabaseTimesOut` | `RunController`, `waitForDatabase` |
| `RunSystemCommands`, `SystemCommandsFail`, `RunUserCommands`, `ReportInitialized` | the three bootstrap functions |
| `CreatePod`, `RemovePod`, `LosePod` | the StatefulSet controller; a pod that is evicted or whose node is gone |
| `Elect`, `FailOver` | Patroni: a leader where there is none, or another one while the old one's process runs on |
| `CrashController`, `CrashOperator`, `Scale` | failures, the user |

### OwnedResources: state and actions

`objs` are the objects on the server: whether they are there, whether they have the BGCluster for
their owner, and their `data`: for the secret which passwords, for Patroni's config maps how often
Patroni wrote them, for the others whether they are as the reconciler wants them.
`cache` and `stale` are the operator's copies, `events` the stale objects whose change will
wake the reconciler, `queued` the work queue's one key, `rec` the pass, `pods` the
passwords each container started with, `alive` and `clusterSeen` the BGCluster and
whether the cache has it. `missed` remembers that a pass took the secret for absent while it was there.

| Action | Code |
|---|---|
| `Begin` | the start of a pass, which ends at once if the cache has no BGCluster |
| `Create`, `UpdatePlain` | the three services, role, binding and StatefulSet, and creating the service account and Spilo's config map: one object with its owner, created, or written over at the version read |
| `UpdateSpilo` | `reconcileSpiloConfigMap` when the contents differ |
| `OwnMap`, `Retry` | `reconcileConfigMaps`: Patroni's config maps get their owner; a conflict is tried again |
| `Skip` | a step that finds nothing to do |
| `ReadSecret`, `GeneratePasswords`, `WriteSecret`, `OwnSecret`, `Panic` | `reconcileSecret`: its read, the passwords it generates, its two writes, and the nil map of a secret without data |
| `PassFails` | a conflict or an error at any step; the key is put back |
| `Sync`, `SyncCluster`, `Wake`, `CrashOperator` | informers and what they wake; the operator's restart |
| `StartContainer`, `StopContainer`, `PatroniWrites` | kubelet and Patroni |
| `Edit`, `DeleteCluster`, `CollectGarbage` | the user, Kubernetes |

### ShardedDbOps: state and actions

`ops` are the BGShardedDbOps, `children` the BGDbOps named after them and a cluster, `listed`
how many clusters the BGShardedCluster's status names; `opsCache`, `listedCache`, `staleOps` the
operator's copies; `queue` and `rec` the reconciler.

| Action | Code |
|---|---|
| `Reconcile` | `Reconcile` up to its first child: both reads |
| `CreateChild` | `createBGDbOps`, for the coordinator and then each worker; a child that exists is no error |
| `NoteProgress` | the status update at the end |
| `PassFails` | any error: a status that names no coordinator, a conflict, a failed call |
| `CreateOp`, `DeleteOp`, `DeleteChild`, `PublishStatus`, `FinishChild` | the user, BGShardedClusterReconciler, the protocol in a cluster |
| `SyncOp`, `SyncListed`, `Resync`, `CrashOperator` | informers, restart |

### Abstractions

In all modules:

- A resourceVersion is one bit per copy, as above.
- `Get` from a cache followed by `Update` is one step where nothing read in between
  is used: an accepted update shows that the object did not change. `DbOps` keeps the
  two apart, because its reconciler reads several objects and then writes two.
- Watch events of one kind arrive together. Repeated events and the periodic resync may
  queue any cached object at any time, so finer delivery adds nothing to what
  the worker can be given.
- A lost reply, a refusal and a server error are one kind of fault (`apiError`): what they
  have in common is that the caller sees an error, and the models have the write done or not.

`DbOps`:

- Databases, SQL and Patroni are absent: booting takes a while and then ends.
- `updateAnnotation` and `deleteAnnotation` on a pod (a `Get` and an `Update`)
  are one step, since nobody else writes that annotation; a conflict
  with the kubelet's own writes is an API error.
- A process sees only the operation posted; `op` and `spec` of the BGDbOps are
  never edited by the user in the model.
- `Decoded` is the JSON decoder's merge into the existing object.
- A terminating pod is listed until it is removed, and its process may run on.
- The number of pods is fixed, but any of them may be missing at first and be created at any time: the
  StatefulSet is still growing, whether or not the cluster is initialized. A pod goes because its process had it deleted or because somebody else did. The
  reconciler counts a pod that is not listed as done, for whatever reason it is missing
  (`reconcile_bgdbops.go:57-68`). So an operation that is applied while the pods are being created, or while
  one of them is away, may complete without those, and if none is listed without being posted at all. No document
  says otherwise; `CompletedMeansActed` and `CompletedMeansPosted` single these pods out (`unlisted`).

`ShardedBootstrap`:

- A statement succeeds or fails; only `CREATE EXTENSION` and `citus_add_node` are told apart,
  and the second needs the first on the other side. `bootstrap.go:184` makes the
  coordinator known under a name no object has; the model has the outcome that statement
  is written for, and leaves the name out.
- The coordinator has one pod and each worker is one database; replicas do not work in
  sharded clusters (`ISSUES.md:5`), which `ClusterInit` shows.
- Numbers of shards are not negative, though the CRD sets no minimum
  (`api/v1/bgshardedcluster_types.go`): the code would panic at once on the length of a slice
  (`reconcile_bgcluster.go:108`), and there would be nothing to model after it.
- The pod itself is not deleted, and neither is the BGShardedCluster. A worker that is no longer
  asked for stays, as in the code.

`ClusterInit`:

- Services, secret, config maps and RBAC objects may fail the pass and do nothing else to it: what they
  are is in `OwnedResources`.
- There is no work queue: each pass writes the cluster's secret, first without and then
  with its owner (`reconcile_secrets.go:58`, `:83`), and the reconciler watches secrets, so a pass is always
  the cause of another one.
- `sqlRuns` is not a variable of the code. It stands for what the user's SQL did to the database.


`OwnedResources`:

- The three passwords are one value: they are generated and written together. Newly
  generated ones are only known to differ from those that are there, which is all the
  properties ask of them.
- Patroni's writes are bounded by `MaxBeats`. Without a bound Patroni could write at each
  of the five tries of every pass and the config map never get its owner; nothing in the code excludes it.
- Reads from a cache do not fail. A read that failed would make `reconcileSecret` generate passwords, as a
  cache without the secret does; `GeneratePasswords` is that step.
- Garbage collection takes all owned objects at once, and the BGCluster is not created anew
  under its name: owners are compared by name (`utils.go:55`), not by UID.
- `status.nodes` and the marking of the BGCluster are in `ClusterInit`.
- The pods' containers need the StatefulSet, the service account, the secret and Spilo's config map
  (`reconcile_statefulsets.go:186`). A container that runs keeps the passwords it started with.

`ShardedDbOps`:

- What an operation asks for is its kind; the other fields are copied along with it.
- Children have no owner in the code, so deleting an operation leaves them, and an operation
  created again under the same name finds them. `ProgressIsReal` has to allow for that.

## 3. Runs

| Run | Instance | Question | Answer |
|---|---|---|---|
| `DbOps_restart` | 1 restart, 2 pods of which any may be missing at first, no annotations to begin with, initialized | types; completed means every pod listed acted; one restart per posting; refinement of `OpLedger` | holds |
| `DbOps_two` | a restart and a placeholder operation at once, without annotations, 1 pod, not initialized to begin with; API error | no request is lost; one restart per posting; refinement | holds |
| `DbOps_live` | a restart and a placeholder operation, asked for one at a time, 1 pod; one fault: crash, eviction, API error or deletion of the BGDbOps; fair | completed means the pod, if listed, acted; each completes; restarts stop | holds |
| `DbOps_second` | 2 restarts, 1 pod | an operation completed while all pods are listed was posted | **violated** |
| `Sharded_faults` | 1 or 2 shards, 2 templates; a conflict and one more fault of any kind | types; every worker joined unless a wait or a statement failed; rests only when done; refinement of `CitusMembership` | holds |
| `Sharded_live` | 0 or 1 shard; a crash, an edit, waits that run out; fair | signals arrive; the coordinator finishes; the objects converge | holds |
| `Sharded_timeout` | 2 shards; only the wait may run out; fair | a worker that reports is added | **violated** |
| `Cluster_init` | up to 2 instances, standalone or part of a sharded cluster; no fault, or one of any kind; fair | types; the SQL has run once; no update is undone; initialized in the end; the status follows the pods as long as there are any | holds |
| `Cluster_zero` | 0 or 1 instance, scaled once; fair | the status comes to name the pods there are, also when there are none | **violated** |
| `Owned_cluster` | one object of each kind (StatefulSet, Spilo's config map, one of Patroni's, secret), 1 pod; one fault of any kind; fair | types; the secret has its owner at rest; pods share its passwords; Patroni loses nothing; passes follow one another; the objects come to be in order; a deleted BGCluster takes them along | holds |
| `Owned_passwords` | StatefulSet and secret, no fault | the passwords of a secret that exists are not replaced | **violated** |
| `ShardedOps` | 1 BGShardedDbOps of 2 kinds, up to 2 workers; any two faults; fair | types; no request is dropped; an operation in progress has a child in every cluster; the fan-out respects each cluster's ledger; every cluster is served | holds |

What the exemptions in these properties say:

- `CompletedMeansActed` exempts pods that the list did not show by which the operation was found
  completed: pods not yet created, and pods that are away, whoever had them deleted. It exempts failed API calls
  where restarts are asked for: `deletePod`
  swallows its error (`helpers.go:76`), and the pod reports the restart all the same. For placeholder
  operations it holds with failed calls too. With several operations it says that a pod acted since
  *some* operation was posted; which one, no annotation says, and `DbOps_second` shows a restart
  completed on the reports of another.
- `OpCompletes` is checked for operations asked for one at a time (`OneAtATime`). Two that compete
  can starve each other for ever, without any fault: each resync may post the one over the other, and a pod that boots while the
  other operation is posted does not report its restart, so that it restarts again when the restart is
  posted again. Of such operations `NoRequestLost` says that each stays in the operator's sight until it is posted.
  `DbOps_live` has one fault in all (`OneFault`), of any kind but a foreign write to the BGCluster.
- `OncePerPosting` exempts a failed API call: the report that stops the second restart is
  written once and its failure ignored. A boot on a cluster not yet initialized runs the bootstrap, reports
  no restart, and so allows one more; `DbOps_two` goes through it.
- `JoinedUnlessFault` exempts waits that ran out and failed statements; the code goes on after both.
- `BootstrappedOnce` exempts crashes, lost pods, failovers, failed statements and edits. A process that dies after its SQL
  runs it again; so does a pod that Patroni makes the leader after another has run it; a failed statement is only logged; and a cluster scaled while it boots
  may be marked on the old count. A cluster that is to have no instances is marked at once, and its SQL
  does not run then.
- `EventuallyInitialized` exempts a pod whose annotation could not be written, which is never
  retried, and sharded clusters with replicas: these cannot run `CREATE EXTENSION`,
  exit, and never report.
- `NodesFollow` asks nothing while no pod runs: then the update that would say so is refused, which is what
  `Cluster_zero` shows. That passes may write the same nodes in another order is not looked at.
- `SecretOwnedAtRest` exempts what it is about when it fails: a pass cut off between the two writes
  (by a failed call or a crash), and a user who takes the owner off. The next pass repairs it.
- `PodsShare` exempts passes that missed the secret, which is what `Owned_passwords` shows:
  new passwords are then written while containers run with the old ones.
- `StaysInOrder` says nothing of the owners of the service account and of Spilo's config map, which are given at creation
  alone. It ends when a user empties the secret: the map is then nil and the assignment at
  `reconcile_secrets.go:40` panics, again after each restart.
- `CleanedUp` leaves out Patroni's config maps: those created after the last pass that came
  upon them stay behind, which `ISSUES.md:3` knows of.
- `ProgressIsReal` exempts children that the user deleted, workers once their number was edited (a pass
  reaches those its cached list names), and the kind of children found under a name used before.

What these modules also show, without a run of its own: a BGDbOps created without
annotations, as `reconcile_bgshardeddbops.go:80` creates it, may have none when
`reconcile_bgdbops.go:80` writes its completion, and the operator panics after the posting was cleared
(`Panic` in `DbOps`, which `DbOps_restart` and `DbOps_two` go through); and a controller process that has once seen a
posting goes on seeing it (`Decoded`), so that the branch of `controller.go:82` that removes an old report is
never reached again in its life.

### Why the bounds are enough

*DbOps.* At most one fault of each kind in `Budget`, at any point. Two pods are what it takes
for one pod to report while the other has not, for a mark of
one to race the mark of another, and for the operator to write between
them. Two operations are what it takes to overwrite a posting or inherit a
report. In `DbOps_two` neither comes with annotations, so that the operator panics over a
completion no pod has marked before; in `DbOps_live` and `DbOps_second` they all do. Caches, queue and processes are not bounded otherwise, and user, resync and
panics may act for ever. The instances with one pod are those whose question is about
one pod's own steps, or about the operator and the server.

*ShardedBootstrap.* `Faults` is the set of combinations of faults a run allows, each fault once, except
that waits run out as often as there are waits. Two shards are what it takes for one
worker to be seen and the next not, and for an edit to take away the one that is waited
for. Two templates make a BGCluster update necessary. A foreign write goes with every
other fault because conflicts are the common case. The live run has one
shard that may come or go: its questions are about one worker and the coordinator.

*ClusterInit.* `Instances` starts at zero, the least the API accepts. `MaxPods` is two: a leader and a replica, the first StatefulSet update, and scaling
either way. Any fault may happen once, at any step.

*OwnedResources.* The steps of a pass touch different objects and meet only in the order of the
pass, in the errors that end it, and in what wakes the next one. So one object of each kind is enough:
written over (`UpdatePlain`), compared (`UpdateSpilo`), owned (`OwnMap`), written twice (the secret).
The service account, which is only created, takes `Create` and `Skip` like Spilo's config map. `MaxTries`
is two instead of five: one conflict that is tried again and one that is not. `MaxBeats` is two: Patroni creates its map
and writes it once more while the reconciler holds a copy.

*ShardedDbOps.* Two workers: one after the coordinator and one more, so that a pass may fail
between any two children; the number may change. One name, used again, is what it takes to find the
children of an earlier operation; two operations share nothing but the queue. Two faults let one
follow from another: a child deleted, say, and then the operator restarted.

What does not depend on these numbers is proved for all of them (section 5).

### Fairness

*DbOps.* Weak fairness for informers, for the worker once it has started a
reconcile, for every controller process, and for the platform that removes and
creates pods. `Resync` is weakly fair: the informers of controller-runtime hand every cached object to
the reconciler again every ten hours or so, and this is the only thing that wakes it after
the last pod has reported. Without it `OpCompletes` fails: pods are not watched.
`Reconcile(o)` is strongly fair because the queue is first in, first out: a key
in it is taken in turn even when others keep arriving. Users, other writers,
faults, evictions and `MarkInitialized` owe nothing: whenever an action with fairness is enabled, it is so
without a fault, and no fair behaviour has to contain one. This holds of every module.

*ShardedBootstrap.* Weak fairness for the informers together, for the reconcile worker, for
BGClusterReconciler's mark, for the workers' pods, for the coordinator's process, and
for its timer. `WaitTimesOut` may be fair because it is a timer of the code itself. No
resync is needed: both kinds of object are watched.

*ClusterInit.* Weak fairness for each informer, for the passes, and in each pod for the platform (creating and removing it as the StatefulSet says,
electing a leader where there is none) and the process. That passes follow one another rests on the secret's two
writes, as said above; pods are not watched. Lost pods, failovers, time-outs and crashes (`Mishap`) owe nothing.

*OwnedResources.* Weak fairness for each informer, for `Begin` and the steps of a pass, and for garbage collection. None
for `Wake`: that passes go on is what the module derives from the secret's two writes. Kubelet,
Patroni and users owe nothing.

*ShardedDbOps.* Weak fairness for the informers and the steps of a pass, strong fairness for taking a key
from the queue, as in `DbOps`, and weak fairness for the resync: a cluster that is added later is served for no
other reason.

## 4. Findings

Each is the counterexample of a violation run; `PROJECT.json` quotes the lines.

1. `DbOps_second`: a pod's `completed` annotation does not say which operation it answers. A second
   operation is completed on the reports of the first, without being posted.
2. `Sharded_timeout`: a worker that takes more than two minutes is not added to Citus, then or
   later, and the coordinator reports itself initialized.
3. `Owned_passwords`: a pass that does not find the secret in its cache replaces the passwords of the secret
   that is there. Two passes in quick succession do it when a BGCluster is new, and the first
   pod may have started in between.
4. `Cluster_zero`: a cluster scaled to no instances has a nil slice of pod names; the CRD refuses the status update that
  would write it, each pass ends in that error, and the status goes on naming the pods that are gone.

## 5. Proofs

For every value of the constants that meets the assumptions of the module
(`OpAssumption`, `BudgetAssumption`, `InitializedAssumption`; `ShardsAssumption`,
`CoordinatorAssumption`, `TemplateAssumption`, `FaultAssumption`; `InstancesAssumption`, `ShardedAssumption`; `PassAssumption`,
`BoundsAssumption`; `WorkersAssumption`, `NoneAssumption`; TLC evaluates them in every run):

| Module | Theorem | Statement | Invariant |
|---|---|---|---|
| `DbOpsProofs` | `TypeCorrect` | `Spec => []TypeOK` | `TypeOK` with `HasOp`: a worker that is not idle holds an operation, and a controller in the middle of a mark has seen one. Without it the writes of a worker are not typed. |
| | `CopiesStayCurrent` | `Spec => []CopiesCurrent` | a copy whose bit says it is current equals the server's object. It says what the bits are for, and is needed for every accepted update. |
| | `ImplementsLedger` | `HSpec => LedgerSpec` | the two above, and that whatever is posted, in a cache, in the worker or in a process, was announced |
| `DbOpsHistoryProofs` | `RestartsOnce` | `HSpec => OncePerPosting` | `RestartsAnswered`: as long as no call has failed, a pod that has restarted since the last posting, and not booted uninitialized since, is gone or going; or its process is about to read the BGCluster; or no restart is posted and none was when its process started; or the process read the posting as it started, and reports before it handles it |
| | `CompletedOnceActed` | `HSpec => CompletedMeansActed` | `Accounted`: unless restarts are asked for and a call failed, whatever makes a pod count as done (its annotation, the list last seen, a process about to report, or booting on a posting) is there because the pod acted; for a worker that is concluding, every pod acted or was not listed |
| | `RequestsKept` | `HSpec => []NoRequestLost` | `RequestsHeld`: the property itself, and that an idle worker holds no operation |
| `ShardedBootstrapProofs` | `TypeCorrect` | `Spec => []TypeOK` | `TypeOK` with `InsideList`: a process about to add a worker is inside its list. Without it the next worker need not be one. |
| | `ImplementsMembership` | `Spec => MembershipSpec` | `Inv`: current copies equal the server's objects; an object that is not there says nothing; what a cached worker says of its initialization is true; an initialized worker has the extension; signals, and the process's copy of them, name initialized workers |
| | `EveryWorkerJoined` | `Spec => []JoinedUnlessFault` | `Inv` with `InLoop`: at each point of the coordinator's loop, the workers before the next have joined and the one about to be added has its extension, unless a wait ran out or a statement failed |
| | `RestsWhenDone` | `Spec => []RestMeansDone` | `RestInv`: a pass that began with an old BGShardedCluster leaves something pending; if nothing is pending, what the pass has been through is as asked (`SoFar`), step by step |
| `ClusterInitProofs` | `TypeCorrect` | `Spec => []TypeOK` | `TypeOK` alone |
| | `BootstrapRunOnce` | `Spec => []BootstrappedOnce` | `Inv`: while nothing crashes, fails, is edited or changes leader, the StatefulSet, its cached copy and the pass agree on the number of pods; pods exist from the first on and not beyond it; only the leader has run the SQL, once; and what is cached of a pod is true |
| | `NoUpdateUndone` | `Spec => UpdatesKept` | `CopiesCurrent`: the BGCluster a pass still holds as current, and the cached one if it is up to date, is the server's |
| `OwnedResourcesProofs` | `TypeCorrect` | `Spec => []TypeOK` | `TypeOK` alone |
| | `SecretKeepsOwner` | `Spec => []SecretOwnedAtRest` | `SecretInHand`: between its writes the pass holds the secret it has just written |
| | `PasswordsShared` | `Spec => []PodsShare` | `PasswordsKnown`: what the cache and the pass hold of the secret are its present passwords, unless a pass missed it |
| | `PatroniUndisturbed` | `Spec => PatroniDataKept` | `CacheCurrent`: a cached object that is not stale is the server's |
| | `NeverAsleep` | `Spec => []KeptAwake` | `AwakeInv`: beyond the secret's place in the pass, and between passes, something is queued or about to be; before its second write the secret of the pass is there without an owner, so that the write changes it |
| `ShardedDbOpsProofs` | `TypeCorrect` | `Spec => []TypeOK` | `TypeOK` alone |
| | `ProgressHasBegun` | `Spec => []ProgressIsReal` | `Passed`: there is a child for each cluster a pass is past, and, once it noted its progress, for each it was to reach; `PublishedOnce`: without an edit, a list that names clusters names all; `KindInv`: children found or made are of the kind that was read, which is the operation's as long as the copy is current |
| | `RequestsHeard` | `Spec => []NoRequestDropped` | the property itself, with `TypeOK` |
| | `RespectsLedgers` | `Spec => LedgersKept` | `TypeOK`, and that a child that is not there is not completed |

No theorem has hypotheses of its own: what a property exempts is written in the property, with
the fault that is needed for it.

`BootstrapRunOnce` counts: the number of cached pods that carry the annotation is compared with the number
desired, and the proof has to conclude from equal numbers that every pod has it, the leader
included. With zero instances there is no pod that could run the SQL (`SomeInstances`).

Both refinements need the current copies where a writer puts back a whole object read
earlier: the update is accepted only when the copy is current, so that what it puts
back is what was there, and only its own change is new. `ImplementsLedger` needs the
announcement invariant where a pod signs: what it signs was once posted.
`ImplementsMembership` needs that a stale cache errs on one side only: the reconciler signals a
worker from a cached copy without checking that it is current, which is right only because
`initialized` is never taken back.

`RestartsOnce` and `CompletedOnceActed` go step by step over one pod: a step that is not the
pod's own leaves its phase, its process and its copy of the BGCluster alone (`OthersUndisturbed`,
`PodsUndisturbed`), so both invariants only have to follow the pod's own steps.

`RestsWhenDone`, `NeverAsleep`, `RequestsKept` and `RequestsHeard` are what is provable of liveness: they
say that work which is left always has something that leads to it (a key in the queue, an event on its way, a
pass under way), so that weak fairness is enough to take it up. `NeverAsleep` is
the least obvious: BGClusterReconciler ignores its config maps, and is kept going by its own two
writes of the secret. That rests on the order of the pass and on each object coming
once in it (`PassAssumption`).

Every safety property of a passing run is the subject of a theorem. Only model-checked: the
liveness properties, which are out of the prover's reach.

## 6. Not modelled

- **SQL and command retries.** Sequential loops around an external command, whose counter and error
  buffer nobody else sees. `ClusterInit` and `ShardedBootstrap` leave open which statements succeed.
  `runCommand`, called with no attempts allowed (`controller.go:123`), runs nothing; its result is dropped.
- **`ClusterInit` composed with `DbOps`.** A restart posted before its cluster is initialized makes each
  boot bootstrap instead of report. `DbOps` has that boot as one step; that the bootstrap's SQL may run again in
  it is only in the reading of both modules, whose product is too large to check.
- **A BGCluster created again under the name of a deleted one**, whose objects are still being collected.

Left out for good: what services, roles and the StatefulSet contain (pure data), generated
deep copies, flag parsing, file copying, the rewriting of Spilo's configuration, logging.
