------------------------------- MODULE DbOps -------------------------------
(***************************************************************************)
(* The BGDbOps protocol of one BGCluster: a user creates BGDbOps objects,  *)
(* the operator's BGDbOpsReconciler posts one of them on the BGCluster as  *)
(* annotations, the controller process inside every pod sees the           *)
(* annotations, restarts its pod (or runs a placeholder operation), says   *)
(* so on its pod and on the BGDbOps, and the reconciler takes the          *)
(* annotations off the BGCluster and marks the BGDbOps completed.          *)
(*                                                                         *)
(* Nobody talks to anybody: every exchange is a read or an optimistic      *)
(* update of an object of the Kubernetes API server.  The operator reads   *)
(* through informer caches that lag behind the server; the pods read the   *)
(* server.                                                                 *)
(***************************************************************************)
EXTENDS Naturals

CONSTANTS
  Op,           \* names of BGDbOps objects a user may create
  RestartOp,    \* those with spec.op = "restart"; the others are placeholders
  AnnotatedOp,  \* those whose object is created with a non-nil annotation map
  Pod,          \* the pods of the BGCluster's StatefulSet
  NoOp,         \* no operation is posted
  Initialized,  \* the values bgcluster.bestgres.io/initialized may start with
  Budget        \* how many faults of each kind a behaviour may contain

FaultKind == {"apiError", "crash", "touch", "delete"}

ASSUME OpAssumption == /\ RestartOp \subseteq Op
                       /\ AnnotatedOp \subseteq Op
                       /\ NoOp \notin Op
ASSUME BudgetAssumption == Budget \in [FaultKind -> Nat]
ASSUME InitializedAssumption == Initialized \subseteq BOOLEAN

VARIABLES
  (* the API server *)
  dbops,        \* BGDbOps objects by name
  cluster,      \* the annotations of the BGCluster
  pods,         \* Pod objects: phase and the "completed" annotation
  (* the controller process in each pod *)
  ctl,
  (* the operator process *)
  dbopsCache,   \* its informer caches
  clusterCache,
  podCache,
  staleOps,     \* BGDbOps whose cached resourceVersion is behind the server's
  clusterStale, \* the same for the BGCluster
  queue,        \* the controller's work queue (a set: it deduplicates)
  rec,          \* the one reconcile worker
  (* the faults that may still happen *)
  left

opVars     == <<dbopsCache, clusterCache, podCache, staleOps, clusterStale,
                queue, rec>>
serverVars == <<dbops, cluster, pods>>
vars       == <<serverVars, ctl, opVars, left>>

-----------------------------------------------------------------------------
(***************************************************************************)
(* Objects.  A BGDbOps carries the pods that have annotated it             *)
(* ("bgcluster.bestgres.io/<pod>") and its own "completed" annotation.     *)
(* The four bgdbops.bestgres.io annotations of the BGCluster (pending, op, *)
(* spec, in-progress) are always written and deleted by one update, so     *)
(* they are one field: the BGDbOps posted, or NoOp.                        *)
(***************************************************************************)
BGDbOps   == [exists : BOOLEAN, marks : SUBSET Pod, completed : BOOLEAN]
BGCluster == [initialized : BOOLEAN, posted : Op \cup {NoOp}]
PodObject == [phase : {"absent", "running", "terminating"}, completed : BOOLEAN]

NoObject  == [exists |-> FALSE, marks |-> {}, completed |-> FALSE]
NewObject == [NoObject EXCEPT !.exists = TRUE]
NoPod     == [phase |-> "absent", completed |-> FALSE]
NewPod    == [phase |-> "running", completed |-> FALSE]
NoPosting == [initialized |-> FALSE, posted |-> NoOp]

(* What a List shows of a pod: a terminating pod is still listed. *)
View(pod) == IF pod.phase = "absent" THEN "none"
             ELSE IF pod.completed THEN "done" ELSE "todo"

(***************************************************************************)
(* Processes.  A copy of an object that will be written back is kept with  *)
(* a flag that says whether its resourceVersion is still the server's.     *)
(***************************************************************************)
ControllerPC == {"down", "booting", "loop", "cleaning", "handling", "marking",
                 "reporting"}
Controller == [pc : ControllerPC, snap : BGCluster, held : BGDbOps, fresh : BOOLEAN]
Worker     == [pc : {"idle", "clear", "complete", "post"}, op : Op \cup {NoOp},
               obj : BGDbOps, opFresh : BOOLEAN,
               cluster : BGCluster, clusterFresh : BOOLEAN]

Down == [pc |-> "down", snap |-> NoPosting, held |-> NoObject, fresh |-> FALSE]
Idle == [pc |-> "idle", op |-> NoOp, obj |-> NoObject, opFresh |-> FALSE,
         cluster |-> NoPosting, clusterFresh |-> FALSE]

Existing == {o \in Op : dbops[o].exists}

Spend(kind) == /\ left[kind] > 0
               /\ left' = [left EXCEPT ![kind] = @ - 1]

-----------------------------------------------------------------------------
(***************************************************************************)
(* Writes to the API server.  An update that changes nothing leaves the    *)
(* resourceVersion alone; one that changes something outdates every other  *)
(* copy of the object.  The process variables are passed in as the writer  *)
(* leaves them.                                                            *)
(***************************************************************************)
WriteDbOps(o, obj, controllers, worker) ==
  /\ dbops' = [dbops EXCEPT ![o] = obj]
  /\ IF obj = dbops[o]
       THEN /\ ctl' = controllers
            /\ rec' = worker
            /\ UNCHANGED staleOps
       ELSE /\ ctl' = [p \in Pod |->
                         IF controllers[p].snap.posted = o
                           THEN [controllers[p] EXCEPT !.fresh = FALSE]
                           ELSE controllers[p]]
            /\ rec' = IF worker.op = o THEN [worker EXCEPT !.opFresh = FALSE]
                                       ELSE worker
            /\ staleOps' = staleOps \cup {o}

WriteCluster(annotations, worker) ==
  /\ cluster' = annotations
  /\ IF annotations = cluster
       THEN rec' = worker /\ UNCHANGED clusterStale
       ELSE /\ rec' = [worker EXCEPT !.clusterFresh = FALSE]
            /\ clusterStale' = TRUE

-----------------------------------------------------------------------------
(* The user applies or deletes a BGDbOps. *)
CreateOp(o) ==
  /\ ~dbops[o].exists
  /\ WriteDbOps(o, NewObject, ctl, rec)
  /\ UNCHANGED <<cluster, pods, dbopsCache, clusterCache, podCache, clusterStale,
                 queue, left>>

DeleteOp(o) ==
  /\ dbops[o].exists
  /\ Spend("delete")
  /\ WriteDbOps(o, NoObject, ctl, rec)
  /\ UNCHANGED <<cluster, pods, dbopsCache, clusterCache, podCache, clusterStale,
                 queue>>

(***************************************************************************)
(* The other writers of the BGCluster: BGClusterReconciler, from its       *)
(* cached copy, sets the initialized annotation when its own condition     *)
(* holds; any of the other reconcilers rewrites a part of the object this  *)
(* module does not look at (status.nodes, the spec, other annotations).    *)
(***************************************************************************)
MarkInitialized ==
  /\ ~clusterCache.initialized
  /\ ~clusterStale
  /\ WriteCluster([clusterCache EXCEPT !.initialized = TRUE], rec)
  /\ UNCHANGED <<dbops, pods, ctl, dbopsCache, clusterCache, podCache, staleOps,
                 queue, left>>

TouchCluster ==
  /\ Spend("touch")
  /\ rec' = [rec EXCEPT !.clusterFresh = FALSE]
  /\ clusterStale' = TRUE
  /\ UNCHANGED <<serverVars, ctl, dbopsCache, clusterCache, podCache, staleOps,
                 queue>>

-----------------------------------------------------------------------------
(* The operator's informers.  A BGDbOps that moves is queued: the watch is on *)
(* BGDbOps alone, so neither pods nor the BGCluster ever cause a reconcile.   *)
SyncDbOps ==
  /\ staleOps # {}
  /\ dbopsCache' = dbops
  /\ queue' = queue \cup staleOps
  /\ staleOps' = {}
  /\ UNCHANGED <<serverVars, ctl, clusterCache, podCache, clusterStale, rec, left>>

SyncCluster ==
  /\ clusterStale
  /\ clusterCache' = cluster
  /\ clusterStale' = FALSE
  /\ UNCHANGED <<serverVars, ctl, dbopsCache, podCache, staleOps, queue,
                 rec, left>>

SyncPods ==
  /\ podCache # [p \in Pod |-> View(pods[p])]
  /\ podCache' = [p \in Pod |-> View(pods[p])]
  /\ UNCHANGED <<serverVars, ctl, dbopsCache, clusterCache, staleOps, clusterStale,
                 queue, rec, left>>

(* The informer's periodic resync queues every BGDbOps in its cache. *)
Resync ==
  /\ queue' = queue \cup {o \in Op : dbopsCache[o].exists}
  /\ UNCHANGED <<serverVars, ctl, dbopsCache, clusterCache, podCache, staleOps,
                 clusterStale, rec, left>>

-----------------------------------------------------------------------------
(***************************************************************************)
(* BGDbOpsReconciler.Reconcile.  Its three reads come from the caches.     *)
(* An empty pod list counts as all completed.  "anyInProgress" looks for   *)
(* an annotation that no code writes on a pod, so it is always false.      *)
(***************************************************************************)
SomeCompleted == \E p \in Pod : podCache[p] # "todo"       \* mutant: any pod will do
NoneCompleted == \A p \in Pod : podCache[p] # "done"       \* mutant: test inverted
AllCompleted == \A p \in Pod : podCache[p] # "todo"

Reading(o, pc) == [pc |-> pc, op |-> o,
                   obj |-> dbopsCache[o], opFresh |-> o \notin staleOps,
                   cluster |-> clusterCache, clusterFresh |-> ~clusterStale]

Reconcile(o) ==
  /\ rec.pc = "idle"
  /\ o \in queue
  /\ queue' = queue \ {o}
  /\ rec' = IF ~dbopsCache[o].exists \/ dbopsCache[o].completed THEN Idle
            ELSE Reading(o, IF AllCompleted THEN "clear" ELSE "post")
  /\ UNCHANGED <<serverVars, ctl, dbopsCache, clusterCache, podCache, staleOps,
                 clusterStale, left>>

(* Reconcile returns an error: the key goes back to the queue. *)
RequeuePosted == queue' = queue \cup {cluster.posted}  \* mutant: not the one requested
Requeue == queue' = queue \cup {rec.op}

(* r.Update(bgCluster) without the operation's annotations. *)
Cleared(annotations) == [annotations EXCEPT !.posted = NoOp]

ClearCluster ==
  /\ rec.pc = "clear"
  /\ rec.clusterFresh
  /\ \/ /\ WriteCluster(Cleared(rec.cluster), [rec EXCEPT !.pc = "complete"])
        /\ UNCHANGED <<queue, left>>
     \/ /\ Spend("apiError")               \* written, but the reply is lost
        /\ WriteCluster(Cleared(rec.cluster), Idle)
        /\ Requeue
  /\ UNCHANGED <<dbops, pods, ctl, dbopsCache, clusterCache, podCache, staleOps>>

(* r.Update(bgDbOps) with the completed annotation. *)
AnnotationsNil(o, obj) == o \notin AnnotatedOp /\ obj.marks = {} /\ ~obj.completed

CompletedAlone(obj) == [NewObject EXCEPT !.completed = TRUE]  \* mutant: a new map
NotCompleted(obj) == obj                                      \* mutant: forgotten
Completed(obj) == [obj EXCEPT !.completed = TRUE]

CompleteOp ==
  /\ rec.pc = "complete"
  /\ ~AnnotationsNil(rec.op, rec.obj)
  /\ rec.opFresh
  /\ WriteDbOps(rec.op, Completed(rec.obj), ctl, Idle)
  /\ \/ UNCHANGED <<queue, left>>
     \/ Spend("apiError") /\ Requeue
  /\ UNCHANGED <<cluster, pods, dbopsCache, clusterCache, podCache, clusterStale>>

(* r.Update(bgCluster) with the operation's annotations. *)
PostOp ==
  /\ rec.pc = "post"
  /\ rec.clusterFresh
  /\ WriteCluster([rec.cluster EXCEPT !.posted = rec.op], Idle)
  /\ \/ UNCHANGED <<queue, left>>
     \/ Spend("apiError") /\ Requeue
  /\ UNCHANGED <<dbops, pods, ctl, dbopsCache, clusterCache, podCache, staleOps>>

(* An update is refused: a conflict, or an API error.  Nothing is written. *)
UpdateRefused ==
  /\ \/ rec.pc \in {"clear", "post"} /\ ~rec.clusterFresh /\ UNCHANGED left
     \/ /\ rec.pc = "complete"
        /\ ~AnnotationsNil(rec.op, rec.obj)
        /\ ~rec.opFresh
        /\ UNCHANGED left
     \/ /\ rec.pc # "idle"
        /\ rec.pc = "complete" => ~AnnotationsNil(rec.op, rec.obj)
        /\ Spend("apiError")
  /\ Requeue
  /\ rec' = Idle
  /\ UNCHANGED <<serverVars, ctl, dbopsCache, clusterCache, podCache, staleOps,
                 clusterStale>>

(***************************************************************************)
(* The operator process dies and is started again: its memory is gone, the *)
(* caches are listed afresh, and every BGDbOps is handed to the queue.     *)
(* Besides a crash from outside, writing the completed annotation into a   *)
(* nil map panics (controller-runtime 0.18 does not recover it).           *)
(***************************************************************************)
RestartOperator ==
  /\ dbopsCache' = dbops
  /\ clusterCache' = cluster
  /\ podCache' = [p \in Pod |-> View(pods[p])]
  /\ staleOps' = {}
  /\ clusterStale' = FALSE
  /\ queue' = Existing
  /\ rec' = Idle
  /\ UNCHANGED <<serverVars, ctl>>

Panic ==
  /\ rec.pc = "complete"
  /\ AnnotationsNil(rec.op, rec.obj)
  /\ RestartOperator
  /\ UNCHANGED left

CrashOperator == Spend("crash") /\ RestartOperator

-----------------------------------------------------------------------------
(***************************************************************************)
(* The controller process of pod p, RunController.  Its reads and writes   *)
(* go to the server.  Nobody else writes the annotation of its pod, so     *)
(* updateAnnotation and deleteAnnotation are one step each; they fail when *)
(* the kubelet has changed the pod in between, or on any API error.        *)
(***************************************************************************)
Goto(p, pc) == ctl' = [ctl EXCEPT ![p].pc = pc]

SetCompleted(p, value) == pods' = [pods EXCEPT ![p].completed = value]

OnlyPod == UNCHANGED <<dbops, cluster, opVars>>

(* getResources: the copy of the BGCluster the whole bootstrap looks at. *)
StartController(p) ==
  /\ ctl[p].pc = "down"
  /\ pods[p].phase = "running"
  /\ ctl' = [ctl EXCEPT ![p] = [Down EXCEPT !.pc = "booting", !.snap = cluster]]
  /\ OnlyPod
  /\ UNCHANGED <<pods, left>>

(***************************************************************************)
(* The database is up and one of the bootstrap functions runs.  On an      *)
(* initialized cluster it reports a pending restart as completed and       *)
(* ignores an error; otherwise it bootstraps and says nothing of it.       *)
(***************************************************************************)
NeverReports(snap) == FALSE                   \* mutant: the boot says nothing
ReportsRestart(snap) == snap.initialized /\ snap.posted \in RestartOp

FinishBoot(p) ==
  /\ ctl[p].pc = "booting"
  /\ \/ /\ ReportsRestart(ctl[p].snap)
        /\ SetCompleted(p, TRUE)
        /\ UNCHANGED left
     \/ /\ ReportsRestart(ctl[p].snap)
        /\ Spend("apiError")
        /\ UNCHANGED pods
     \/ /\ ~ReportsRestart(ctl[p].snap)
        /\ UNCHANGED <<pods, left>>
  /\ Goto(p, "loop")
  /\ OnlyPod

(***************************************************************************)
(* One turn of reconciliationLoop.  refreshContext reads into the object   *)
(* it already holds: the client decodes the reply into the existing map,   *)
(* which adds and overwrites keys but keeps those the reply lacks.  When   *)
(* the read fails the object stays as it was.                              *)
(***************************************************************************)
Decoded(held, reply) ==
  [initialized |-> held.initialized \/ reply.initialized,
   posted      |-> IF reply.posted = NoOp THEN held.posted ELSE reply.posted]

Turn(p, snap) ==
  ctl' = [ctl EXCEPT ![p].snap = snap,
                     ![p].pc = IF snap.posted # NoOp THEN "handling" ELSE "cleaning"]

Refresh(p) ==
  /\ ctl[p].pc = "loop"
  /\ \/ Turn(p, Decoded(ctl[p].snap, cluster)) /\ UNCHANGED left
     \/ Turn(p, ctl[p].snap) /\ Spend("apiError")
  /\ OnlyPod
  /\ UNCHANGED pods

(* No operation is pending: deleteAnnotation, its error ignored. *)
CleanUp(p) ==
  /\ ctl[p].pc = "cleaning"
  /\ \/ SetCompleted(p, FALSE) /\ UNCHANGED left
     \/ Spend("apiError") /\ UNCHANGED pods
  /\ Goto(p, "loop")
  /\ OnlyPod

(***************************************************************************)
(* handleRestart of a pod not yet reported completed, or whose annotation  *)
(* could not be read: delete the pod.  deletePod returns nothing, so the   *)
(* caller goes on to report whether or not the pod is going away.          *)
(***************************************************************************)
DeletePod(p) ==
  /\ ctl[p].pc = "handling"
  /\ ctl[p].snap.posted \in RestartOp
  /\ \/ /\ ~pods[p].completed
        /\ UNCHANGED left
        /\ pods' = [pods EXCEPT ![p].phase = "terminating"]
     \/ /\ ~pods[p].completed              \* the delete fails
        /\ Spend("apiError")
        /\ UNCHANGED pods
     \/ /\ pods[p].completed               \* the annotation could not be read
        /\ Spend("apiError")
        /\ pods' = [pods EXCEPT ![p].phase = "terminating"]
  /\ Goto(p, "reporting")
  /\ OnlyPod

(* handleRestart of a completed pod, first call: get the BGDbOps posted. *)
ReadDbOps(p) ==
  /\ ctl[p].pc = "handling"
  /\ ctl[p].snap.posted \in RestartOp
  /\ pods[p].completed
  /\ LET obj == dbops[ctl[p].snap.posted]
     IN  \/ /\ obj.exists
            /\ ctl' = [ctl EXCEPT ![p].held = obj, ![p].fresh = TRUE,
                                  ![p].pc = "marking"]
            /\ UNCHANGED left
         \/ ~obj.exists /\ Goto(p, "loop") /\ UNCHANGED left
         \/ Goto(p, "loop") /\ Spend("apiError")
  /\ OnlyPod
  /\ UNCHANGED pods

(* Second call: update it with this pod's annotation. *)
MarkDbOps(p) ==
  /\ ctl[p].pc = "marking"
  /\ ctl[p].fresh
  /\ LET o == ctl[p].snap.posted
         marked == [ctl[p].held EXCEPT !.marks = @ \cup {p}]
         after(pc) == [ctl EXCEPT ![p].pc = pc, ![p].held = NoObject,
                                  ![p].fresh = FALSE]
     IN  \/ WriteDbOps(o, marked, after("reporting"), rec) /\ UNCHANGED left
         \/ WriteDbOps(o, marked, after("loop"), rec) /\ Spend("apiError")
  /\ UNCHANGED <<cluster, pods, dbopsCache, clusterCache, podCache, clusterStale,
                 queue>>

MarkRefused(p) ==
  /\ ctl[p].pc = "marking"
  /\ \/ ~ctl[p].fresh /\ UNCHANGED left
     \/ Spend("apiError")
  /\ ctl' = [ctl EXCEPT ![p].pc = "loop", ![p].held = NoObject, ![p].fresh = FALSE]
  /\ OnlyPod
  /\ UNCHANGED pods

(* benchmark, repack, vacuum: the handlers are placeholders. *)
HandlePlaceholder(p) ==
  /\ ctl[p].pc = "handling"
  /\ ctl[p].snap.posted \in Op \ RestartOp
  /\ Goto(p, "reporting")
  /\ OnlyPod
  /\ UNCHANGED <<pods, left>>

(* The end of handleBgDbOps: the completed annotation of the pod. *)
Report(p) ==
  /\ ctl[p].pc = "reporting"
  /\ \/ SetCompleted(p, TRUE) /\ UNCHANGED left
     \/ Spend("apiError") /\ UNCHANGED pods
  /\ Goto(p, "loop")
  /\ OnlyPod

ControllerStep(p) ==
  \/ StartController(p) \/ FinishBoot(p) \/ Refresh(p) \/ CleanUp(p)
  \/ DeletePod(p) \/ ReadDbOps(p) \/ MarkDbOps(p) \/ MarkRefused(p)
  \/ HandlePlaceholder(p) \/ Report(p)

-----------------------------------------------------------------------------
(***************************************************************************)
(* The kubelet and the StatefulSet controller.  A terminating pod keeps    *)
(* its object, and its process may still run, until it is removed; the     *)
(* pod created in its place has the same name and none of its annotations. *)
(***************************************************************************)
RemovePod(p) ==
  /\ pods[p].phase = "terminating"
  /\ pods' = [pods EXCEPT ![p] = NoPod]
  /\ ctl' = [ctl EXCEPT ![p] = Down]
  /\ OnlyPod
  /\ UNCHANGED left

CreatePod(p) ==
  /\ pods[p].phase = "absent"
  /\ pods' = [pods EXCEPT ![p] = NewPod]
  /\ OnlyPod
  /\ UNCHANGED <<ctl, left>>

(* Somebody else deletes the pod: a drained node, a user, an eviction. *)
EvictPod(p) ==
  /\ pods[p].phase = "running"
  /\ Spend("crash")
  /\ pods' = [pods EXCEPT ![p].phase = "terminating"]
  /\ OnlyPod
  /\ UNCHANGED ctl

(* The container exits and is restarted in the same pod, annotations and all. *)
CrashController(p) ==
  /\ ctl[p].pc # "down"
  /\ Spend("crash")
  /\ ctl' = [ctl EXCEPT ![p] = Down]
  /\ OnlyPod
  /\ UNCHANGED pods

-----------------------------------------------------------------------------
(* Of the pods, any may be there already: the StatefulSet is still growing, *)
(* or has been a while.                                                     *)
Init ==
  /\ dbops = [o \in Op |-> NoObject]
  /\ cluster \in [initialized : Initialized, posted : {NoOp}]
  /\ pods \in [Pod -> {NoPod, NewPod}]
  /\ ctl = [p \in Pod |-> Down]
  /\ dbopsCache = dbops
  /\ clusterCache = cluster
  /\ podCache = [p \in Pod |-> View(pods[p])]
  /\ staleOps = {}
  /\ clusterStale = FALSE
  /\ queue = {}
  /\ rec = Idle
  /\ left = Budget

OperatorStep ==
  \/ SyncDbOps \/ SyncCluster \/ SyncPods
  \/ \E o \in Op : Reconcile(o)
  \/ ClearCluster \/ CompleteOp \/ PostOp \/ UpdateRefused \/ Panic

PlatformStep == \E p \in Pod : RemovePod(p) \/ CreatePod(p)

Disturbance ==
  \/ \E o \in Op : CreateOp(o) \/ DeleteOp(o)
  \/ MarkInitialized \/ TouchCluster \/ CrashOperator \/ Resync
  \/ \E p \in Pod : EvictPod(p) \/ CrashController(p)

Next ==
  \/ OperatorStep
  \/ \E p \in Pod : ControllerStep(p)
  \/ PlatformStep
  \/ Disturbance

Spec == Init /\ [][Next]_vars

(***************************************************************************)
(* What the scheduling gives: informers catch up, the worker goes on with  *)
(* what it started and takes what is queued, the resync timer keeps        *)
(* ticking, a controller process keeps looping, and the platform removes   *)
(* and replaces pods.  Users, other writers and faults owe nothing.        *)
(***************************************************************************)
WorkerStep == ClearCluster \/ CompleteOp \/ PostOp \/ UpdateRefused \/ Panic

Fairness ==
  /\ WF_vars(SyncDbOps) /\ WF_vars(SyncCluster) /\ WF_vars(SyncPods)
  /\ WF_vars(Resync)
  /\ WF_vars(WorkerStep)
  /\ \A o \in Op : SF_vars(Reconcile(o))
  /\ \A p \in Pod : WF_vars(ControllerStep(p)) /\ WF_vars(RemovePod(p) \/ CreatePod(p))

-----------------------------------------------------------------------------
(* Every variable stays in its set; in particular the worker only ever     *)
(* holds what it read of one BGDbOps and one BGCluster.                     *)
TypeOK ==
  /\ dbops \in [Op -> BGDbOps]
  /\ cluster \in BGCluster
  /\ pods \in [Pod -> PodObject]
  /\ ctl \in [Pod -> Controller]
  /\ dbopsCache \in [Op -> BGDbOps]
  /\ clusterCache \in BGCluster
  /\ podCache \in [Pod -> {"none", "todo", "done"}]
  /\ staleOps \subseteq Op
  /\ clusterStale \in BOOLEAN
  /\ queue \subseteq Op
  /\ rec \in Worker
  /\ left \in [FaultKind -> Nat]

(* An operation that is asked for is done: the reconciler takes the posting *)
(* off and marks the BGDbOps completed (reconcile_bgdbops.go:68-81), though *)
(* only the resync timer makes it look at the pods again.                   *)
OpCompletes == \A o \in Op : dbops[o].exists ~> (dbops[o].completed \/ ~dbops[o].exists)

(* The pods of an initialized cluster do not go on restarting: the boot     *)
(* after a restart answers for it (bootstrap.go:102).                       *)
RestartsStop == <>[](\A p \in Pod : pods[p].phase = "running")

=============================================================================
