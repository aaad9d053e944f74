---------------------------- MODULE ShardedDbOps ----------------------------
(***************************************************************************)
(* The fan-out of a BGShardedDbOps: for each cluster that the status of    *)
(* the BGShardedCluster names, the coordinator first, its reconciler       *)
(* creates a BGDbOps called after both, and then notes that the operation  *)
(* is in progress.  The children belong to nobody: what becomes of them is *)
(* the matter of the BGDbOps protocol in each cluster, of which only       *)
(* OpLedger is known here.                                                 *)
(*                                                                         *)
(* Only BGShardedDbOps are watched, neither the status of the cluster nor  *)
(* the children.                                                           *)
(***************************************************************************)
EXTENDS Naturals

CONSTANTS
  Op,          \* names of BGShardedDbOps
  Kind,        \* what they may ask for: spec.bgDbOps
  MaxWorkers,  \* the most workers a BGShardedCluster has
  NoKind,      \* of an object that is not there
  NoOp,        \* the reconciler is at rest
  Faults       \* the faults that may happen together, each of them once

Cluster   == 0 .. MaxWorkers    \* 0 is the coordinator's
FaultKind == {"apiError", "crash", "edit", "delete", "child"}

ASSUME WorkersAssumption == MaxWorkers \in Nat
ASSUME NoneAssumption == NoKind \notin Kind /\ NoOp \notin Op
ASSUME FaultAssumption == {} \in Faults /\ Faults \subseteq SUBSET FaultKind

VARIABLES
  ops,         \* the BGShardedDbOps
  listed,      \* how many clusters the status names: 0 before it is written
  children,    \* the BGDbOps, by operation and cluster
  opsCache,
  listedCache,
  staleOps,    \* those whose cached resourceVersion is behind the server's
  queue,       \* the work queue
  rec,         \* the reconcile worker
  faults       \* the faults that have happened

serverVars == <<ops, listed, children>>
cacheVars  == <<opsCache, listedCache, staleOps>>
vars       == <<serverVars, cacheVars, queue, rec, faults>>

-----------------------------------------------------------------------------
ShardedOp == [kind : Kind \cup {NoKind}, inProgress : BOOLEAN]
Child     == [kind : Kind \cup {NoKind}, completed : BOOLEAN]
Worker    == [op : Op \cup {NoOp}, kind : Kind \cup {NoKind}, fresh : BOOLEAN,
              upto : 0 .. (MaxWorkers + 1), next : 0 .. (MaxWorkers + 1)]

NoShardedOp == [kind |-> NoKind, inProgress |-> FALSE]
NoChild     == [kind |-> NoKind, completed |-> FALSE]
Idle        == [op |-> NoOp, kind |-> NoKind, fresh |-> FALSE, upto |-> 0, next |-> 0]

There(object) == object.kind # NoKind

Fault(kind) == /\ kind \notin faults
               /\ faults' = faults \cup {kind}
               /\ faults' \in Faults

WriteOp(o, object) ==
  /\ ops' = [ops EXCEPT ![o] = object]
  /\ staleOps' = IF object = ops[o] THEN staleOps ELSE staleOps \cup {o}
  /\ rec' = IF rec.op = o /\ object # ops[o] THEN [rec EXCEPT !.fresh = FALSE] ELSE rec

-----------------------------------------------------------------------------
(* The user; a name may be used again for another kind of operation.         *)
CreateOp(o, kind) ==
  /\ ~There(ops[o])
  /\ WriteOp(o, [kind |-> kind, inProgress |-> FALSE])
  /\ UNCHANGED <<listed, children, opsCache, listedCache, queue, faults>>

DeleteOp(o) ==
  /\ There(ops[o])
  /\ Fault("delete")
  /\ WriteOp(o, NoShardedOp)
  /\ UNCHANGED <<listed, children, opsCache, listedCache, queue>>

DeleteChild(o, c) ==
  /\ There(children[o][c])
  /\ Fault("child")
  /\ children' = [children EXCEPT ![o][c] = NoChild]
  /\ UNCHANGED <<ops, listed, cacheVars, queue, rec>>

(* BGShardedClusterReconciler writes its status, again when the user edits   *)
(* the number of shards.                                                     *)
PublishStatus(n) ==
  /\ n # listed
  /\ \/ listed = 0 /\ UNCHANGED faults
     \/ listed # 0 /\ Fault("edit")
  /\ listed' = n
  /\ UNCHANGED <<ops, children, cacheVars, queue, rec>>

(* The BGDbOps protocol of a cluster completes a child, some time.           *)
FinishChild(o, c) ==
  /\ There(children[o][c]) /\ ~children[o][c].completed
  /\ children' = [children EXCEPT ![o][c].completed = TRUE]
  /\ UNCHANGED <<ops, listed, cacheVars, queue, rec, faults>>

-----------------------------------------------------------------------------
(* The informers. *)
SyncOp(o) ==
  /\ o \in staleOps
  /\ opsCache' = [opsCache EXCEPT ![o] = ops[o]]
  /\ staleOps' = staleOps \ {o}
  /\ queue' = queue \cup {o}
  /\ UNCHANGED <<serverVars, listedCache, rec, faults>>

SyncListed ==
  /\ listedCache # listed
  /\ listedCache' = listed
  /\ UNCHANGED <<serverVars, opsCache, staleOps, queue, rec, faults>>

Resync(o) ==
  /\ There(opsCache[o])
  /\ queue' = queue \cup {o}
  /\ UNCHANGED <<serverVars, cacheVars, rec, faults>>

-----------------------------------------------------------------------------
(***************************************************************************)
(* Reconcile.  The status "Completed", at which it would stop, is set by   *)
(* no code.                                                                *)
(***************************************************************************)
Reconcile(o) ==
  /\ rec.op = NoOp /\ o \in queue
  /\ queue' = queue \ {o}
  /\ rec' = IF There(opsCache[o])
            THEN [op |-> o, kind |-> opsCache[o].kind, fresh |-> o \notin staleOps,
                  upto |-> listedCache, next |-> 0]
            ELSE Idle
  /\ UNCHANGED <<serverVars, cacheVars, faults>>

FailForgetful == rec' = Idle /\ queue' = queue \cup {rec'.op}    \* mutant: reset too soon
FailPassedOver ==                               \* mutant: the error of a child passed over
  /\ rec' = IF rec.next < rec.upto THEN [rec EXCEPT !.next = @ + 1] ELSE Idle
  /\ queue' = queue \cup {rec.op}
Fail          == rec' = Idle /\ queue' = queue \cup {rec.op}

(* After a write: on to the next step, unless the reply was lost. *)
Continue(step) ==
  \/ rec' = step /\ UNCHANGED <<queue, faults>>
  \/ Fail /\ Fault("apiError")

(* createBGDbOps: a child that exists is left as it is. *)
AllButLast   == rec.next + 1 < rec.upto    \* mutant: off by one
MoreClusters == rec.next < rec.upto

Overwritten(child) == [kind |-> rec.kind, completed |-> FALSE]  \* mutant: not created but set
Created(child) == IF There(child) THEN child
                  ELSE [kind |-> rec.kind, completed |-> FALSE]

CreateChild ==
  /\ rec.op # NoOp
  /\ MoreClusters
  /\ children' = [children EXCEPT ![rec.op][rec.next] = Created(@)]
  /\ Continue([rec EXCEPT !.next = @ + 1])
  /\ UNCHANGED <<ops, listed, cacheVars>>

(* Before the status names a coordinator, its name is empty, and the name    *)
(* that is made of it refused.                                               *)
Named      == rec.upto > 0

NoteProgress ==
  /\ rec.op # NoOp
  /\ Named /\ ~MoreClusters
  /\ rec.fresh
  /\ ops' = [ops EXCEPT ![rec.op].inProgress = TRUE]
  /\ staleOps' = IF ops' = ops THEN staleOps ELSE staleOps \cup {rec.op}
  /\ Continue(Idle)
  /\ UNCHANGED <<listed, children, opsCache, listedCache>>

PassFails ==
  /\ rec.op # NoOp
  /\ \/ ~Named /\ UNCHANGED faults
     \/ Named /\ ~MoreClusters /\ ~rec.fresh /\ UNCHANGED faults
     \/ Fault("apiError")
  /\ Fail
  /\ UNCHANGED <<serverVars, cacheVars>>

CrashOperator ==
  /\ Fault("crash")
  /\ opsCache' = ops /\ listedCache' = listed /\ staleOps' = {}
  /\ queue' = {o \in Op : There(ops[o])}
  /\ rec' = Idle
  /\ UNCHANGED serverVars

-----------------------------------------------------------------------------
Init ==
  /\ ops = [o \in Op |-> NoShardedOp]
  /\ listed \in 0 .. (MaxWorkers + 1)
  /\ children = [o \in Op |-> [c \in Cluster |-> NoChild]]
  /\ opsCache = ops /\ listedCache = listed /\ staleOps = {}
  /\ queue = {}
  /\ rec = Idle
  /\ faults = {}

PassStep == CreateChild \/ NoteProgress \/ PassFails

Next ==
  \/ \E o \in Op : \/ DeleteOp(o) \/ SyncOp(o) \/ Resync(o) \/ Reconcile(o)
                   \/ \E kind \in Kind : CreateOp(o, kind)
                   \/ \E c \in Cluster : DeleteChild(o, c) \/ FinishChild(o, c)
  \/ \E n \in 1 .. (MaxWorkers + 1) : PublishStatus(n)
  \/ SyncListed \/ PassStep \/ CrashOperator

Spec == Init /\ [][Next]_vars

(* Informers catch up, what is queued is taken in turn and its pass goes on, *)
(* and the resync timer keeps ticking.                                       *)
Fairness ==
  /\ WF_vars(SyncListed) /\ WF_vars(PassStep)
  /\ \A o \in Op : WF_vars(SyncOp(o)) /\ WF_vars(Resync(o)) /\ SF_vars(Reconcile(o))

FairSpec == Spec /\ Fairness

-----------------------------------------------------------------------------
(* Every variable stays in its set. *)
TypeOK ==
  /\ ops \in [Op -> ShardedOp] /\ opsCache \in [Op -> ShardedOp]
  /\ listed \in 0 .. (MaxWorkers + 1) /\ listedCache \in 0 .. (MaxWorkers + 1)
  /\ children \in [Op -> [Cluster -> Child]]
  /\ staleOps \subseteq Op
  /\ queue \subseteq Op
  /\ rec \in Worker
  /\ faults \in Faults

(* An operation in progress has a child for every cluster                    *)
(* (reconcile_bgshardeddbops.go:61-62), however often its passes failed on   *)
(* the way: for the coordinator, and for each worker unless the number of    *)
(* workers was edited; unless the user deleted a child; and one of its own   *)
(* kind, unless the name was used before, whose children are found there and *)
(* left.                                                                     *)
ProgressIsReal ==
  \A o \in Op, c \in Cluster :
    ops[o].inProgress /\ (c = 0 \/ (c < listed /\ "edit" \notin faults)) =>
      \/ There(children[o][c]) /\ (children[o][c].kind = ops[o].kind \/ "delete" \in faults)
      \/ "child" \in faults

(* No request is dropped: whatever failed, was edited or named before        *)
(* (reconcile_bgshardeddbops.go:27-58), an operation that is not noted as in *)
(* progress is queued, on its way to the cache, or in hand.  A pass that     *)
(* ends short of the last cluster is taken up again.                         *)
NoRequestDropped ==
  \A o \in Op :
    There(ops[o]) /\ ~ops[o].inProgress => o \in queue \cup staleOps \/ rec.op = o

(* To each cluster the fan-out is one more user who creates BGDbOps: with    *)
(* all its retries and repeated passes it never touches a child that exists, *)
(* so that none loses its completion (reconcile_bgshardeddbops.go:96-104).   *)
Ledger(c) == INSTANCE OpLedger WITH
  Pod         <- {},
  ledger      <- [o \in Op |-> [exists |-> There(children[o][c]), marks |-> {},
                                completed |-> children[o][c].completed]],
  announced   <- {},
  initialized <- TRUE

LedgersKept == [][\A c \in Cluster : [Ledger(c)!Next]_(Ledger(c)!lvars)]_vars

(* Every cluster that the status goes on naming gets the operation, also one *)
(* that joins later or whose child was deleted: passes never stop, since no  *)
(* code ends an operation (reconcile_bgshardeddbops.go:35).                  *)
EveryClusterServed ==
  \A o \in Op, c \in Cluster :
    []<>(There(children[o][c]) \/ ~There(ops[o]) \/ c >= listed)
=============================================================================
