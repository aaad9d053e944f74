---------------------------- MODULE DbOpsHistory ----------------------------
(***************************************************************************)
(* DbOps with history variables, which watch its steps and never guide     *)
(* them, and the safety properties that relate a state to what led to it.  *)
(***************************************************************************)
EXTENDS DbOps

VARIABLES
  announced,  \* BGDbOps ever posted on the BGCluster
  acted,      \* by BGDbOps: pods that did what it asks since it was first posted
  bounced,    \* pods that deleted themselves since the BGCluster last got a posting,
              \* and have not since booted on a BGCluster not yet initialized
  unlisted    \* pods missing from the list by which the reconcile worker found the
              \* BGDbOps completed that it has in hand

history == <<announced, acted, bounced, unlisted>>
hvars   == <<vars, history>>

-----------------------------------------------------------------------------
(* What a step of DbOps did. *)
Posting(o) == cluster'.posted = o /\ cluster.posted # o

Handled(p) == ctl[p].pc = "handling" /\ ctl'[p].pc = "reporting"

Deleted(p) == /\ Handled(p)
              /\ pods[p].phase = "running" /\ pods'[p].phase = "terminating"

Started(p) == ctl[p].pc = "down" /\ ctl'[p].pc = "booting"

(* The handler ran, and a restart has the pod going, if it was not already. *)
Ran(p) == /\ Handled(p)
          /\ ctl[p].snap.posted \in RestartOp => pods'[p].phase = "terminating"

Acted == {p \in Pod : Ran(p) \/ Started(p)}

Completes(o) == ~dbops[o].completed /\ dbops'[o].completed

HInit ==
  /\ Init
  /\ announced = {}
  /\ acted = [o \in Op |-> {}]
  /\ bounced = {}
  /\ unlisted = {}

Record ==
  /\ announced' = announced \cup ({cluster'.posted} \ {NoOp})
  /\ acted' = [o \in Op |-> IF o \in announced' THEN acted[o] \cup Acted ELSE {}]
  /\ bounced' = IF \E o \in Op : Posting(o) THEN {}
                ELSE {p \in Pod : /\ p \in bounced \/ Deleted(p)
                                  /\ ~(Started(p) /\ ~cluster.initialized)}
  /\ unlisted' = IF rec'.pc \notin {"clear", "complete"} THEN {}
                 ELSE IF rec.pc = "idle" THEN {p \in Pod : podCache[p] = "none"}
                 ELSE unlisted

HNext == Next /\ Record

HSpec == HInit /\ [][HNext]_hvars

FairHSpec == HSpec /\ Fairness

-----------------------------------------------------------------------------
(* The objects, through every lagging cache and half-done handler, change  *)
(* only as OpLedger says: no pod's mark on a BGDbOps and no completion is  *)
(* lost to a write from an old copy (controller.go:144, reconcile_bgdbops  *)
(* .go:80), no pod marks an operation that was not posted, and posting or  *)
(* clearing an operation never takes "initialized" off the BGCluster.      *)
Ledger == INSTANCE OpLedger WITH ledger <- dbops,
                                 initialized <- cluster.initialized
LedgerSpec == Ledger!Spec

(* When the operator marks a BGDbOps completed (reconcile_bgdbops.go:48 and *)
(* :80), every pod has done something that was asked of it, but those the   *)
(* list (:50-57) did not show: pods not yet created, and pods between their *)
(* removal and their return, whoever had them removed, count as if they     *)
(* had.  Something is: since some operation, this one if it was the only    *)
(* one, was first posted, the pod's handler asked for the pod to be deleted *)
(* or ran its placeholder, or its controller started anew.  A failed call   *)
(* may have a pod report a restart that did not come about.                 *)
CompletedMeansActed ==
  [][\A o \in Op, p \in Pod :
       Completes(o) => \/ \E a \in Op : p \in acted[a]
                       \/ p \in unlisted
                       \/ RestartOp # {} /\ left["apiError"] < Budget["apiError"]]_hvars

(* A pod deletes itself at most once for a posting: the boot that follows   *)
(* reports the restart (bootstrap.go:102), so that handleRestart            *)
(* (controller.go:121) does not restart it again.  A boot that finds the    *)
(* cluster not yet initialized reports nothing, and lifts that; so does an  *)
(* API call that fails, the reading of the report among them.               *)
OncePerPosting ==
  [][\A p \in Pod : Deleted(p) => \/ p \notin bounced
                                  \/ left'["apiError"] < Budget["apiError"]]_hvars

(* No request is lost, whatever else is asked for, fails or crashes         *)
(* (bgdbops_controller.go:32, reconcile_bgdbops.go:35-81): a BGDbOps that   *)
(* was never posted and is not completed is queued, on its way to the       *)
(* operator's cache, or in the hands of the worker.                         *)
NoRequestLost ==
  \A o \in Op :
    dbops[o].exists /\ ~dbops[o].completed /\ o \notin announced
      => o \in queue \cup staleOps \/ rec.op = o

-----------------------------------------------------------------------------
(* What the repository says and the code does not do. *)

(* "Check if all pods that are members of the BGCluster have completed the  *)
(* operation" (reconcile_bgdbops.go:48): if the list showed all of them, a  *)
(* BGDbOps that is marked completed was at least posted once.               *)
CompletedMeansPosted ==
  [][\A o \in Op : Completes(o) /\ unlisted = {} => o \in announced]_hvars
=============================================================================
