------------------------- MODULE ShardedDbOpsProofs -------------------------
(***************************************************************************)
(* Proofs about ShardedDbOps, for any operations, kinds and number of      *)
(* workers: its type invariant, that an operation in progress has begun,   *)
(* and that the fan-out respects the ledger of every cluster.              *)
(***************************************************************************)
EXTENDS ShardedDbOps, TLAPS

LEMMA ConstantsTyped ==
  /\ NoShardedOp \in ShardedOp /\ ~There(NoShardedOp) /\ ~NoShardedOp.inProgress
  /\ NoChild \in Child /\ ~There(NoChild) /\ ~NoChild.completed
  /\ Idle \in Worker /\ Idle.op = NoOp /\ ~Idle.fresh
  /\ 0 \in Cluster
BY WorkersAssumption DEF NoShardedOp, ShardedOp, NoChild, Child, Idle, Worker, There, Cluster

LEMMA FaultTyped == ASSUME NEW kind, Fault(kind) PROVE faults' \in Faults
BY DEF Fault

LEMMA ContinueTyped ==
  ASSUME TypeOK, NEW step \in Worker, Continue(step), rec.op # NoOp
  PROVE  rec' \in Worker /\ queue' \subseteq Op /\ faults' \in Faults
BY ConstantsTyped, FaultTyped DEF Continue, Fail, TypeOK, Worker

LEMMA WriteOpTyped ==
  ASSUME TypeOK, NEW o \in Op, NEW object \in ShardedOp, WriteOp(o, object)
  PROVE  ops' \in [Op -> ShardedOp] /\ staleOps' \subseteq Op /\ rec' \in Worker
<1>1. ops' \in [Op -> ShardedOp] /\ staleOps' \subseteq Op
  BY DEF WriteOp, TypeOK
<1>2. rec' \in Worker
  BY DEF WriteOp, TypeOK, Worker
<1> QED BY <1>1, <1>2

LEMMA StepTyped == TypeOK /\ [Next]_vars => TypeOK'
<1> SUFFICES ASSUME TypeOK, [Next]_vars PROVE TypeOK'
  OBVIOUS
<1> USE DEF TypeOK
<1>1. CASE UNCHANGED vars
  BY <1>1 DEF vars, serverVars, cacheVars
<1>2. ASSUME NEW o \in Op, NEW kind \in Kind, CreateOp(o, kind) PROVE TypeOK'
  <2>1. [kind |-> kind, inProgress |-> FALSE] \in ShardedOp
    BY DEF ShardedOp
  <2> QED BY <1>2, <2>1, WriteOpTyped DEF CreateOp
<1>3. ASSUME NEW o \in Op, DeleteOp(o) PROVE TypeOK'
  BY <1>3, ConstantsTyped, FaultTyped, WriteOpTyped DEF DeleteOp
<1>4. ASSUME NEW o \in Op, NEW c \in Cluster, DeleteChild(o, c) PROVE TypeOK'
  BY <1>4, ConstantsTyped, FaultTyped DEF DeleteChild, cacheVars
<1>5. ASSUME NEW o \in Op, NEW c \in Cluster, FinishChild(o, c) PROVE TypeOK'
  <2>1. children[o][c] \in Child
    OBVIOUS
  <2>2. [children[o] EXCEPT ![c].completed = TRUE] \in [Cluster -> Child]
    BY <2>1 DEF Child
  <2>3. children' \in [Op -> [Cluster -> Child]]
    BY <1>5, <2>2 DEF FinishChild
  <2> QED BY <1>5, <2>3 DEF FinishChild, cacheVars
<1>6. ASSUME NEW n \in 1 .. (MaxWorkers + 1), PublishStatus(n) PROVE TypeOK'
  <2>1. listed' \in 0 .. (MaxWorkers + 1)
    BY <1>6, WorkersAssumption DEF PublishStatus
  <2>2. faults' \in Faults
    BY <1>6, FaultTyped DEF PublishStatus
  <2> QED BY <1>6, <2>1, <2>2 DEF PublishStatus, cacheVars
<1>7. ASSUME NEW o \in Op, SyncOp(o) \/ Resync(o) PROVE TypeOK'
  BY <1>7 DEF SyncOp, Resync, serverVars, cacheVars
<1>8. CASE SyncListed
  BY <1>8 DEF SyncListed, serverVars
<1>9. ASSUME NEW o \in Op, Reconcile(o) PROVE TypeOK'
  <2>1. rec' \in Worker
    BY <1>9, ConstantsTyped, WorkersAssumption DEF Reconcile, Worker, ShardedOp
  <2> QED BY <1>9, <2>1 DEF Reconcile, serverVars, cacheVars
<1>10. CASE CreateChild
  <2>1. rec.op \in Op /\ rec.next \in Cluster /\ rec.kind \in Kind \cup {NoKind}
    BY <1>10, WorkersAssumption DEF CreateChild, MoreClusters, Worker, Cluster
  <2>2. \A child \in Child : Created(child) \in Child
    BY <2>1 DEF Created, Child
  <2>3. children' \in [Op -> [Cluster -> Child]]
    BY <1>10, <2>1, <2>2 DEF CreateChild
  <2>4. [rec EXCEPT !.next = @ + 1] \in Worker
    BY <1>10, WorkersAssumption DEF CreateChild, MoreClusters, Worker
  <2> QED BY <1>10, <2>3, <2>4, ContinueTyped DEF CreateChild, cacheVars
<1>11. CASE NoteProgress
  <2>1. rec.op \in Op
    BY <1>11 DEF NoteProgress, Worker
  <2>2. ops' \in [Op -> ShardedOp] /\ staleOps' \subseteq Op
    BY <1>11, <2>1 DEF NoteProgress, ShardedOp
  <2> QED BY <1>11, <2>2, ConstantsTyped, ContinueTyped DEF NoteProgress
<1>12. CASE PassFails
  BY <1>12, ConstantsTyped, FaultTyped DEF PassFails, Fail, Worker, serverVars, cacheVars
<1>13. CASE CrashOperator
  BY <1>13, ConstantsTyped, FaultTyped DEF CrashOperator, serverVars
<1> QED
  BY <1>1, <1>2, <1>3, <1>4, <1>5, <1>6, <1>7, <1>8, <1>9, <1>10, <1>11, <1>12, <1>13
  DEF Next, PassStep

LEMMA InitTyped == Init => TypeOK
BY ConstantsTyped, FaultAssumption, WorkersAssumption DEF Init, TypeOK

(* Every variable stays in its set; above all, a pass never leaves the list  *)
(* of clusters that it began with (reconcile_bgshardeddbops.go:50-58).       *)
THEOREM TypeCorrect == Spec => []TypeOK
BY InitTyped, StepTyped, PTL DEF Spec

-----------------------------------------------------------------------------
(***************************************************************************)
(* What is known of an operation's kind: a cached copy that is current is  *)
(* the server's, the worker's kind is the server's while its copy is       *)
(* fresh, and, until some operation is deleted, every copy of a kind is    *)
(* the one the user gave.                                                  *)
(***************************************************************************)
CopiesCurrent ==
  /\ \A o \in Op : o \notin staleOps => opsCache[o] = ops[o]
  /\ rec.op \in Op /\ rec.fresh => rec.kind = ops[rec.op].kind

SameKind(kind, o) == kind # NoKind => kind = ops[o].kind

OneKind ==
  "delete" \notin faults =>
    \A o \in Op : /\ SameKind(opsCache[o].kind, o)
                  /\ \A c \in Cluster : SameKind(children[o][c].kind, o)
                  /\ rec.op = o => rec.kind = ops[o].kind

(* Until somebody edits it, the number of clusters is published once, and a  *)
(* pass, and one that noted its progress, goes by that number or by none.    *)
PublishedOnce ==
  "edit" \notin faults => /\ listedCache \in {0, listed} /\ rec.upto \in {0, listed}
                          /\ listed = 0 => \A o \in Op : ~ops[o].inProgress

InReach(c) == c = 0 \/ (c < listed /\ "edit" \notin faults)

(* A pass has found or made a child for each cluster it is past, and so has  *)
(* one that noted its progress, for each cluster it was to reach.            *)
Passed ==
  "child" \notin faults =>
    \A o \in Op, c \in Cluster :
      (ops[o].inProgress /\ InReach(c)) \/ (rec.op = o /\ c < rec.next) => There(children[o][c])

HasKind == \A o \in Op : /\ rec.op = o => rec.kind # NoKind
                         /\ ops[o].inProgress => There(ops[o])

KindInv == CopiesCurrent /\ OneKind /\ HasKind

Inv == TypeOK /\ KindInv /\ PublishedOnce /\ Passed

LEMMA InvImplies == Inv => ProgressIsReal
<1> SUFFICES ASSUME Inv, NEW o \in Op, NEW c \in Cluster,
                    ops[o].inProgress, InReach(c), "child" \notin faults
             PROVE  There(children[o][c]) /\ (children[o][c].kind = ops[o].kind \/ "delete" \in faults)
  BY DEF ProgressIsReal, InReach
<1>1. There(children[o][c])
  BY DEF Inv, Passed
<1> QED BY <1>1, ConstantsTyped DEF Inv, KindInv, OneKind, SameKind, There

LEMMA InitInv == Init => Inv
<1> SUFFICES ASSUME Init PROVE Inv
  OBVIOUS
<1>1. rec.op \notin Op
  BY NoneAssumption, ConstantsTyped DEF Init
<1> QED BY <1>1, InitTyped, ConstantsTyped
        DEF Init, Inv, KindInv, CopiesCurrent, OneKind, SameKind, PublishedOnce, Passed, HasKind,
            There, Idle, Cluster

LEMMA StepKind == TypeOK /\ KindInv /\ [Next]_vars => KindInv'
<1> SUFFICES ASSUME TypeOK, KindInv, [Next]_vars PROVE KindInv'
  OBVIOUS
<1>0. TypeOK /\ TypeOK'
  BY StepTyped
<1> USE DEF There
<1>1. CASE UNCHANGED vars
  BY <1>0, <1>1 DEF KindInv, CopiesCurrent, OneKind, SameKind, HasKind,
                    vars, serverVars, cacheVars
<1>2. ASSUME NEW o \in Op, NEW kind \in Kind, CreateOp(o, kind) PROVE KindInv'
  <2>1. /\ ops[o].kind = NoKind /\ kind # NoKind /\ o \in staleOps'
        /\ ops' = [ops EXCEPT ![o] = [kind |-> kind, inProgress |-> FALSE]]
    BY <1>0, <1>2, NoneAssumption DEF CreateOp, WriteOp, TypeOK
  <2>2. \A p \in Op : p # o => ops'[p] = ops[p] /\ (p \notin staleOps' => p \notin staleOps)
    BY <1>0, <1>2, <2>1 DEF CreateOp, WriteOp, TypeOK
  <2>3. /\ rec'.op = rec.op /\ rec'.kind = rec.kind /\ rec'.next = rec.next
        /\ rec'.fresh => rec.fresh /\ rec.op # o
    BY <1>0, <1>2, <2>1 DEF CreateOp, WriteOp, TypeOK, Worker
  <2>4. ops'[o].kind = kind /\ ~ops'[o].inProgress
    BY <1>0, <2>1 DEF TypeOK
  <2>5. CopiesCurrent'
    BY <1>0, <1>2, <2>1, <2>2, <2>3 DEF CopiesCurrent, CreateOp, KindInv
  <2>6. OneKind'
    BY <1>0, <1>2, <2>1, <2>2, <2>3 DEF OneKind, SameKind, HasKind, CreateOp, KindInv
  <2>7. HasKind'
    BY <1>0, <1>2, <2>2, <2>3, <2>4 DEF HasKind, CreateOp, KindInv
  <2> QED BY <1>0, <2>5, <2>6, <2>7 DEF KindInv
<1>3. ASSUME NEW o \in Op, DeleteOp(o) PROVE KindInv'
  <2>1. "delete" \in faults' /\ ("child" \in faults => "child" \in faults')
    BY <1>3 DEF DeleteOp, Fault
  <2>2. o \in staleOps' /\ ops' = [ops EXCEPT ![o] = NoShardedOp]
    BY <1>3, ConstantsTyped DEF DeleteOp, WriteOp
  <2>3. \A p \in Op : p # o => ops'[p] = ops[p] /\ (p \notin staleOps' => p \notin staleOps)
    BY <1>0, <1>3, <2>2 DEF DeleteOp, WriteOp, TypeOK
  <2>4. /\ rec'.op = rec.op /\ rec'.kind = rec.kind /\ rec'.next = rec.next
        /\ rec'.fresh => rec.fresh /\ rec.op # o
    BY <1>0, <1>3, ConstantsTyped DEF DeleteOp, WriteOp, TypeOK, Worker
  <2>5. ~ops'[o].inProgress
    BY <1>0, <2>2, ConstantsTyped DEF TypeOK
  <2>6. CopiesCurrent'
    BY <1>0, <1>3, <2>2, <2>3, <2>4 DEF CopiesCurrent, DeleteOp, KindInv
  <2>7. OneKind'
    BY <2>1 DEF OneKind
  <2>8. HasKind'
    BY <1>0, <1>3, <2>1, <2>3, <2>4, <2>5 DEF HasKind, DeleteOp, KindInv
  <2> QED BY <1>0, <2>6, <2>7, <2>8 DEF KindInv
<1>4. ASSUME NEW o \in Op, NEW c \in Cluster, DeleteChild(o, c) PROVE KindInv'
  <2>1. "child" \in faults'
    BY <1>4 DEF DeleteChild, Fault
  <2>2. \A p \in Op, d \in Cluster : \/ children'[p][d] = children[p][d]
                                   \/ children'[p][d] = NoChild
    BY <1>0, <1>4 DEF DeleteChild, TypeOK
  <2> QED BY <1>0, <1>4, <2>1, <2>2, ConstantsTyped
          DEF KindInv, CopiesCurrent, OneKind, SameKind, HasKind, DeleteChild, cacheVars, Fault, NoChild
<1>5. ASSUME NEW o \in Op, NEW c \in Cluster, FinishChild(o, c) PROVE KindInv'
  <2>1. \A p \in Op, d \in Cluster : children'[p][d].kind = children[p][d].kind
    BY <1>0, <1>5 DEF FinishChild, TypeOK, Child
  <2> QED BY <1>0, <1>5, <2>1, ConstantsTyped
          DEF KindInv, CopiesCurrent, OneKind, SameKind, HasKind, FinishChild, cacheVars
<1>6. ASSUME NEW n \in 1 .. (MaxWorkers + 1), PublishStatus(n) PROVE KindInv'
  BY <1>0, <1>6 DEF KindInv, CopiesCurrent, OneKind, SameKind, HasKind, PublishStatus, Fault, cacheVars
<1>7. ASSUME NEW o \in Op, SyncOp(o) PROVE KindInv'
  BY <1>0, <1>7 DEF KindInv, CopiesCurrent, OneKind, SameKind, HasKind, SyncOp, serverVars, TypeOK
<1>8. ASSUME NEW o \in Op, Resync(o) PROVE KindInv'
  BY <1>0, <1>8 DEF KindInv, CopiesCurrent, OneKind, SameKind, HasKind, Resync, serverVars, cacheVars
<1>9. CASE SyncListed
  BY <1>0, <1>9 DEF KindInv, CopiesCurrent, OneKind, SameKind, HasKind, SyncListed, serverVars
<1>10. ASSUME NEW o \in Op, Reconcile(o) PROVE KindInv'
  BY <1>0, <1>10, ConstantsTyped, NoneAssumption
  DEF KindInv, CopiesCurrent, OneKind, SameKind, HasKind, Reconcile, serverVars, cacheVars, TypeOK, ShardedOp
<1>11. CASE CreateChild
  <2> DEFINE p == rec.op
             d == rec.next
  <2>1. p \in Op /\ d \in Cluster /\ rec.kind # NoKind /\ d \in Nat
    BY <1>0, <1>11, WorkersAssumption DEF CreateChild, MoreClusters, TypeOK, Worker, Cluster, KindInv, HasKind
  <2>2. /\ children'[p][d] = Created(children[p][d])
        /\ \A q \in Op, e \in Cluster : q # p \/ e # d => children'[q][e] = children[q][e]
    BY <1>0, <1>11, <2>1 DEF CreateChild, TypeOK
  <2>3. \/ rec' = [rec EXCEPT !.next = @ + 1]
        \/ rec' = Idle
    BY <1>11 DEF CreateChild, Continue, Fail
  <2>4. /\ rec'.op \in Op => rec'.op = p /\ rec'.kind = rec.kind /\ rec'.fresh = rec.fresh
        /\ faults \subseteq faults'
    BY <1>0, <1>11, <2>3, ConstantsTyped, NoneAssumption
    DEF CreateChild, Continue, Fault, TypeOK, Worker
  <2>5. There(children'[p][d]) /\ \A q \in Op, e \in Cluster : There(children[q][e]) => There(children'[q][e])
    BY <2>1, <2>2 DEF Created
  <2>6. CopiesCurrent'
    BY <1>0, <1>11, <2>4 DEF CopiesCurrent, CreateChild, cacheVars, KindInv
  <2>7. ASSUME "delete" \notin faults', NEW q \in Op
        PROVE  /\ SameKind(opsCache[q].kind, q)'
               /\ \A e \in Cluster : SameKind(children[q][e].kind, q)'
               /\ rec'.op = q => rec'.kind = ops'[q].kind
    <3>1. "delete" \notin faults /\ ops' = ops /\ opsCache' = opsCache
      BY <1>11, <2>4, <2>7 DEF CreateChild, cacheVars
    <3>2. /\ SameKind(opsCache[q].kind, q) /\ \A e \in Cluster : SameKind(children[q][e].kind, q)
          /\ rec.op = q => rec.kind = ops[q].kind
      BY <3>1 DEF KindInv, OneKind
    <3>3. SameKind(opsCache[q].kind, q)'
      BY <3>1, <3>2 DEF SameKind
    <3>4. ASSUME NEW e \in Cluster PROVE SameKind(children[q][e].kind, q)'
      <4>1. CASE q = p /\ e = d
        BY <2>2, <3>1, <3>2, <4>1 DEF SameKind, Created
      <4>2. CASE q # p \/ e # d
        BY <2>2, <3>1, <3>2, <4>2 DEF SameKind
      <4> QED BY <4>1, <4>2
    <3>5. rec'.op = q => rec'.kind = ops'[q].kind
      BY <2>4, <3>1, <3>2
    <3> QED BY <3>3, <3>4, <3>5
  <2>9. HasKind'
    BY <1>11, <2>1, <2>4 DEF HasKind, CreateChild, KindInv
  <2>10. OneKind'
    BY <2>7 DEF OneKind
  <2> QED BY <2>6, <2>9, <2>10 DEF KindInv
<1>12. CASE NoteProgress
  <2>1. rec.op \in Op /\ rec.kind # NoKind /\ rec.next > 0
    BY <1>0, <1>12, WorkersAssumption DEF NoteProgress, Named, MoreClusters, TypeOK, Worker, KindInv, HasKind
  <2>2. rec'.op \notin Op /\ faults \subseteq faults'
    BY <1>12, ConstantsTyped, NoneAssumption DEF NoteProgress, Continue, Fail, Fault
  <2>3. \A q \in Op : /\ ops'[q].kind = ops[q].kind
                      /\ ops'[q].inProgress => ops[q].inProgress \/ q = rec.op
                      /\ q # rec.op => ops'[q] = ops[q]
    BY <1>0, <1>12, <2>1 DEF NoteProgress, TypeOK, ShardedOp
  <2>4. There(ops[rec.op])
    BY <1>12, <2>1 DEF NoteProgress, KindInv, CopiesCurrent
  <2>5. CopiesCurrent'
    BY <1>0, <1>12, <2>2, <2>3 DEF CopiesCurrent, NoteProgress, KindInv
  <2>6. OneKind'
    BY <1>0, <1>12, <2>2, <2>3 DEF OneKind, SameKind, NoteProgress, KindInv
  <2>9. HasKind'
    BY <1>0, <1>12, <2>1, <2>2, <2>3, <2>4 DEF HasKind, NoteProgress, KindInv
  <2> QED BY <2>5, <2>6, <2>9 DEF KindInv
<1>13. CASE PassFails
  BY <1>0, <1>13, ConstantsTyped, NoneAssumption
  DEF KindInv, CopiesCurrent, OneKind, SameKind, HasKind, PassFails, Fail, Fault, serverVars, cacheVars
<1>14. CASE CrashOperator
  BY <1>0, <1>14, ConstantsTyped, NoneAssumption
  DEF KindInv, CopiesCurrent, OneKind, SameKind, HasKind, CrashOperator, Fault, serverVars
<1> QED
  BY <1>1, <1>2, <1>3, <1>4, <1>5, <1>6, <1>7, <1>8, <1>9, <1>10, <1>11, <1>12, <1>13, <1>14
  DEF Next, PassStep

LEMMA FaultsGrow == [Next]_vars => faults \subseteq faults'
BY DEF Next, vars, Fault, CreateOp, DeleteOp, DeleteChild, FinishChild, PublishStatus, SyncOp,
       SyncListed, Resync, Reconcile, PassStep, CreateChild, NoteProgress, PassFails, Continue,
       CrashOperator

(* What all but five actions leave as it was.                                *)
Quiet == /\ listed' = listed /\ listedCache' \in {listedCache, listed}
         /\ rec'.upto \in {rec.upto, listedCache, 0}
         /\ \/ rec'.op = rec.op /\ rec'.next = rec.next
            \/ rec'.next = 0
         /\ \A o \in Op : /\ ops'[o].inProgress => ops[o].inProgress
                          /\ \A c \in Cluster : There(children[o][c]) => There(children'[o][c])

LEMMA OthersQuiet ==
  ASSUME TypeOK, [Next]_vars, ~NoteProgress, ~CreateChild,
         ~\E n \in 1 .. (MaxWorkers + 1) : PublishStatus(n),
         ~\E o \in Op, c \in Cluster : DeleteChild(o, c)
  PROVE  Quiet
<1> USE DEF Quiet, There
<1>1. CASE UNCHANGED vars
  BY <1>1 DEF vars, serverVars, cacheVars
<1>2. ASSUME NEW o \in Op, NEW object \in ShardedOp, WriteOp(o, object), ~object.inProgress
      PROVE  /\ \A p \in Op : ops'[p].inProgress => ops[p].inProgress
             /\ rec'.op = rec.op /\ rec'.next = rec.next /\ rec'.upto = rec.upto
  BY <1>2 DEF WriteOp, TypeOK, Worker
<1>3. ASSUME NEW o \in Op, NEW kind \in Kind, CreateOp(o, kind) PROVE Quiet
  <2>1. [kind |-> kind, inProgress |-> FALSE] \in ShardedOp
    BY DEF ShardedOp
  <2> QED BY <1>2, <1>3, <2>1 DEF CreateOp
<1>4. ASSUME NEW o \in Op, DeleteOp(o) PROVE Quiet
  BY <1>2, <1>4, ConstantsTyped DEF DeleteOp
<1>5. ASSUME NEW o \in Op, NEW c \in Cluster, FinishChild(o, c) PROVE Quiet
  <2>1. \A p \in Op, d \in Cluster : children'[p][d].kind = children[p][d].kind
    BY <1>5 DEF FinishChild, TypeOK, Child
  <2> QED BY <1>5, <2>1 DEF FinishChild, cacheVars
<1>6. ASSUME NEW o \in Op, SyncOp(o) \/ Resync(o) PROVE Quiet
  BY <1>6 DEF SyncOp, Resync, serverVars, cacheVars
<1>7. CASE SyncListed
  BY <1>7 DEF SyncListed, serverVars
<1>8. ASSUME NEW o \in Op, Reconcile(o) PROVE Quiet
  BY <1>8 DEF Reconcile, Idle, serverVars, cacheVars
<1>9. CASE PassFails \/ CrashOperator
  BY <1>9 DEF PassFails, Fail, CrashOperator, Idle, serverVars, cacheVars
<1> QED BY <1>1, <1>3, <1>4, <1>5, <1>6, <1>7, <1>8, <1>9 DEF Next, PassStep

LEMMA StepPublished == TypeOK /\ PublishedOnce /\ [Next]_vars => PublishedOnce'
<1> SUFFICES ASSUME TypeOK, PublishedOnce, [Next]_vars, "edit" \notin faults'
             PROVE  /\ listedCache' \in {0, listed'} /\ rec'.upto \in {0, listed'}
                    /\ listed' = 0 => \A o \in Op : ~ops'[o].inProgress
  BY DEF PublishedOnce
<1>1. /\ listedCache \in {0, listed} /\ rec.upto \in {0, listed}
      /\ listed = 0 => \A o \in Op : ~ops[o].inProgress
  <2>1. "edit" \notin faults
    BY FaultsGrow
  <2> QED BY <2>1 DEF PublishedOnce
<1>2. CASE Quiet
  BY <1>1, <1>2 DEF Quiet
<1>3. ASSUME NEW n \in 1 .. (MaxWorkers + 1), PublishStatus(n)
      PROVE  /\ listed = 0 /\ listed' = n /\ n # 0
             /\ listedCache' = listedCache /\ rec' = rec
  BY <1>3, WorkersAssumption DEF PublishStatus, Fault, cacheVars
<1>4. CASE CreateChild
  <2>1. rec'.upto \in {rec.upto, 0}
    BY <1>4 DEF CreateChild, Continue, Fail, Idle, TypeOK, Worker
  <2> QED BY <1>1, <1>4, <2>1 DEF CreateChild, cacheVars
<1>5. CASE NoteProgress
  <2>1. /\ listed' = listed /\ listedCache' = listedCache
        /\ rec.upto > 0 /\ rec'.upto = 0 /\ rec.upto \in Nat
    BY <1>5 DEF NoteProgress, Named, Continue, Fail, Idle, TypeOK, Worker
  <2> QED BY <1>1, <2>1
<1>6. ASSUME NEW o \in Op, NEW c \in Cluster, DeleteChild(o, c)
      PROVE  /\ listed' = listed /\ listedCache' = listedCache /\ rec' = rec /\ ops' = ops
  BY <1>6 DEF DeleteChild, cacheVars
<1> QED BY <1>1, <1>2, <1>3, <1>4, <1>5, <1>6, OthersQuiet

LEMMA StepPassed ==
  Inv /\ [Next]_vars => Passed'
<1> SUFFICES ASSUME TypeOK, KindInv, PublishedOnce, Passed, [Next]_vars, "child" \notin faults',
                    NEW o \in Op, NEW c \in Cluster,
                    \/ ops'[o].inProgress /\ InReach(c)'
                    \/ rec'.op = o /\ c < rec'.next
             PROVE  There(children'[o][c])
  BY DEF Inv, Passed
<1>0. "child" \notin faults /\ ("edit" \notin faults' => "edit" \notin faults)
  BY FaultsGrow
<1>1. (ops[o].inProgress /\ InReach(c)) \/ (rec.op = o /\ c < rec.next) => There(children[o][c])
  BY <1>0 DEF Passed
<1>2. CASE Quiet
  <2>1. ~(c < 0)
    BY DEF Cluster
  <2> QED BY <1>0, <1>1, <1>2, <2>1 DEF Quiet, InReach
<1>3. ASSUME NEW n \in 1 .. (MaxWorkers + 1), PublishStatus(n) PROVE There(children'[o][c])
  <2>1. ops' = ops /\ children' = children /\ rec' = rec
    BY <1>3 DEF PublishStatus, cacheVars
  <2>2. "edit" \notin faults' => listed = 0
    BY <1>3 DEF PublishStatus, Fault
  <2>3. ops[o].inProgress => "edit" \in faults'
    BY <1>0, <2>2 DEF PublishedOnce
  <2> QED BY <1>1, <2>1, <2>3 DEF InReach
<1>4. CASE CreateChild
  <2> DEFINE p == rec.op
             d == rec.next
  <2>1. p \in Op /\ d \in Cluster /\ d \in Nat /\ rec \in Worker
    BY <1>4, WorkersAssumption DEF CreateChild, MoreClusters, TypeOK, Worker, Cluster
  <2>2. CASE o = p /\ c = d
    <3>1. children'[o][c] = Created(children[o][c])
      <4>1. /\ children \in [Op -> [Cluster -> Child]]
            /\ children' = [children EXCEPT ![p][d] = Created(@)]
        BY <1>4 DEF CreateChild, TypeOK
      <4> QED BY <2>1, <2>2, <4>1
    <3>2. rec.kind # NoKind
      BY <2>1 DEF KindInv, HasKind
    <3> QED BY <3>1, <3>2 DEF Created, There
  <2>3. CASE ~(o = p /\ c = d)
    <3>1. children'[o][c] = children[o][c]
      BY <1>4, <2>1, <2>3 DEF CreateChild, TypeOK
    <3>2. rec'.op = o => o = p /\ rec'.next = d + 1
      BY <1>4, <2>1, ConstantsTyped, NoneAssumption DEF CreateChild, Continue, Fail, Worker
    <3>3. ops' = ops /\ listed' = listed
      BY <1>4 DEF CreateChild
    <3> QED BY <1>0, <1>1, <2>1, <2>3, <3>1, <3>2, <3>3 DEF InReach, Cluster
  <2> QED BY <2>2, <2>3
<1>5. CASE NoteProgress
  <2>1. /\ rec.upto > 0 /\ rec.next >= rec.upto /\ rec.next \in Nat /\ rec.upto \in Nat
        /\ listed' = listed /\ children' = children
    BY <1>5 DEF NoteProgress, Named, MoreClusters, TypeOK, Worker
  <2>2. rec'.op # o
    BY <1>5, ConstantsTyped, NoneAssumption DEF NoteProgress, Continue, Fail
  <2>3. ops'[o].inProgress => ops[o].inProgress \/ o = rec.op
    BY <1>5 DEF NoteProgress, TypeOK
  <2>4. InReach(c)' => InReach(c) /\ c < rec.next
    BY <1>0, <2>1 DEF InReach, PublishedOnce, Cluster
  <2> QED BY <1>1, <2>1, <2>2, <2>3, <2>4
<1>6. ASSUME NEW q \in Op, NEW d \in Cluster, DeleteChild(q, d) PROVE FALSE
  BY <1>6 DEF DeleteChild, Fault
<1> QED BY <1>2, <1>3, <1>4, <1>5, <1>6, OthersQuiet

LEMMA StepInv == Inv /\ [Next]_vars => Inv'
BY StepTyped, StepKind, StepPublished, StepPassed DEF Inv

(* An operation said to be in progress has a child for every cluster, of its *)
(* own kind, whatever calls failed and however old the caches were: of the   *)
(* workers' when their number was not edited.                                *)
THEOREM ProgressHasBegun == Spec => []ProgressIsReal
BY InitInv, StepInv, InvImplies, PTL DEF Spec

-----------------------------------------------------------------------------
(***************************************************************************)
(* The ledger of a cluster, seen through the refinement mapping: every     *)
(* step of the fan-out opens one operation, or withdraws or closes it, or  *)
(* touches no operation of that cluster.                                   *)
(***************************************************************************)
Entry(child) == [exists |-> There(child), marks |-> {}, completed |-> child.completed]
Book(c)      == [o \in Op |-> Entry(children[o][c])]

(* A child changed alone changes one entry of one cluster's ledger.          *)
ChildAlone(o, d) ==
  \A q \in Op, e \in Cluster : q # o \/ e # d => children'[q][e] = children[q][e]

LEMMA OneEntry ==
  ASSUME TypeOK, TypeOK', NEW o \in Op, NEW c \in Cluster, ChildAlone(o, c)
  PROVE  Book(c)' = [Book(c) EXCEPT ![o] = Entry(children'[o][c])]
BY DEF Book, Entry, There, ChildAlone

(* A ledger's entry is known by its fields.                                  *)
Entries == [exists : BOOLEAN, marks : {{}}, completed : BOOLEAN]

LEMMA EntryOfChild ==
  ASSUME NEW child \in Child
  PROVE  /\ Entry(child) \in Entries
         /\ Entry(child).exists = There(child) /\ Entry(child).completed = child.completed
BY DEF Entry, Entries, There, Child

LEMMA SameEntry ==
  ASSUME NEW a \in Entries, NEW b \in Entries, a.exists = b.exists, a.completed = b.completed
  PROVE  a = b
BY DEF Entries

LEMMA EntryOpened ==
  ASSUME NEW a \in Entries, NEW b \in Entries, b.exists, b.completed = a.completed
  PROVE  [a EXCEPT !.exists = TRUE] = b
<1>1. [a EXCEPT !.exists = TRUE] \in Entries
  BY DEF Entries
<1>2. [a EXCEPT !.exists = TRUE].exists = TRUE /\ [a EXCEPT !.exists = TRUE].completed = a.completed
  BY DEF Entries
<1> QED BY <1>1, <1>2, SameEntry DEF Entries

LEMMA EntryClosed ==
  ASSUME NEW a \in Entries, NEW b \in Entries, b.exists = a.exists, b.completed
  PROVE  [a EXCEPT !.completed = TRUE] = b
<1>1. [a EXCEPT !.completed = TRUE] \in Entries
  BY DEF Entries
<1>2. [a EXCEPT !.completed = TRUE].completed = TRUE /\ [a EXCEPT !.completed = TRUE].exists = a.exists
  BY DEF Entries
<1> QED BY <1>1, <1>2, SameEntry DEF Entries

LEMMA BookKept ==
  ASSUME NEW c \in Cluster, \A o \in Op : children'[o][c] = children[o][c]
  PROVE  UNCHANGED Ledger(c)!lvars
BY DEF Ledger!lvars, There

LEMMA OpenStep ==
  ASSUME Inv, TypeOK', NEW c \in Cluster, CreateChild
  PROVE  [Ledger(c)!Next]_(Ledger(c)!lvars)
<1>0. TypeOK
  BY DEF Inv
<1>1. rec.op \in Op /\ rec.next \in Cluster /\ rec.kind # NoKind
  BY <1>0, WorkersAssumption DEF CreateChild, MoreClusters, TypeOK, Worker, Cluster, Inv, KindInv, HasKind
<1>2. /\ children'[rec.op][rec.next] = Created(children[rec.op][rec.next])
      /\ ChildAlone(rec.op, rec.next)
  BY <1>0, <1>1 DEF CreateChild, TypeOK, ChildAlone
<1>3. CASE c # rec.next \/ There(children[rec.op][rec.next])
  BY <1>1, <1>2, <1>3, BookKept DEF Created, ChildAlone
<1>4. CASE c = rec.next /\ ~There(children[rec.op][rec.next])
  <2>1. Book(c)' = [Book(c) EXCEPT ![rec.op] = Entry(children'[rec.op][c])]
    BY <1>0, <1>1, <1>2, <1>4, OneEntry
  <2>2. Entry(children'[rec.op][c]) = [Ledger(c)!Blank EXCEPT !.exists = TRUE]
    <3>1. children'[rec.op][c] = [kind |-> rec.kind, completed |-> FALSE]
      BY <1>2, <1>4 DEF Created
    <3>2. There(children'[rec.op][c]) /\ children'[rec.op][c].completed = FALSE
      BY <1>1, <3>1 DEF There
    <3>3. Ledger(c)!Blank \in Entries /\ ~Ledger(c)!Blank.completed
      BY DEF Ledger!Blank, Entries
    <3>4. children'[rec.op][c] \in Child
      BY <1>1 DEF TypeOK
    <3> QED BY <3>2, <3>3, <3>4, EntryOfChild, EntryOpened DEF Entries
  <2>3. PICK o \in Op : o = rec.op
    BY <1>1
  <2>4. Ledger(c)!Open(o)
    BY <1>4, <2>1, <2>2, <2>3 DEF Ledger!Open, Book, Entry
  <2> QED BY <2>4 DEF Ledger!Next
<1> QED BY <1>3, <1>4

LEMMA WithdrawStep ==
  ASSUME TypeOK, TypeOK', NEW c \in Cluster, NEW o \in Op, NEW d \in Cluster, DeleteChild(o, d)
  PROVE  [Ledger(c)!Next]_(Ledger(c)!lvars)
<1>1. children'[o][d] = NoChild /\ ChildAlone(o, d)
  BY DEF DeleteChild, TypeOK, ChildAlone
<1>2. CASE c # d
  BY <1>1, <1>2, BookKept DEF ChildAlone
<1>3. CASE c = d
  <2>1. Book(c)' = [Book(c) EXCEPT ![o] = Entry(NoChild)]
    BY <1>1, <1>3, OneEntry
  <2>2. Entry(NoChild) = Ledger(c)!Blank
    BY DEF Entry, NoChild, There, Ledger!Blank
  <2>3. Ledger(c)!Withdraw(o)
    BY <1>3, <2>1, <2>2 DEF DeleteChild, Ledger!Withdraw, Book, Entry
  <2> QED BY <2>3 DEF Ledger!Next
<1> QED BY <1>2, <1>3

LEMMA CloseStep ==
  ASSUME TypeOK, TypeOK', NEW c \in Cluster, NEW o \in Op, NEW d \in Cluster, FinishChild(o, d)
  PROVE  [Ledger(c)!Next]_(Ledger(c)!lvars)
<1>1. children[o][d] \in Child /\ children'[o][d] \in Child
  BY DEF TypeOK
<1>2. /\ children'[o][d].completed /\ children'[o][d].kind = children[o][d].kind
      /\ ChildAlone(o, d)
  BY <1>1 DEF FinishChild, TypeOK, ChildAlone, Child
<1>3. CASE c # d
  BY <1>2, <1>3, BookKept DEF ChildAlone
<1>4. CASE c = d
  <2>1. Book(c)' = [Book(c) EXCEPT ![o] = Entry(children'[o][c])]
    BY <1>2, <1>4, OneEntry
  <2>2. Entry(children'[o][c]) = [Entry(children[o][c]) EXCEPT !.completed = TRUE]
    <3>1. There(children'[o][c]) = There(children[o][c]) /\ children'[o][c].completed
      BY <1>2, <1>4 DEF There
    <3> DEFINE a == Entry(children[o][c])
               b == Entry(children'[o][c])
    <3>2. a \in Entries /\ b \in Entries
      BY <1>1, <1>4, EntryOfChild
    <3>3. b.exists = a.exists /\ b.completed
      BY <1>1, <1>4, <3>1, EntryOfChild
    <3> HIDE DEF a, b
    <3>4. [a EXCEPT !.completed = TRUE] = b
      BY <3>2, <3>3, EntryClosed
    <3> QED BY <3>4 DEF a, b
  <2>3. Ledger(c)!Close(o)
    BY <1>4, <2>1, <2>2 DEF FinishChild, Ledger!Close, Book, Entry
  <2> QED BY <2>3 DEF Ledger!Next
<1> QED BY <1>3, <1>4

LEMMA LedgerStep ==
  ASSUME Inv, TypeOK', [Next]_vars, NEW c \in Cluster
  PROVE  [Ledger(c)!Next]_(Ledger(c)!lvars)
<1>1. CASE CreateChild
  BY <1>1, OpenStep
<1>2. ASSUME NEW o \in Op, NEW d \in Cluster, DeleteChild(o, d)
      PROVE  [Ledger(c)!Next]_(Ledger(c)!lvars)
  BY <1>2, WithdrawStep DEF Inv
<1>3. ASSUME NEW o \in Op, NEW d \in Cluster, FinishChild(o, d)
      PROVE  [Ledger(c)!Next]_(Ledger(c)!lvars)
  BY <1>3, CloseStep DEF Inv
<1>4. CASE UNCHANGED children
  BY <1>4, BookKept
<1>5. ASSUME NEW o \in Op, SyncOp(o) \/ Resync(o) \/ Reconcile(o) \/ DeleteOp(o)
                           \/ \E kind \in Kind : CreateOp(o, kind)
      PROVE  UNCHANGED children
  BY <1>5 DEF SyncOp, Resync, Reconcile, DeleteOp, CreateOp, serverVars
<1>6. ASSUME \/ UNCHANGED vars \/ SyncListed \/ NoteProgress \/ PassFails \/ CrashOperator
             \/ \E n \in 1 .. (MaxWorkers + 1) : PublishStatus(n)
      PROVE  UNCHANGED children
  BY <1>6 DEF vars, SyncListed, NoteProgress, PassFails, CrashOperator, PublishStatus, serverVars
<1> QED BY <1>1, <1>2, <1>3, <1>4, <1>5, <1>6 DEF Next, PassStep

(* The fan-out, its failed calls and repeated passes included, respects the  *)
(* ledger of every cluster: it only opens operations that are not there.     *)
THEOREM RespectsLedgers == Spec => LedgersKept
<1> DEFINE Kept == \A c \in Cluster : [Ledger(c)!Next]_(Ledger(c)!lvars)
<1>1. Inv /\ TypeOK' /\ [Next]_vars => Kept
  BY LedgerStep
<1>2. UNCHANGED vars => Kept
  BY BookKept DEF vars, serverVars
<1>3. Inv => TypeOK
  BY DEF Inv
<1> QED BY <1>1, <1>2, <1>3, InitInv, StepInv, PTL DEF Spec, LedgersKept
-----------------------------------------------------------------------------
(* A step that leaves the operations, or all but those it queues or takes in *)
(* hand, drops none.                                                         *)
Waiting(o) == There(ops[o]) /\ ~ops[o].inProgress
Heard(o)   == o \in queue \cup staleOps \/ rec.op = o

LEMMA StillHeard ==
  ASSUME NoRequestDropped,
         \A o \in Op : \/ (Waiting(o)' => Waiting(o)) /\ (Heard(o) => Heard(o)')
                      \/ Heard(o)' \/ ~Waiting(o)'
  PROVE  NoRequestDropped'
BY DEF NoRequestDropped, Waiting, Heard

LEMMA NoneDropped == Inv /\ NoRequestDropped /\ [Next]_vars => NoRequestDropped'
<1> SUFFICES ASSUME Inv, NoRequestDropped, [Next]_vars PROVE NoRequestDropped'
  OBVIOUS
<1>0. TypeOK
  BY DEF Inv
<1>1. ASSUME NEW o \in Op, NEW object \in ShardedOp, WriteOp(o, object), object # ops[o],
             queue' = queue
      PROVE  NoRequestDropped'
  <2>1. o \in staleOps' /\ staleOps \subseteq staleOps' /\ \A p \in Op : p # o => ops'[p] = ops[p]
    BY <1>0, <1>1 DEF WriteOp, TypeOK
  <2>2. rec'.op = rec.op
    BY <1>0, <1>1 DEF WriteOp, TypeOK, Worker
  <2> QED BY <1>1, <2>1, <2>2, StillHeard DEF Waiting, Heard, There
<1>2. ASSUME NEW o \in Op, NEW kind \in Kind, CreateOp(o, kind) PROVE NoRequestDropped'
  <2> DEFINE object == [kind |-> kind, inProgress |-> FALSE]
  <2>1. object \in ShardedOp /\ object # ops[o]
    BY <1>2, NoneAssumption DEF ShardedOp, CreateOp, There
  <2> QED BY <1>1, <1>2, <2>1 DEF CreateOp
<1>3. ASSUME NEW o \in Op, DeleteOp(o) PROVE NoRequestDropped'
  <2>1. NoShardedOp # ops[o]
    BY <1>3, ConstantsTyped DEF DeleteOp
  <2> QED BY <1>1, <1>3, <2>1, ConstantsTyped DEF DeleteOp
<1>4. ASSUME NEW o \in Op, SyncOp(o) \/ Resync(o) PROVE NoRequestDropped'
  BY <1>4, StillHeard DEF Waiting, Heard, There, SyncOp, Resync, serverVars, cacheVars
<1>5. ASSUME NEW o \in Op, Reconcile(o) PROVE NoRequestDropped'
  <2>1. o \notin staleOps /\ ~There(opsCache[o]) => ~There(ops[o])
    BY DEF Inv, KindInv, CopiesCurrent
  <2>2. There(opsCache[o]) => rec'.op = o
    BY <1>5 DEF Reconcile
  <2>3. \A p \in Op : rec.op # p
    BY <1>5, NoneAssumption DEF Reconcile
  <2> QED BY <1>5, <2>1, <2>2, <2>3, StillHeard DEF Waiting, Heard, There, Reconcile, serverVars, cacheVars
<1>6. ASSUME Fail, ops' = ops, staleOps' = staleOps PROVE NoRequestDropped'
  BY <1>6, StillHeard DEF Waiting, Heard, There, Fail
<1>7. CASE CreateChild
  <2>1. CASE rec' = [rec EXCEPT !.next = @ + 1] /\ queue' = queue
    <3>1. rec'.op = rec.op
      BY <1>0, <2>1 DEF TypeOK, Worker
    <3> QED BY <1>7, <2>1, <3>1, StillHeard DEF Waiting, Heard, There, CreateChild, cacheVars
  <2> QED BY <1>6, <1>7, <2>1 DEF CreateChild, Continue, cacheVars
<1>8. CASE NoteProgress
  <2>1. rec.op \in Op
    BY <1>0, <1>8 DEF NoteProgress, TypeOK, Worker
  <2>2. ops'[rec.op].inProgress /\ \A p \in Op : p # rec.op => ops'[p] = ops[p]
    BY <1>0, <1>8, <2>1 DEF NoteProgress, TypeOK, ShardedOp
  <2>3. staleOps \subseteq staleOps' /\ queue \subseteq queue'
    BY <1>8 DEF NoteProgress, Continue, Fail
  <2> QED BY <2>2, <2>3, StillHeard DEF Waiting, Heard, There
<1>9. CASE PassFails
  BY <1>6, <1>9 DEF PassFails, serverVars, cacheVars
<1>10. CASE CrashOperator
  BY <1>10, StillHeard DEF Waiting, Heard, There, CrashOperator, serverVars
<1>11. ASSUME \/ UNCHANGED vars \/ SyncListed
              \/ \E n \in 1 .. (MaxWorkers + 1) : PublishStatus(n)
              \/ \E o \in Op, c \in Cluster : DeleteChild(o, c) \/ FinishChild(o, c)
       PROVE  NoRequestDropped'
  <2>1. UNCHANGED <<ops, queue, staleOps, rec>>
    BY <1>11 DEF vars, SyncListed, PublishStatus, DeleteChild, FinishChild, serverVars, cacheVars
  <2> QED BY <2>1, StillHeard DEF Waiting, Heard, There
<1> QED BY <1>2, <1>3, <1>4, <1>5, <1>7, <1>8, <1>9, <1>10, <1>11 DEF Next, PassStep

(* No request is dropped, however its passes failed, the operator crashed or *)
(* its name was used before (reconcile_bgshardeddbops.go:27-58).             *)
THEOREM RequestsHeard == Spec => []NoRequestDropped
<1>1. Init => NoRequestDropped
  BY ConstantsTyped DEF Init, NoRequestDropped
<1> QED BY <1>1, InitInv, StepInv, NoneDropped, PTL DEF Spec
=============================================================================
