--------------------------- MODULE OwnedResources ---------------------------
(***************************************************************************)
(* The objects that BGClusterReconciler keeps for a BGCluster: services,   *)
(* StatefulSet, config maps, secret, service account, role and binding.    *)
(* Each pass goes over them in one order and does to each what its kind    *)
(* calls for.  Patroni, in the pods, writes two config maps of its own,    *)
(* which the reconciler only makes the BGCluster's; the secret holds the   *)
(* passwords that the pods take when they start; and when the BGCluster is *)
(* deleted, Kubernetes collects what it owns.                              *)
(*                                                                         *)
(* A pass starts only when something wakes the reconciler: an object it    *)
(* watches that changed, or its own failure.  Config maps are not watched. *)
(***************************************************************************)
EXTENDS Naturals, Sequences

CONSTANTS
  Pass,      \* the objects that are looked at, in the order of a pass
  Pod,       \* the pods of the StatefulSet
  MaxBeats,  \* bound: how often Patroni writes each of its config maps
  MaxTries,  \* how often a config map is tried (Steps: 5)
  Faults     \* the faults that may happen together, each of them once

(* All the objects of a pass, and those that are watched. *)
Order == <<"headless", "statefulset", "service", "spilo", "config", "leader",
           "replica", "secret", "account", "role", "binding">>

Services    == {"headless", "service", "replica"}
Rbac        == {"role", "binding"}
Plain       == Services \cup Rbac \cup {"statefulset"}
PatroniMaps == {"config", "leader"}
NoSecrets   == Plain \cup {"account"}    \* mutant: secrets not watched
Watched     == Plain \cup {"secret", "account"}

Objects   == {Pass[i] : i \in DOMAIN Pass}
FaultKind == {"apiError", "crash", "edit", "delete"}

(* In particular, no object comes twice. *)
ASSUME PassAssumption == /\ Pass \in Seq(Plain \cup PatroniMaps \cup {"spilo", "secret", "account"})
                         /\ Pass = SelectSeq(Order, LAMBDA o : o \in Objects)
                         /\ \A i, j \in DOMAIN Pass : Pass[i] = Pass[j] => i = j
                         /\ "secret" \in Objects
ASSUME BoundsAssumption == MaxBeats \in Nat /\ MaxTries \in Nat \ {0}
ASSUME FaultAssumption == {} \in Faults /\ Faults \subseteq SUBSET FaultKind

VARIABLES
  (* the API server *)
  alive,        \* the BGCluster is there
  objs,         \* the objects by name
  (* the operator *)
  clusterSeen,  \* the BGCluster is in the cache
  cache,
  stale,        \* objects whose cached resourceVersion is behind the server's
  events,       \* those of them with a change on its way that concerns the BGCluster
  queued,       \* the BGCluster is in the work queue
  rec,          \* the reconcile worker
  (* the pods *)
  pods,         \* by pod: the passwords its container started with, 0: not started
  missed,       \* history: a pass has taken the secret for absent that was there
  faults        \* the faults that have happened

serverVars == <<alive, objs>>
cacheVars  == <<clusterSeen, cache, stale, events>>
vars       == <<serverVars, cacheVars, queued, rec, pods, missed, faults>>

-----------------------------------------------------------------------------
(***************************************************************************)
(* Objects.  The data of the secret are its passwords, all three of them a *)
(* number, 0 if it has no data; of Patroni's config maps how often it      *)
(* wrote them; and of the others Wanted or not.                            *)
(***************************************************************************)
Wanted  == 1
Version == Nat
Object  == [exists : BOOLEAN, owned : BOOLEAN, data : Version]
Absent  == [exists |-> FALSE, owned |-> FALSE, data |-> 0]
Kept    == [exists |-> TRUE, owned |-> TRUE, data |-> Wanted]

Emptied(secret) == secret.exists /\ secret.data = 0

Worker == [at : Objects \cup {"idle"}, part : {"read", "write", "own"},
           tries : 0 .. (MaxTries - 1), copy : Version, fresh : BOOLEAN]

Enter(o) == [at |-> o, part |-> "read", tries |-> 0, copy |-> 0, fresh |-> FALSE]
Idle     == Enter("idle")

Following(o) == LET i == CHOOSE n \in DOMAIN Pass : Pass[n] = o
                IN  IF i = Len(Pass) THEN "idle" ELSE Pass[i + 1]

Fault(kind) == /\ kind \notin faults
               /\ faults' = faults \cup {kind}
               /\ faults' \in Faults

(***************************************************************************)
(* An update that changes nothing leaves the resourceVersion alone.  The   *)
(* change of a watched object concerns the BGCluster that owns it before   *)
(* or after.                                                               *)
(***************************************************************************)
Changed(o, object) == IF object = objs[o] THEN {} ELSE {o}
Concerns(o, object) == o \in Watched /\ (objs[o].owned \/ object.owned)

Write(o, object) ==
  /\ objs' = [objs EXCEPT ![o] = object]
  /\ stale' = stale \cup Changed(o, object)
  /\ events' = IF Concerns(o, object) THEN events \cup Changed(o, object) ELSE events

(* A write of someone else makes the copy that the worker holds old. *)
WriteElsewhere(o, object) ==
  /\ Write(o, object)
  /\ rec' = IF o = "secret" THEN [rec EXCEPT !.fresh = FALSE] ELSE rec

-----------------------------------------------------------------------------
(* The informers, and what they wake. *)
Sync(o) ==
  /\ o \in stale
  /\ cache' = [cache EXCEPT ![o] = objs[o]]
  /\ stale' = stale \ {o}
  /\ events' = events \ {o}
  /\ queued' = (queued \/ o \in events)
  /\ UNCHANGED <<serverVars, clusterSeen, rec, pods, missed, faults>>

SyncCluster ==
  /\ clusterSeen # alive
  /\ clusterSeen' = alive
  /\ queued' = TRUE
  /\ UNCHANGED <<serverVars, cache, stale, events, rec, pods, missed, faults>>

(* The informers' resync, or a StatefulSet whose status changed. *)
Wake ==
  /\ clusterSeen /\ ~queued
  /\ queued' = TRUE
  /\ UNCHANGED <<serverVars, cacheVars, rec, pods, missed, faults>>

-----------------------------------------------------------------------------
(* Reconcile. *)
Begin ==
  /\ rec.at = "idle" /\ queued
  /\ queued' = FALSE
  /\ rec' = IF clusterSeen THEN Enter(Pass[1]) ELSE Idle
  /\ UNCHANGED <<serverVars, cacheVars, pods, missed, faults>>

GiveUp == rec' = Idle /\ UNCHANGED queued     \* mutant: the error is swallowed
Fail   == rec' = Idle /\ queued' = TRUE

(* After a write: on to the next step, unless the reply was lost. *)
Continue(step) ==
  \/ rec' = step /\ UNCHANGED <<queued, faults>>
  \/ Fail /\ Fault("apiError")

Proceed(o)   == Enter(Following(o))
OnlyOperator == UNCHANGED <<alive, clusterSeen, cache, pods>>

(* Every service, the role and the binding, the service account, the Spilo    *)
(* config map and the StatefulSet are created complete, with their owner.     *)
Create(o) ==
  /\ rec.at = o
  /\ o \in Plain \cup {"account", "spilo"}
  /\ ~cache[o].exists /\ ~objs[o].exists
  /\ Write(o, Kept)
  /\ Continue(Proceed(o))
  /\ OnlyOperator /\ UNCHANGED missed

(* Services, role, binding and StatefulSet are written over, if unchanged.   *)
UpdatePlain(o) ==
  /\ rec.at = o
  /\ o \in Plain
  /\ cache[o].exists /\ o \notin stale
  /\ Write(o, Kept)
  /\ Continue(Proceed(o))
  /\ OnlyOperator /\ UNCHANGED missed

(* reconcileSpiloConfigMap: only the data are compared and put right. *)
UpdateSpilo ==
  /\ rec.at = "spilo"
  /\ cache["spilo"].exists /\ cache["spilo"].data # Wanted
  /\ "spilo" \notin stale
  /\ Write("spilo", [cache["spilo"] EXCEPT !.data = Wanted])
  /\ Continue(Proceed("spilo"))
  /\ OnlyOperator /\ UNCHANGED missed

(* reconcileConfigMaps: the owner of what Patroni has created. *)
Unowned(o) == cache[o].exists /\ ~cache[o].owned

AnyVersion(o) == objs[o].exists     \* mutant: written without its resourceVersion
Current(o)    == o \notin stale

OwnMap(o) ==
  /\ rec.at = o
  /\ o \in PatroniMaps
  /\ Unowned(o) /\ Current(o)
  /\ Write(o, [cache[o] EXCEPT !.owned = TRUE])
  /\ Continue(Proceed(o))
  /\ OnlyOperator /\ UNCHANGED missed

(* Nothing to do: a service account that is there, a Spilo config map with   *)
(* the right data, one of Patroni's that is missing or owned already.        *)
Nothing(o) == CASE o = "account"        -> cache[o].exists
                [] o = "spilo"          -> cache[o].exists /\ cache[o].data = Wanted
                [] o \in PatroniMaps    -> ~Unowned(o)
                [] OTHER                -> FALSE

Skip(o) ==
  /\ rec.at = o
  /\ Nothing(o)
  /\ rec' = Proceed(o)
  /\ UNCHANGED <<serverVars, cacheVars, queued, pods, missed, faults>>

(* A conflict on a config map: wait and read it again. *)
Conflict(o) ==
  /\ rec.at = o
  /\ o \in PatroniMaps \cup {"spilo"}
  /\ cache[o].exists /\ ~Nothing(o)
  /\ o \in stale /\ objs[o].exists

OneTooMany == rec.tries < MaxTries    \* mutant: off by one
TriesLeft  == rec.tries + 1 < MaxTries

Retry(o) ==
  /\ Conflict(o)
  /\ TriesLeft
  /\ rec' = [rec EXCEPT !.tries = @ + 1]
  /\ UNCHANGED <<serverVars, cacheVars, queued, pods, missed, faults>>

-----------------------------------------------------------------------------
(***************************************************************************)
(* reconcileSecret.  Passwords are those of the cached secret, or new ones *)
(* if the cache has none; the secret is written with them, whatever its    *)
(* resourceVersion and without an owner, or created; and then it is        *)
(* written again, with its owner.  "Already owned" only makes a log line.  *)
(***************************************************************************)
OwnedFound  == cache["secret"].exists /\ cache["secret"].owned  \* mutant: unowned ignored
SecretFound == cache["secret"].exists

ReadSecret ==
  /\ rec.at = "secret" /\ rec.part = "read"
  /\ SecretFound /\ ~Emptied(cache["secret"])
  /\ rec' = [rec EXCEPT !.part = "write", !.copy = cache["secret"].data]
  /\ UNCHANGED <<serverVars, cacheVars, queued, pods, missed, faults>>

NewPasswords == IF objs["secret"].data = 1 THEN 2 ELSE 1    \* never those there are

GeneratePasswords ==
  /\ rec.at = "secret" /\ rec.part = "read"
  /\ ~SecretFound
  /\ rec' = [rec EXCEPT !.part = "write", !.copy = NewPasswords]
  /\ missed' = (missed \/ (~cache["secret"].exists /\ objs["secret"].exists))
  /\ UNCHANGED <<serverVars, cacheVars, queued, pods, faults>>

ThenOwnerUnlessSeen ==    \* mutant: skipped when the cached secret has its owner
  IF cache["secret"].owned THEN Proceed("secret")
  ELSE [rec EXCEPT !.part = "own", !.fresh = TRUE]
ThenOwner == [rec EXCEPT !.part = "own", !.fresh = TRUE]

WriteSecret ==
  /\ rec.at = "secret" /\ rec.part = "write"
  /\ Write("secret", [exists |-> TRUE, owned |-> FALSE, data |-> rec.copy])
  /\ Continue(ThenOwner)
  /\ OnlyOperator /\ UNCHANGED missed

OwnSecret ==
  /\ rec.at = "secret" /\ rec.part = "own"
  /\ rec.fresh
  /\ Write("secret", [exists |-> TRUE, owned |-> TRUE, data |-> rec.copy])
  /\ Continue(Proceed("secret"))
  /\ OnlyOperator /\ UNCHANGED missed

-----------------------------------------------------------------------------
(* A conflict, an object that is there though the cache has none or is gone   *)
(* though the cache has one, tries used up, or any other error of the API.    *)
Refused(o) ==
  \/ o \in Plain \cup {"account", "spilo"} /\ ~cache[o].exists /\ objs[o].exists
  \/ o \in Plain /\ cache[o].exists /\ o \in stale
  \/ Conflict(o) /\ ~TriesLeft
  \/ o \in PatroniMaps \cup {"spilo"} /\ cache[o].exists /\ ~Nothing(o) /\ ~objs[o].exists
  \/ o = "secret" /\ rec.part = "own" /\ ~rec.fresh

PassFails ==
  /\ rec.at # "idle"
  /\ \/ Refused(rec.at) /\ UNCHANGED faults
     \/ Fault("apiError")
  /\ Fail
  /\ UNCHANGED <<serverVars, cacheVars, pods, missed>>

Restart ==
  /\ clusterSeen' = alive /\ cache' = objs /\ stale' = {} /\ events' = {}
  /\ queued' = TRUE
  /\ rec' = Idle
  /\ UNCHANGED <<serverVars, pods, missed>>

CrashOperator == Restart /\ Fault("crash")

(* A secret without data has a nil map, and the passwords are written to it. *)
Panic ==
  /\ rec.at = "secret" /\ rec.part = "read"
  /\ Emptied(cache["secret"])
  /\ Restart
  /\ UNCHANGED faults

-----------------------------------------------------------------------------
(* The pods: their containers start when the objects they refer to are       *)
(* there, and go when the StatefulSet does.                                  *)
Present(o) == o \in Objects => objs[o].exists

OnlyPods == UNCHANGED <<serverVars, cacheVars, queued, rec, missed>>

StartContainer(p) ==
  /\ pods[p] = 0
  /\ \A o \in {"statefulset", "account", "spilo", "secret"} : Present(o)
  /\ ~Emptied(objs["secret"])
  /\ pods' = [pods EXCEPT ![p] = objs["secret"].data]
  /\ OnlyPods /\ UNCHANGED faults

StopContainer(p) ==
  /\ pods[p] # 0
  /\ \/ ~Present("statefulset") /\ UNCHANGED faults
     \/ Fault("crash")
  /\ pods' = [pods EXCEPT ![p] = 0]
  /\ OnlyPods

(* Patroni creates its config maps, and then keeps its state in them. *)
PatroniWrites(o) ==
  /\ o \in PatroniMaps
  /\ \E p \in Pod : pods[p] # 0
  /\ objs[o].data < MaxBeats
  /\ WriteElsewhere(o, [objs[o] EXCEPT !.exists = TRUE, !.data = @ + 1])
  /\ UNCHANGED <<alive, clusterSeen, cache, queued, pods, missed, faults>>

(* The user removes an object, empties or changes it, or takes its owner off. *)
Edit(o) ==
  /\ objs[o].exists
  /\ Fault("edit")
  /\ \/ WriteElsewhere(o, Absent)
     \/ o \notin PatroniMaps \cup {"account"} /\ WriteElsewhere(o, [objs[o] EXCEPT !.data = 0])
     \/ objs[o].owned /\ WriteElsewhere(o, [objs[o] EXCEPT !.owned = FALSE])
  /\ UNCHANGED <<alive, clusterSeen, cache, queued, pods, missed>>

DeleteCluster ==
  /\ alive
  /\ Fault("delete")
  /\ alive' = FALSE
  /\ UNCHANGED <<objs, cacheVars, queued, rec, pods, missed>>

Garbage == {o \in Objects : objs[o].exists /\ objs[o].owned}

CollectGarbage ==
  /\ ~alive
  /\ Garbage # {}
  /\ objs' = [o \in Objects |-> IF o \in Garbage THEN Absent ELSE objs[o]]
  /\ stale' = stale \cup Garbage
  /\ events' = events \cup (Garbage \cap Watched)
  /\ rec' = IF "secret" \in Garbage THEN [rec EXCEPT !.fresh = FALSE] ELSE rec
  /\ UNCHANGED <<alive, clusterSeen, cache, queued, pods, missed, faults>>

-----------------------------------------------------------------------------
Init ==
  /\ alive = TRUE /\ clusterSeen = TRUE
  /\ objs = [o \in Objects |-> Absent] /\ cache = objs
  /\ stale = {} /\ events = {}
  /\ queued = TRUE
  /\ rec = Idle
  /\ pods = [p \in Pod |-> 0]
  /\ missed = FALSE
  /\ faults = {}

PassStep ==
  \/ \E o \in Objects : \/ Create(o) \/ UpdatePlain(o) \/ OwnMap(o)
                        \/ Skip(o) \/ Retry(o)
  \/ UpdateSpilo
  \/ ReadSecret \/ GeneratePasswords \/ WriteSecret \/ OwnSecret
  \/ PassFails \/ Panic

Next ==
  \/ \E o \in Objects : \/ Sync(o) \/ PatroniWrites(o) \/ Edit(o)
  \/ \E p \in Pod : StartContainer(p) \/ StopContainer(p)
  \/ SyncCluster \/ Wake \/ Begin \/ PassStep \/ CrashOperator \/ DeleteCluster \/ CollectGarbage

Spec == Init /\ [][Next]_vars

(* Informers catch up, a queued BGCluster is taken and its pass goes on, and *)
(* garbage is collected.  Nobody owes a wake-up: no fairness for Wake.       *)
Fairness ==
  /\ \A o \in Objects : WF_vars(Sync(o))
  /\ WF_vars(CollectGarbage)
  /\ WF_vars(SyncCluster)
  /\ WF_vars(Begin) /\ WF_vars(PassStep)

FairSpec == Spec /\ Fairness

-----------------------------------------------------------------------------
(* Every variable stays in its set. *)
TypeOK ==
  /\ alive \in BOOLEAN /\ clusterSeen \in BOOLEAN
  /\ objs \in [Objects -> Object] /\ cache \in [Objects -> Object]
  /\ stale \subseteq Objects /\ events \subseteq stale
  /\ queued \in BOOLEAN
  /\ rec \in Worker
  /\ pods \in [Pod -> Version]
  /\ missed \in BOOLEAN
  /\ faults \in Faults

(* Between its two writes of the secret (reconcile_secrets.go:57 and :83)    *)
(* the pass leaves it without an owner, and only then: a secret found        *)
(* unowned at any other time is one whose pass was cut off by a failed call  *)
(* or a crash, or that the user took the owner off.                          *)
SecretOwnedAtRest ==
  \/ rec.at = "secret" /\ rec.part = "own"
  \/ objs["secret"].exists => objs["secret"].owned
  \/ faults \cap {"crash", "apiError", "edit"} # {}

(* A pod has the passwords that the secret holds (reconcile_statefulsets     *)
(* .go:186-188, reconcile_secrets.go:31-54), however late the cache is and   *)
(* whatever call fails, as long as no pass took the secret for absent while  *)
(* it was there, and no user changed it or deleted the BGCluster.            *)
PodsShare ==
  \/ \A p \in Pod : pods[p] # 0 => objs["secret"].exists /\ pods[p] = objs["secret"].data
  \/ missed \/ "edit" \in faults \/ ~alive

(* No step of the reconciler, which writes Patroni's config maps back whole  *)
(* from a cached copy (reconcile_configmaps.go:63), takes back what Patroni  *)
(* wrote to them.                                                            *)
PatroniDataKept ==
  [][rec' # rec => \A o \in Objects \cap PatroniMaps :
       objs[o].exists /\ objs'[o].exists => objs'[o].data = objs[o].data]_vars

(* An object as it should be: there, with its data, and the BGCluster's;     *)
(* Patroni's once Patroni made them.                                         *)
InOrder(o) ==
  IF o \in PatroniMaps THEN objs[o].exists => objs[o].owned
  ELSE /\ objs[o].exists
       /\ o \in Plain \cup {"spilo"} => objs[o].data = Wanted
       /\ o \in Plain \cup {"secret"} => objs[o].owned

(* While there is a BGCluster its reconciler never comes to rest, whoever    *)
(* interferes: there is always a pass under way, or something that will      *)
(* start one.  Each pass wakes the next by the last of its two writes of the *)
(* secret (reconcile_secrets.go:83, bgcluster_controller.go:102), each that  *)
(* fails by its error; nothing else looks after the config maps, which are   *)
(* not watched.                                                              *)
KeptAwake == alive => queued \/ events # {} \/ rec.at # "idle"

(* Whatever the user does to the objects, and although config maps are not   *)
(* watched, they come to be in order again and again: there and with the     *)
(* contents the reconciler wants, which says nothing of the owners of the    *)
(* service account and of Spilo's config map, given at creation alone.  A    *)
(* secret without data ends that: the reconciler panics on it.               *)
StaysInOrder ==
  []<>(\/ \A o \in Objects : InOrder(o)
       \/ Emptied(objs["secret"])
       \/ ~alive)

(* A deleted BGCluster takes its objects along (the owner references of      *)
(* every reconcile function), also those that a pass still running writes    *)
(* after the deletion.  A user may have taken an owner off, and a failure    *)
(* between the secret's two writes leaves it behind.  Patroni's config maps  *)
(* are another matter: see ISSUES.md:3.                                      *)
Behind(o) == o = "secret" /\ faults \cap {"crash", "apiError"} # {}

CleanedUp ==
  <>[](\/ alive
       \/ "edit" \in faults
       \/ \A o \in Objects \ PatroniMaps : objs[o].exists => Behind(o))

-----------------------------------------------------------------------------
(* What the repository says and the code does not do. *)

(* "Generate passwords if they don't exist" (reconcile_secrets.go:34): the   *)
(* passwords of a secret that exists are not replaced, except by the user.   *)
PasswordsKept ==
  [][objs["secret"].exists /\ objs'["secret"].exists /\ faults' = faults
       => objs'["secret"].data = objs["secret"].data]_vars
=============================================================================
