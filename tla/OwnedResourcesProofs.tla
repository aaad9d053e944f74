------------------------ MODULE OwnedResourcesProofs ------------------------
(***************************************************************************)
(* Proofs about OwnedResources, for any pass over the objects, any pods,   *)
(* bounds and combination of faults.                                       *)
(***************************************************************************)
EXTENDS OwnedResources, TLAPS

(* The elements of a pass. *)
LEMMA PassTyped ==
  /\ Len(Pass) \in Nat /\ DOMAIN Pass = 1 .. Len(Pass)
  /\ \A i \in DOMAIN Pass : Pass[i] \in Objects
  /\ 1 \in DOMAIN Pass
  /\ "secret" \in Objects /\ "idle" \notin Objects
<1>1. Len(Pass) \in Nat /\ DOMAIN Pass = 1 .. Len(Pass)
  BY PassAssumption
<1>2. \A i \in DOMAIN Pass : Pass[i] \in Objects
  BY DEF Objects
<1>3. "secret" \in Objects
  BY PassAssumption
<1>4. PICK n \in DOMAIN Pass : Pass[n] = "secret"
  BY <1>3 DEF Objects
<1>5. 1 \in DOMAIN Pass
  BY <1>1, <1>4
<1>6. \A i \in DOMAIN Pass : Pass[i] # "idle"
  BY <1>1, PassAssumption DEF Plain, PatroniMaps, Services, Rbac
<1>7. "idle" \notin Objects
  BY <1>6 DEF Objects
<1> QED BY <1>1, <1>2, <1>3, <1>5, <1>7

LEMMA EnterTyped == ASSUME NEW o \in Objects \cup {"idle"} PROVE Enter(o) \in Worker
BY BoundsAssumption DEF Enter, Worker, Version

LEMMA FollowingTyped == ASSUME NEW o \in Objects PROVE Following(o) \in Objects \cup {"idle"}
<1> DEFINE i == CHOOSE n \in DOMAIN Pass : Pass[n] = o
<1>1. i \in DOMAIN Pass
  BY DEF Objects
<1>2. i # Len(Pass) => i + 1 \in DOMAIN Pass
  BY <1>1, PassTyped
<1> HIDE DEF i
<1>3. IF i = Len(Pass) THEN TRUE ELSE Pass[i + 1] \in Objects
  BY <1>2, PassTyped
<1> QED BY <1>3 DEF Following, i

LEMMA ProceedTyped == ASSUME NEW o \in Objects PROVE Proceed(o) \in Worker
BY FollowingTyped, EnterTyped DEF Proceed

LEMMA ConstantsTyped ==
  /\ Idle \in Worker /\ Idle.at = "idle" /\ Idle.part = "read"
  /\ Absent \in Object /\ Kept \in Object
  /\ ~Absent.exists
BY EnterTyped, BoundsAssumption DEF Idle, Enter, Absent, Kept, Object, Version, Wanted

LEMMA FaultTyped == ASSUME NEW kind, Fault(kind) PROVE faults' \in Faults
BY DEF Fault

LEMMA ContinueTyped ==
  ASSUME queued \in BOOLEAN, faults \in Faults, NEW step \in Worker, Continue(step)
  PROVE  rec' \in Worker /\ queued' \in BOOLEAN /\ faults' \in Faults
BY ConstantsTyped, FaultTyped DEF Continue, Fail

LEMMA WriteTyped ==
  ASSUME TypeOK, NEW o \in Objects, NEW object \in Object, Write(o, object)
  PROVE  objs' \in [Objects -> Object] /\ stale' \subseteq Objects /\ events' \subseteq stale'
BY DEF Write, Changed, TypeOK

LEMMA WriteElsewhereTyped ==
  ASSUME TypeOK, NEW o \in Objects, NEW object \in Object, WriteElsewhere(o, object)
  PROVE  /\ objs' \in [Objects -> Object] /\ stale' \subseteq Objects /\ events' \subseteq stale'
         /\ rec' \in Worker
<1>1. rec' \in Worker
  BY DEF WriteElsewhere, TypeOK, Worker
<1> QED BY <1>1, WriteTyped DEF WriteElsewhere

(* A write of the pass, and what it leaves in rec. *)
LEMMA OwnWriteTyped ==
  ASSUME TypeOK, NEW o \in Objects, NEW object \in Object, NEW step \in Worker,
         Write(o, object), Continue(step), OnlyOperator, UNCHANGED missed
  PROVE  TypeOK'
<1>1. rec' \in Worker /\ queued' \in BOOLEAN /\ faults' \in Faults
  BY ContinueTyped DEF TypeOK
<1> QED BY <1>1, WriteTyped DEF TypeOK, OnlyOperator

LEMMA RestartTyped ==
  ASSUME TypeOK, Restart, faults' \in Faults
  PROVE  TypeOK'
BY ConstantsTyped DEF TypeOK, Restart, serverVars

-----------------------------------------------------------------------------
LEMMA InitTyped == Init => TypeOK
<1> SUFFICES ASSUME Init PROVE TypeOK
  OBVIOUS
<1>1. objs \in [Objects -> Object] /\ cache \in [Objects -> Object]
  BY ConstantsTyped DEF Init
<1>2. pods \in [Pod -> Version]
  BY DEF Init, Version
<1>3. alive \in BOOLEAN /\ clusterSeen \in BOOLEAN /\ queued \in BOOLEAN /\ missed \in BOOLEAN
  BY DEF Init
<1> QED BY <1>1, <1>2, <1>3, ConstantsTyped, FaultAssumption DEF Init, TypeOK

LEMMA PassStepTyped == ASSUME TypeOK, PassStep PROVE TypeOK'
<1> USE DEF TypeOK
<1>1. ASSUME NEW o \in Objects, Create(o) \/ UpdatePlain(o) PROVE TypeOK'
  BY <1>1, ProceedTyped, ConstantsTyped, OwnWriteTyped DEF Create, UpdatePlain
<1>2. ASSUME NEW o \in Objects, OwnMap(o) PROVE TypeOK'
  <2>1. [cache[o] EXCEPT !.owned = TRUE] \in Object
    BY DEF Object
  <2> QED BY <1>2, <2>1, ProceedTyped, OwnWriteTyped DEF OwnMap
<1>3. ASSUME NEW o \in Objects, Skip(o) PROVE TypeOK'
  BY <1>3, ProceedTyped DEF Skip, serverVars, cacheVars
<1>4. ASSUME NEW o \in Objects, Retry(o) PROVE TypeOK'
  <2>1. rec' \in Worker
    BY <1>4, BoundsAssumption DEF Retry, TriesLeft, Worker
  <2> QED BY <1>4, <2>1 DEF Retry, serverVars, cacheVars
<1>5. CASE UpdateSpilo
  <2>1. "spilo" \in Objects
    BY <1>5 DEF UpdateSpilo, Worker
  <2>2. [cache["spilo"] EXCEPT !.data = Wanted] \in Object
    BY <2>1 DEF Object, Wanted, Version
  <2> QED BY <1>5, <2>1, <2>2, ProceedTyped, OwnWriteTyped DEF UpdateSpilo
<1>6. CASE ReadSecret
  <2>1. rec' \in Worker
    BY <1>6, PassTyped DEF ReadSecret, Worker, Object
  <2> QED BY <1>6, <2>1 DEF ReadSecret, serverVars, cacheVars
<1>7. CASE GeneratePasswords
  <2>1. rec' \in Worker /\ missed' \in BOOLEAN
    BY <1>7, PassTyped DEF GeneratePasswords, NewPasswords, Worker, Version
  <2> QED BY <1>7, <2>1 DEF GeneratePasswords, serverVars, cacheVars
<1>8. CASE WriteSecret
  <2>1. ThenOwner \in Worker
    BY DEF ThenOwner, Worker
  <2>2. [exists |-> TRUE, owned |-> FALSE, data |-> rec.copy] \in Object
    BY DEF Object, Worker
  <2> QED BY <1>8, <2>1, <2>2, PassTyped, OwnWriteTyped DEF WriteSecret
<1>9. CASE OwnSecret
  <2>1. [exists |-> TRUE, owned |-> TRUE, data |-> rec.copy] \in Object
    BY DEF Object, Worker
  <2> QED BY <1>9, <2>1, PassTyped, ProceedTyped, OwnWriteTyped DEF OwnSecret
<1>10. CASE PassFails
  BY <1>10, ConstantsTyped, FaultTyped DEF PassFails, Fail, serverVars, cacheVars
<1>11. CASE Panic
  BY <1>11, RestartTyped DEF Panic
<1> QED BY <1>1, <1>2, <1>3, <1>4, <1>5, <1>6, <1>7, <1>8, <1>9, <1>10, <1>11 DEF PassStep

LEMMA StepTyped == TypeOK /\ [Next]_vars => TypeOK'
<1> SUFFICES ASSUME TypeOK, [Next]_vars PROVE TypeOK'
  OBVIOUS
<1> USE DEF TypeOK
<1>1. CASE UNCHANGED vars
  BY <1>1 DEF vars, serverVars, cacheVars
<1>2. ASSUME NEW o \in Objects, Sync(o) PROVE TypeOK'
  BY <1>2 DEF Sync, serverVars
<1>3. ASSUME NEW o \in Objects, PatroniWrites(o) PROVE TypeOK'
  <2>1. [objs[o] EXCEPT !.exists = TRUE, !.data = @ + 1] \in Object
    <3>1. objs[o] \in Object /\ objs[o].data + 1 \in Nat
      BY DEF Object, Version
    <3> QED BY <3>1 DEF Object, Version
  <2> QED BY <1>3, <2>1, WriteElsewhereTyped DEF PatroniWrites
<1>4. ASSUME NEW o \in Objects, Edit(o) PROVE TypeOK'
  <2>1. /\ [objs[o] EXCEPT !.data = 0] \in Object
        /\ [objs[o] EXCEPT !.owned = FALSE] \in Object
    BY DEF Object, Version
  <2> QED BY <1>4, <2>1, ConstantsTyped, FaultTyped, WriteElsewhereTyped DEF Edit
<1>5. ASSUME NEW p \in Pod, StartContainer(p) \/ StopContainer(p) PROVE TypeOK'
  <2>1. objs["secret"].data \in Version /\ 0 \in Version
    BY PassTyped DEF Object, Version
  <2>2. pods' \in [Pod -> Version]
    BY <1>5, <2>1 DEF StartContainer, StopContainer
  <2>3. faults' \in Faults
    BY <1>5, FaultTyped DEF StartContainer, StopContainer
  <2> QED BY <1>5, <2>2, <2>3 DEF StartContainer, StopContainer, OnlyPods, serverVars, cacheVars
<1>6. CASE SyncCluster \/ Wake
  BY <1>6 DEF SyncCluster, Wake, serverVars, cacheVars
<1>7. CASE Begin
  BY <1>7, PassTyped, EnterTyped, ConstantsTyped DEF Begin, serverVars, cacheVars
<1>8. CASE PassStep
  BY <1>8, PassStepTyped
<1>9. CASE CrashOperator
  BY <1>9, RestartTyped, FaultTyped DEF CrashOperator
<1>10. CASE DeleteCluster
  BY <1>10, FaultTyped DEF DeleteCluster, cacheVars
<1>11. CASE CollectGarbage
  <2>1. objs' \in [Objects -> Object]
    BY <1>11, ConstantsTyped DEF CollectGarbage
  <2>2. rec' \in Worker
    BY <1>11 DEF CollectGarbage, Worker
  <2> QED BY <1>11, <2>1, <2>2 DEF CollectGarbage, Garbage
<1> QED
  BY <1>1, <1>2, <1>3, <1>4, <1>5, <1>6, <1>7, <1>8, <1>9, <1>10, <1>11 DEF Next

(* Every variable stays in its set; above all, a pass looks only at objects  *)
(* of its list, and tries a config map less than MaxTries times again.       *)
THEOREM TypeCorrect == Spec => []TypeOK
BY InitTyped, StepTyped, PTL DEF Spec

-----------------------------------------------------------------------------
(***************************************************************************)
(* The secret.  While a pass is between its two writes of it, the secret   *)
(* is unowned, so that garbage collection leaves it, and the copy of the   *)
(* pass stays fresh unless the user interferes.  And everybody who knows   *)
(* passwords knows those of the secret: the cache, which may lag but not   *)
(* err, the pass that is about to write it, and the pods.                  *)
(***************************************************************************)
Secret  == objs["secret"]
Cached  == cache["secret"]
Writing == rec.at = "secret" /\ rec.part = "write"
Owning  == rec.at = "secret" /\ rec.part = "own"
CutOff  == "crash" \in faults \/ "apiError" \in faults \/ "edit" \in faults

SecretInHand ==
  \/ CutOff
  \/ IF Owning THEN rec.fresh /\ (Secret.exists => ~Secret.owned)
               ELSE Secret.exists => Secret.owned

SameData(data) == Secret.exists /\ data = Secret.data

PasswordsKnown ==
  \/ missed \/ "edit" \in faults \/ ~alive
  \/ /\ \A p \in Pod : pods[p] # 0 => SameData(pods[p])
     /\ Cached.exists => SameData(Cached.data)
     /\ Writing /\ Secret.exists => SameData(rec.copy)
     /\ Owning /\ rec.fresh => SameData(rec.copy)

CacheCurrent == \A o \in Objects : o \notin stale => cache[o] = objs[o]

Inv == TypeOK /\ SecretInHand /\ PasswordsKnown /\ CacheCurrent

LEMMA InvImplies == Inv => SecretOwnedAtRest /\ PodsShare
BY DEF Inv, SecretInHand, PasswordsKnown, SameData, Secret, Owning, CutOff,
       SecretOwnedAtRest, PodsShare

LEMMA InitInv == Init => Inv
<1> SUFFICES ASSUME Init PROVE Inv
  OBVIOUS
<1>1. objs["secret"] = Absent /\ cache["secret"] = Absent
  BY PassTyped DEF Init
<1> QED BY <1>1, InitTyped, ConstantsTyped, PassTyped
        DEF Init, Inv, SecretInHand, PasswordsKnown, CacheCurrent, Secret, Cached, Writing, Owning

(* Where the worker goes when it is done with an object. *)
LEMMA AtRest ==
  ASSUME NEW o \in Objects
  PROVE  /\ Proceed(o).part = "read" /\ Idle.part = "read"
BY DEF Proceed, Enter, Idle

(* A step that leaves the secret, its cached copy, the pods and the worker's *)
(* hold on the secret alone.                                                 *)
NotAtSecret == ~Writing /\ ~Owning

LEMMA FaultsGrow == ASSUME NEW kind, Fault(kind) PROVE faults \subseteq faults' /\ kind \in faults'
BY DEF Fault

LEMMA SecretLeft ==
  ASSUME Inv, faults \subseteq faults', UNCHANGED Secret, UNCHANGED <<alive, missed>>,
         UNCHANGED Cached \/ Cached' = Secret,
         \/ UNCHANGED rec
         \/ NotAtSecret /\ NotAtSecret'
         \/ CutOff' /\ NotAtSecret',
         \A p \in Pod : pods'[p] # 0 => UNCHANGED pods[p] \/ (pods'[p] = Secret.data /\ Secret.exists)
  PROVE  SecretInHand' /\ PasswordsKnown'
<1>1. SecretInHand'
  BY DEF Inv, SecretInHand, NotAtSecret, Owning, CutOff
<1>2. PasswordsKnown'
  BY DEF Inv, PasswordsKnown, SameData, NotAtSecret, Writing, Owning
<1> QED BY <1>1, <1>2

(* A write makes the cached copy stale, unless it changes nothing. *)
LEMMA WriteCache ==
  ASSUME Inv, NEW o \in Objects, NEW object, Write(o, object), UNCHANGED cache
  PROVE  /\ CacheCurrent'
         /\ \A x \in Objects : x # o => objs'[x] = objs[x]
         /\ objs'[o] = object
BY DEF Inv, TypeOK, CacheCurrent, Write, Changed

(* A write of the pass to an object that is not the secret. *)
LEMMA OtherWritten ==
  ASSUME Inv, TypeOK', NEW o \in Objects, o # "secret", rec.at = o, NEW object,
         Write(o, object), Continue(Proceed(o)), OnlyOperator, UNCHANGED missed
  PROVE  Inv'
<1>1. CacheCurrent' /\ UNCHANGED Secret
  BY WriteCache, PassTyped DEF OnlyOperator, Secret
<1>2. faults \subseteq faults' /\ rec'.part = "read"
  BY AtRest, FaultsGrow DEF Continue, Fail
<1>3. NotAtSecret /\ NotAtSecret'
  BY <1>2 DEF NotAtSecret, Writing, Owning
<1> QED BY <1>1, <1>2, <1>3, SecretLeft DEF Inv, OnlyOperator, Cached

LEMMA RestartKeepsInv ==
  ASSUME Inv, TypeOK', Restart, faults \subseteq faults', CutOff' \/ NotAtSecret
  PROVE  Inv'
<1>1. CacheCurrent' /\ UNCHANGED Secret /\ Cached' = Secret
  BY PassTyped DEF Restart, CacheCurrent, serverVars, Secret, Cached
<1>2. NotAtSecret'
  BY AtRest, PassTyped DEF Restart, NotAtSecret, Writing, Owning
<1> QED BY <1>1, <1>2, SecretLeft DEF Inv, Restart, serverVars

LEMMA SecretWritten ==
  ASSUME Inv, TypeOK', WriteSecret PROVE Inv'
<1>1. CacheCurrent'
  BY WriteCache, PassTyped DEF WriteSecret, OnlyOperator
<1>2. Secret' = [exists |-> TRUE, owned |-> FALSE, data |-> rec.copy]
  BY WriteCache, PassTyped DEF WriteSecret, OnlyOperator, Secret
<1>3. UNCHANGED <<Cached, pods, alive, missed>>
  BY DEF WriteSecret, OnlyOperator, Cached
<1>4. faults \subseteq faults'
  BY FaultsGrow DEF WriteSecret, Continue
<1>5. \/ rec' = ThenOwner
      \/ "apiError" \in faults' /\ NotAtSecret'
  BY AtRest, PassTyped, FaultsGrow DEF WriteSecret, Continue, Fail, NotAtSecret, Writing, Owning
<1>6. rec' = ThenOwner => Owning' /\ ~Writing' /\ rec'.fresh /\ rec'.copy = rec.copy
  BY DEF WriteSecret, ThenOwner, Owning, Writing, Inv, TypeOK, Worker
<1>7. SecretInHand'
  BY <1>2, <1>5, <1>6 DEF SecretInHand, CutOff
<1>8. Writing
  BY DEF WriteSecret, Writing
<1>9. PasswordsKnown'
  BY <1>2, <1>3, <1>4, <1>5, <1>6, <1>8 DEF Inv, PasswordsKnown, SameData, NotAtSecret
<1> QED BY <1>1, <1>7, <1>9 DEF Inv

LEMMA SecretOwned ==
  ASSUME Inv, TypeOK', OwnSecret PROVE Inv'
<1>1. CacheCurrent'
  BY WriteCache, PassTyped DEF OwnSecret, OnlyOperator
<1>2. Secret' = [exists |-> TRUE, owned |-> TRUE, data |-> rec.copy]
  BY WriteCache, PassTyped DEF OwnSecret, OnlyOperator, Secret
<1>3. UNCHANGED <<Cached, pods, alive, missed>> /\ Owning /\ rec.fresh
  BY DEF OwnSecret, OnlyOperator, Cached, Owning
<1>4. faults \subseteq faults'
  BY FaultsGrow DEF OwnSecret, Continue
<1>5. NotAtSecret'
  BY AtRest, PassTyped DEF OwnSecret, Continue, Fail, NotAtSecret, Writing, Owning
<1>6. SecretInHand'
  BY <1>2, <1>5 DEF SecretInHand, NotAtSecret
<1>7. PasswordsKnown'
  BY <1>2, <1>3, <1>4, <1>5 DEF Inv, PasswordsKnown, SameData, NotAtSecret
<1> QED BY <1>1, <1>6, <1>7 DEF Inv

LEMMA PassStepInv ==
  ASSUME Inv, TypeOK', PassStep PROVE Inv'
<1>0. TypeOK
  BY DEF Inv
<1>1. ASSUME NEW o \in Objects, Create(o) \/ UpdatePlain(o) PROVE Inv'
  <2>1. o # "secret"
    BY <1>1 DEF Create, UpdatePlain, Plain, Services, Rbac
  <2> QED BY <1>1, <2>1, OtherWritten DEF Create, UpdatePlain
<1>2. ASSUME NEW o \in Objects, OwnMap(o) PROVE Inv'
  <2>1. o # "secret"
    BY <1>2 DEF OwnMap, PatroniMaps
  <2> QED BY <1>2, <2>1, OtherWritten DEF OwnMap
<1>3. CASE UpdateSpilo
  <2>1. "spilo" \in Objects
    BY <1>0, <1>3 DEF UpdateSpilo, TypeOK, Worker
  <2> QED BY <1>3, <2>1, OtherWritten DEF UpdateSpilo
<1>4. ASSUME NEW o \in Objects, Skip(o) \/ Retry(o) PROVE Inv'
  <2>1. o # "secret" /\ rec.at = o
    BY <1>4 DEF Skip, Nothing, Retry, Conflict, PatroniMaps
  <2>2. rec'.part = "read" \/ rec'.at = o
    BY <1>0, <1>4, <2>1, AtRest DEF Skip, Retry, TypeOK, Worker
  <2>3. NotAtSecret /\ NotAtSecret'
    BY <2>1, <2>2 DEF NotAtSecret, Writing, Owning
  <2> QED BY <1>4, <2>3, SecretLeft
          DEF Inv, CacheCurrent, Skip, Retry, serverVars, cacheVars, Secret, Cached
<1>5. CASE ReadSecret
  <2>1. /\ Writing' /\ ~Owning' /\ ~Owning /\ rec'.copy = Cached.data /\ Cached.exists
        /\ UNCHANGED <<Secret, Cached, alive, missed, faults, pods>>
    BY <1>0, <1>5 DEF ReadSecret, SecretFound, Writing, Owning, TypeOK, Worker,
                      serverVars, cacheVars, Secret, Cached
  <2>2. SecretInHand' /\ PasswordsKnown'
    BY <2>1 DEF Inv, SecretInHand, CutOff, PasswordsKnown, SameData
  <2> QED BY <1>5, <2>2 DEF Inv, CacheCurrent, ReadSecret, serverVars, cacheVars
<1>6. CASE GeneratePasswords
  <2>1. /\ Writing' /\ ~Owning' /\ ~Owning /\ ~Cached.exists
        /\ missed' = (missed \/ Secret.exists)
        /\ UNCHANGED <<Secret, Cached, alive, faults, pods>>
    BY <1>0, <1>6 DEF GeneratePasswords, SecretFound, Writing, Owning, TypeOK, Worker,
                      serverVars, cacheVars, Secret, Cached
  <2>2. SecretInHand' /\ PasswordsKnown'
    BY <2>1 DEF Inv, SecretInHand, CutOff, PasswordsKnown, SameData
  <2> QED BY <1>6, <2>2 DEF Inv, CacheCurrent, GeneratePasswords, serverVars, cacheVars
<1>7. CASE WriteSecret
  BY <1>7, SecretWritten
<1>8. CASE OwnSecret
  BY <1>8, SecretOwned
<1>9. CASE PassFails
  <2>1. NotAtSecret' /\ faults \subseteq faults'
    BY <1>9, AtRest, PassTyped, FaultsGrow DEF PassFails, Fail, NotAtSecret, Writing, Owning
  <2>2. ~Owning \/ CutOff'
    BY <1>9, <2>1, FaultsGrow
    DEF PassFails, Refused, Conflict, Owning, Inv, SecretInHand, CutOff,
        Plain, Services, Rbac, PatroniMaps
  <2>3. SecretInHand' /\ PasswordsKnown'
    BY <1>9, <2>1, <2>2
    DEF Inv, SecretInHand, CutOff, PasswordsKnown, SameData, NotAtSecret,
        PassFails, serverVars, cacheVars, Secret, Cached
  <2> QED BY <1>9, <2>3 DEF Inv, CacheCurrent, PassFails, serverVars, cacheVars
<1>10. CASE Panic
  <2>1. NotAtSecret
    BY <1>10 DEF Panic, NotAtSecret, Writing, Owning
  <2> QED BY <1>10, <2>1, RestartKeepsInv DEF Panic
<1> QED BY <1>1, <1>2, <1>3, <1>4, <1>5, <1>6, <1>7, <1>8, <1>9, <1>10 DEF PassStep

LEMMA StepInv == Inv /\ [Next]_vars => Inv'
<1> SUFFICES ASSUME Inv, [Next]_vars PROVE Inv'
  OBVIOUS
<1>0. TypeOK /\ TypeOK'
  BY StepTyped DEF Inv
<1>1. CASE UNCHANGED vars
  BY <1>0, <1>1, SecretLeft DEF Inv, CacheCurrent, vars, serverVars, cacheVars, Secret, Cached
<1>2. ASSUME NEW o \in Objects, Sync(o) PROVE Inv'
  <2>1. CacheCurrent' /\ (UNCHANGED Cached \/ Cached' = Secret)
    BY <1>0, <1>2, PassTyped DEF Sync, Inv, CacheCurrent, TypeOK, serverVars, Secret, Cached
  <2> QED BY <1>0, <1>2, <2>1, SecretLeft DEF Inv, Sync, serverVars, Secret
<1>3. ASSUME NEW o \in Objects, PatroniWrites(o) PROVE Inv'
  <2>1. o # "secret" /\ UNCHANGED rec
    BY <1>3 DEF PatroniWrites, PatroniMaps, WriteElsewhere
  <2>2. CacheCurrent' /\ UNCHANGED <<Secret, Cached>>
    BY <1>3, <2>1, WriteCache, PassTyped DEF PatroniWrites, WriteElsewhere, Secret, Cached
  <2> QED BY <1>0, <1>3, <2>1, <2>2, SecretLeft DEF Inv, PatroniWrites
<1>4. ASSUME NEW o \in Objects, Edit(o) PROVE Inv'
  <2>1. "edit" \in faults'
    BY <1>4, FaultsGrow DEF Edit
  <2>2. CacheCurrent'
    BY <1>4, WriteCache DEF Edit, WriteElsewhere
  <2> QED BY <1>0, <2>1, <2>2 DEF Inv, SecretInHand, CutOff, PasswordsKnown
<1>5. ASSUME NEW p \in Pod, StartContainer(p) \/ StopContainer(p) PROVE Inv'
  <2>1. \A q \in Pod : pods'[q] # 0 => UNCHANGED pods[q] \/ (pods'[q] = Secret.data /\ Secret.exists)
    BY <1>0, <1>5, PassTyped DEF StartContainer, StopContainer, Present, TypeOK, Secret
  <2>2. faults \subseteq faults'
    BY <1>5, FaultsGrow DEF StartContainer, StopContainer
  <2> QED BY <1>0, <1>5, <2>1, <2>2, SecretLeft
          DEF Inv, CacheCurrent, StartContainer, StopContainer, OnlyPods, serverVars, cacheVars,
              Secret, Cached
<1>6. CASE SyncCluster \/ Wake
  BY <1>0, <1>6, SecretLeft DEF Inv, CacheCurrent, SyncCluster, Wake, serverVars, cacheVars, Secret, Cached
<1>7. CASE Begin
  <2>1. NotAtSecret /\ NotAtSecret'
    BY <1>7 DEF Begin, Enter, Idle, NotAtSecret, Writing, Owning
  <2> QED BY <1>0, <1>7, <2>1, SecretLeft
          DEF Inv, CacheCurrent, Begin, serverVars, cacheVars, Secret, Cached
<1>8. CASE PassStep
  BY <1>0, <1>8, PassStepInv
<1>9. CASE CrashOperator
  BY <1>0, <1>9, RestartKeepsInv, FaultsGrow DEF CrashOperator, CutOff
<1>10. CASE DeleteCluster
  <2>1. SecretInHand' /\ PasswordsKnown'
    BY <1>10, FaultsGrow
    DEF DeleteCluster, cacheVars, Inv, SecretInHand, CutOff, PasswordsKnown, Owning, Secret
  <2> QED BY <1>0, <1>10, <2>1 DEF Inv, CacheCurrent, DeleteCluster, cacheVars
<1>11. CASE CollectGarbage
  <2>1. CacheCurrent'
    BY <1>0, <1>11 DEF CollectGarbage, Inv, CacheCurrent
  <2>2. PasswordsKnown'
    BY <1>11 DEF CollectGarbage, PasswordsKnown
  <2>3. IF Secret.exists /\ Secret.owned THEN ~Secret'.exists ELSE UNCHANGED Secret /\ UNCHANGED rec
    BY <1>0, <1>11, PassTyped, ConstantsTyped DEF CollectGarbage, Garbage, Secret
  <2>4. Owning' = Owning
    BY <1>0, <1>11 DEF CollectGarbage, Owning, TypeOK, Worker
  <2>5. SecretInHand'
    BY <1>11, <2>3, <2>4 DEF CollectGarbage, Inv, SecretInHand, CutOff
  <2> QED BY <1>0, <2>1, <2>2, <2>5 DEF Inv
<1> QED
  BY <1>1, <1>2, <1>3, <1>4, <1>5, <1>6, <1>7, <1>8, <1>9, <1>10, <1>11 DEF Next

(* Only inside a pass, or after one was cut off, is the secret unowned.      *)
THEOREM SecretKeepsOwner == Spec => []SecretOwnedAtRest
BY InitInv, StepInv, InvImplies, PTL DEF Spec

(* Pods have the secret's passwords, unless a pass took a secret that is     *)
(* there for absent: that, and no failed call or crash, is what sets them    *)
(* at odds.                                                                  *)
THEOREM PasswordsShared == Spec => []PodsShare
BY InitInv, StepInv, InvImplies, PTL DEF Spec

-----------------------------------------------------------------------------
(* Patroni's config maps: what a pass writes to one that exists are the data *)
(* that it has, because a copy that is not stale is the server's.            *)
DataKept(o) == objs[o].exists /\ objs'[o].exists => objs'[o].data = objs[o].data

LEMMA PassKeepsData ==
  ASSUME Inv, PassStep, NEW x \in Objects \cap PatroniMaps PROVE DataKept(x)
<1>0. TypeOK
  BY DEF Inv
<1>1. ASSUME NEW o \in Objects, Create(o) \/ UpdatePlain(o) PROVE DataKept(x)
  <2>1. o # x
    BY <1>1 DEF Create, UpdatePlain, Plain, Services, Rbac, PatroniMaps
  <2> QED BY <1>0, <1>1, <2>1 DEF Create, UpdatePlain, Write, TypeOK, DataKept
<1>2. ASSUME NEW o \in Objects, OwnMap(o) PROVE DataKept(x)
  <2>1. CASE o # x
    BY <1>0, <1>2, <2>1 DEF OwnMap, Write, TypeOK, DataKept
  <2>2. CASE o = x
    <3>1. cache[x] = objs[x] /\ objs[x] \in Object
      BY <1>0, <1>2, <2>2 DEF OwnMap, Current, Inv, CacheCurrent, TypeOK
    <3>2. objs'[x] = [objs[x] EXCEPT !.owned = TRUE]
      BY <1>0, <1>2, <2>2, <3>1 DEF OwnMap, Write, TypeOK
    <3> QED BY <3>1, <3>2 DEF DataKept, Object
  <2> QED BY <2>1, <2>2
<1>3. CASE UpdateSpilo \/ WriteSecret \/ OwnSecret
  BY <1>0, <1>3 DEF UpdateSpilo, WriteSecret, OwnSecret, Write, TypeOK, DataKept, PatroniMaps
<1>4. ASSUME \/ \E o \in Objects : Skip(o) \/ Retry(o)
             \/ ReadSecret \/ GeneratePasswords \/ PassFails \/ Panic
      PROVE  DataKept(x)
  BY <1>4 DEF Skip, Retry, ReadSecret, GeneratePasswords, PassFails, Panic, Restart, serverVars, DataKept
<1> QED BY <1>1, <1>2, <1>3, <1>4 DEF PassStep

LEMMA StepKeepsData ==
  ASSUME Inv, [Next]_vars, rec' # rec, NEW x \in Objects \cap PatroniMaps PROVE DataKept(x)
<1>0. TypeOK
  BY DEF Inv
<1>1. CASE PassStep
  BY <1>1, PassKeepsData
<1>2. CASE CollectGarbage
  BY <1>2, ConstantsTyped DEF CollectGarbage, DataKept
<1>3. ASSUME NEW o \in Objects, Edit(o) PROVE DataKept(x)
  <2>1. o = "secret" /\ x # o
    BY <1>3 DEF Edit, WriteElsewhere, PatroniMaps
  <2> QED BY <1>0, <1>3, <2>1 DEF Edit, WriteElsewhere, Write, TypeOK, DataKept
<1>4. ASSUME NEW o \in Objects, PatroniWrites(o) PROVE FALSE
  BY <1>4 DEF PatroniWrites, WriteElsewhere, PatroniMaps
<1>5. ASSUME \/ \E o \in Objects : Sync(o)
             \/ \E p \in Pod : StartContainer(p) \/ StopContainer(p)
             \/ SyncCluster \/ Wake \/ Begin \/ CrashOperator \/ DeleteCluster
             \/ UNCHANGED vars
      PROVE  DataKept(x)
  BY <1>5 DEF Sync, StartContainer, StopContainer, OnlyPods, SyncCluster, Wake, Begin,
              CrashOperator, Restart, DeleteCluster, vars, serverVars, DataKept
<1> QED BY <1>1, <1>2, <1>3, <1>4, <1>5 DEF Next

(* No pass takes back what Patroni wrote to its config maps.                 *)
THEOREM PatroniUndisturbed == Spec => PatroniDataKept
<1> DEFINE KeepsData == rec' # rec => \A o \in Objects \cap PatroniMaps :
                          objs[o].exists /\ objs'[o].exists => objs'[o].data = objs[o].data
<1>1. Inv /\ [Next]_vars => KeepsData
  BY StepKeepsData DEF DataKept
<1>2. UNCHANGED vars => KeepsData
  BY DEF vars
<1> QED BY <1>1, <1>2, InitInv, StepInv, PTL DEF Spec, PatroniDataKept
-----------------------------------------------------------------------------
(***************************************************************************)
(* Why the reconciler is kept awake.  A pass that is past the secret, or   *)
(* over, has written the secret without its owner and then with it, which  *)
(* is a change that comes back as an event; or it has failed, and is       *)
(* queued.  An event is only ever taken by queueing the BGCluster.         *)
(***************************************************************************)
Position(o) == CHOOSE n \in DOMAIN Pass : Pass[n] = o
Past(o)     == o = "idle" \/ Position(o) > Position("secret")
Awake       == queued \/ events # {}

AwakeInv ==
  /\ alive => clusterSeen
  /\ Owning /\ rec.fresh => Secret.exists /\ ~Secret.owned
  /\ alive /\ Past(rec.at) => Awake

LEMMA PositionUnique ==
  /\ \A o \in Objects : Position(o) \in DOMAIN Pass /\ Pass[Position(o)] = o
  /\ \A n \in DOMAIN Pass : Position(Pass[n]) = n
<1>1. ASSUME NEW o \in Objects PROVE Position(o) \in DOMAIN Pass /\ Pass[Position(o)] = o
  <2>1. \E n \in DOMAIN Pass : Pass[n] = o
    BY DEF Objects
  <2> QED BY <2>1 DEF Position
<1> HIDE DEF Position
<1>2. ASSUME NEW n \in DOMAIN Pass PROVE Position(Pass[n]) = n
  BY <1>1, PassTyped, PassAssumption
<1> QED BY <1>1, <1>2

(* No step from an object to the next one jumps over the secret.             *)
LEMMA StartBefore == ~Past(Pass[1])
<1>1. Position(Pass[1]) = 1 /\ Position("secret") \in DOMAIN Pass /\ Pass[1] # "idle"
  BY PassTyped, PositionUnique
<1> HIDE DEF Position
<1> QED BY <1>1, PassTyped DEF Past

LEMMA NextBefore ==
  ASSUME NEW o \in Objects, o # "secret", ~Past(o)
  PROVE  ~Past(Following(o))
<1> DEFINE i == Position(o)
           s == Position("secret")
<1>1. i \in DOMAIN Pass /\ s \in DOMAIN Pass /\ Pass[i] = o /\ Pass[s] = "secret"
  BY PassTyped, PositionUnique
<1>2. i <= s
  <2> HIDE DEF Position
  <2> QED BY <1>1, PassTyped DEF Past
<1>3. Following(o) = IF i = Len(Pass) THEN "idle" ELSE Pass[i + 1]
  BY DEF Following, Position
<1> HIDE DEF Position, i, s
<1>4. i < s
  BY <1>1, <1>2, PassTyped
<1>5. i + 1 \in DOMAIN Pass /\ i # Len(Pass) /\ i + 1 <= s
  BY <1>1, <1>4, PassTyped
<1>6. Following(o) \in Objects /\ Position(Following(o)) = i + 1
  BY <1>3, <1>5, PassTyped, PositionUnique
<1> QED BY <1>1, <1>5, <1>6, PassTyped DEF Past, s

LEMMA ProceedBefore ==
  ASSUME NEW o \in Objects, o # "secret"
  PROVE  ~Past(o) => ~Past(Proceed(o).at)
BY NextBefore DEF Proceed, Enter

(* A step of the pass at an object other than the secret, and its failure.   *)
LEMMA PassGoesOn ==
  ASSUME AwakeInv, NEW o \in Objects, o # "secret", rec.at = o, rec' = Proceed(o),
         UNCHANGED <<alive, clusterSeen, queued>>, events \subseteq events'
  PROVE  AwakeInv'
<1>1. ~Owning'
  BY AtRest DEF Owning
<1>2. Past(rec'.at) => Past(rec.at)
  BY ProceedBefore
<1> HIDE DEF Past
<1>3. alive' /\ Past(rec'.at) => Awake'
  BY <1>2 DEF AwakeInv, Awake
<1> QED BY <1>1, <1>3 DEF AwakeInv

LEMMA FailAwake ==
  ASSUME AwakeInv, queued', rec' = Idle, alive' => clusterSeen'
  PROVE  AwakeInv'
BY ConstantsTyped DEF AwakeInv, Owning, Awake

LEMMA WriteAwake ==
  ASSUME AwakeInv, NEW o \in Objects, o # "secret", rec.at = o, NEW object,
         Write(o, object), Continue(Proceed(o)), OnlyOperator
  PROVE  AwakeInv'
<1>1. events \subseteq events'
  BY DEF Write
<1>2. CASE rec' = Proceed(o) /\ UNCHANGED queued
  BY <1>1, <1>2, PassGoesOn DEF OnlyOperator
<1>3. CASE Fail
  BY <1>3, FailAwake DEF Fail, OnlyOperator, AwakeInv
<1> QED BY <1>2, <1>3 DEF Continue

(* Anyone's step elsewhere: the secret the pass holds is as it left it.      *)
LEMMA ElsewhereAwake ==
  ASSUME AwakeInv, alive' => alive, alive' => clusterSeen', Awake => Awake', rec'.at = rec.at,
         Owning' /\ rec'.fresh => Owning /\ rec.fresh /\ UNCHANGED Secret
  PROVE  AwakeInv'
BY DEF AwakeInv, Past

LEMMA PassStepAwake ==
  ASSUME Inv, AwakeInv, PassStep PROVE AwakeInv'
<1>0. TypeOK
  BY DEF Inv
<1>1. ASSUME NEW o \in Objects, Create(o) \/ UpdatePlain(o) \/ OwnMap(o) PROVE AwakeInv'
  <2>1. o # "secret"
    BY <1>1 DEF Create, UpdatePlain, OwnMap, Plain, Services, Rbac, PatroniMaps
  <2> QED BY <1>1, <2>1, WriteAwake DEF Create, UpdatePlain, OwnMap
<1>2. CASE UpdateSpilo
  <2>1. "spilo" \in Objects
    BY <1>0, <1>2 DEF UpdateSpilo, TypeOK, Worker
  <2> QED BY <1>2, <2>1, WriteAwake DEF UpdateSpilo
<1>3. ASSUME NEW o \in Objects, Skip(o) PROVE AwakeInv'
  <2>1. o # "secret" /\ rec.at = o
    BY <1>3 DEF Skip, Nothing, PatroniMaps
  <2> QED BY <1>3, <2>1, PassGoesOn DEF Skip, serverVars, cacheVars
<1>4. ASSUME \/ \E o \in Objects : Retry(o)
             \/ ReadSecret \/ GeneratePasswords
      PROVE  AwakeInv'
  <2>1. rec'.at = rec.at /\ UNCHANGED <<objs, alive, clusterSeen, queued, events>>
    BY <1>0, <1>4 DEF Retry, ReadSecret, GeneratePasswords, TypeOK, Worker, serverVars, cacheVars
  <2>2. ~Owning'
    BY <1>0, <1>4
    DEF Retry, Conflict, PatroniMaps, ReadSecret, GeneratePasswords, TypeOK, Worker, Owning
  <2> QED BY <2>1, <2>2, ElsewhereAwake DEF AwakeInv, Awake
<1>5. CASE WriteSecret
  <2>1. Secret'.exists /\ ~Secret'.owned
    BY <1>5, WriteCache, PassTyped DEF WriteSecret, OnlyOperator, Secret
  <2>2. CASE rec' = ThenOwner
    <3>1. rec'.at = "secret"
      BY <1>0, <1>5, <2>2 DEF WriteSecret, ThenOwner, TypeOK, Worker
    <3>2. ~Past("secret")
      BY PassTyped, PositionUnique DEF Past
    <3> QED BY <1>5, <2>1, <3>1, <3>2 DEF AwakeInv, WriteSecret, OnlyOperator
  <2>3. CASE Fail
    BY <1>5, <2>3, FailAwake DEF Fail, WriteSecret, OnlyOperator, AwakeInv
  <2> QED BY <1>5, <2>2, <2>3 DEF WriteSecret, Continue
<1>6. CASE OwnSecret
  <2> DEFINE object == [exists |-> TRUE, owned |-> TRUE, data |-> rec.copy]
  <2>1. Owning /\ rec.fresh /\ Write("secret", object)
    BY <1>6 DEF OwnSecret, Owning
  <2>2. objs["secret"] # object
    BY <2>1 DEF AwakeInv, Secret
  <2>3. "secret" \in events'
    BY <2>1, <2>2 DEF Write, Concerns, Changed, Watched
  <2>4. ~Owning'
    BY <1>6, AtRest, PassTyped DEF OwnSecret, Continue, Fail, Owning
  <2> QED BY <1>6, <2>3, <2>4 DEF AwakeInv, Awake, OwnSecret, OnlyOperator
<1>7. CASE PassFails
  BY <1>7, FailAwake DEF PassFails, Fail, AwakeInv, serverVars, cacheVars
<1>8. CASE Panic
  BY <1>8, FailAwake DEF Panic, Restart, serverVars
<1> QED BY <1>1, <1>2, <1>3, <1>4, <1>5, <1>6, <1>7, <1>8 DEF PassStep

LEMMA StepAwake == Inv /\ AwakeInv /\ [Next]_vars => AwakeInv'
<1> SUFFICES ASSUME Inv, AwakeInv, [Next]_vars PROVE AwakeInv'
  OBVIOUS
<1>0. TypeOK
  BY DEF Inv
<1>1. ASSUME \/ \E o \in Objects : Sync(o)
             \/ \E p \in Pod : StartContainer(p) \/ StopContainer(p)
             \/ SyncCluster \/ Wake \/ DeleteCluster \/ UNCHANGED vars
      PROVE  AwakeInv'
  <2>1. UNCHANGED <<objs, rec>> /\ (alive' => alive) /\ (Awake => Awake') /\ (alive' => clusterSeen')
    <3>1. ASSUME NEW o \in Objects, Sync(o) PROVE Awake => Awake'
      <4>1. events' = events \ {o} /\ queued' = (queued \/ o \in events)
        BY <3>1 DEF Sync
      <4>2. CASE queued \/ o \in events
        BY <4>1, <4>2 DEF Awake
      <4>3. CASE ~queued /\ o \notin events
        BY <4>1, <4>3 DEF Awake
      <4> QED BY <4>2, <4>3
    <3>2. ASSUME \/ \E p \in Pod : StartContainer(p) \/ StopContainer(p)
                 \/ SyncCluster \/ Wake \/ DeleteCluster \/ UNCHANGED vars
          PROVE  Awake => Awake'
      BY <3>2 DEF StartContainer, StopContainer, OnlyPods, SyncCluster, Wake, DeleteCluster,
                  vars, cacheVars, Awake
    <3>3. UNCHANGED <<objs, rec>> /\ (alive' => alive) /\ (alive' => clusterSeen')
      BY <1>1 DEF Sync, StartContainer, StopContainer, OnlyPods, SyncCluster, Wake,
                  DeleteCluster, vars, serverVars, cacheVars, AwakeInv
    <3> QED BY <1>1, <3>1, <3>2, <3>3
  <2> QED BY <2>1, ElsewhereAwake DEF Owning, Secret
<1>2. ASSUME NEW o \in Objects, NEW object, WriteElsewhere(o, object),
             UNCHANGED <<alive, clusterSeen, queued>>
      PROVE  AwakeInv'
  <2>1. Awake => Awake'
    BY <1>2 DEF WriteElsewhere, Write, Awake
  <2>2. rec'.at = rec.at /\ (rec'.fresh => rec' = rec /\ UNCHANGED Secret)
    BY <1>0, <1>2, PassTyped DEF WriteElsewhere, Write, TypeOK, Worker, Secret
  <2> QED BY <1>2, <2>1, <2>2, ElsewhereAwake DEF AwakeInv, Owning
<1>3. ASSUME NEW o \in Objects, PatroniWrites(o) \/ Edit(o) PROVE AwakeInv'
  BY <1>2, <1>3 DEF PatroniWrites, Edit
<1>4. CASE CollectGarbage
  <2>1. ~alive' /\ rec'.at = rec.at
    BY <1>0, <1>4 DEF CollectGarbage, TypeOK, Worker
  <2>2. rec'.fresh => rec' = rec /\ UNCHANGED Secret
    BY <1>0, <1>4, PassTyped DEF CollectGarbage, TypeOK, Worker, Secret
  <2> QED BY <2>1, <2>2 DEF AwakeInv, Owning
<1>5. CASE Begin
  <2>1. alive' => rec' = Enter(Pass[1])
    BY <1>5 DEF Begin, AwakeInv, serverVars
  <2>2. alive' => ~Past(rec'.at)
    BY <2>1, StartBefore DEF Enter
  <2>3. ~Owning'
    BY <1>5 DEF Begin, Owning, Enter, Idle
  <2> QED BY <1>5, <2>2, <2>3 DEF Begin, AwakeInv, serverVars, cacheVars
<1>6. CASE PassStep
  BY <1>6, PassStepAwake
<1>7. CASE CrashOperator
  BY <1>7, FailAwake DEF CrashOperator, Restart, serverVars
<1> QED BY <1>1, <1>3, <1>4, <1>5, <1>6, <1>7 DEF Next

(* Whatever fails and whoever writes the objects: as long as the BGCluster   *)
(* is there, a pass is queued, under way or about to be woken by a change.   *)
(* It need not be the user's change; the pass's own two writes of the secret *)
(* (reconcile_secrets.go:57 and :83) wake the next one.                      *)
THEOREM NeverAsleep == Spec => []KeptAwake
<1>1. Init => AwakeInv
  BY AtRest, PassTyped DEF Init, AwakeInv, Awake, Owning, Idle, Enter
<1>2. AwakeInv => KeptAwake
  BY DEF AwakeInv, Past, Awake, KeptAwake
<1> QED BY <1>1, <1>2, InitInv, StepInv, StepAwake, PTL DEF Spec
=============================================================================
