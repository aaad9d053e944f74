------------------------------ MODULE OpLedger ------------------------------
(***************************************************************************)
(* What the BGDbOps protocol promises of the objects it writes, whoever    *)
(* writes them and however stale the copy the writer started from: a       *)
(* BGDbOps is opened and withdrawn by the user alone; while it is there,   *)
(* pods sign it, one signature per write, only after it was announced on   *)
(* the BGCluster, and no signature or completion is ever taken back; and   *)
(* the "initialized" annotation of the BGCluster, once there, stays.       *)
(*                                                                         *)
(* It does not promise that Close waits for signatures or announcements:   *)
(* the code does not (see the violation runs of DbOpsHistory).             *)
(***************************************************************************)
CONSTANTS Op, Pod

VARIABLES
  ledger,      \* the BGDbOps objects
  announced,   \* those ever posted on the BGCluster
  initialized  \* the BGCluster's initialized annotation

lvars == <<ledger, announced, initialized>>

Blank == [exists |-> FALSE, marks |-> {}, completed |-> FALSE]

Init ==
  /\ ledger = [o \in Op |-> Blank]
  /\ announced = {}
  /\ initialized \in BOOLEAN

Open(o) ==
  /\ ~ledger[o].exists
  /\ ledger' = [ledger EXCEPT ![o] = [Blank EXCEPT !.exists = TRUE]]
  /\ UNCHANGED <<announced, initialized>>

Announce(o) ==
  /\ announced' = announced \cup {o}
  /\ UNCHANGED <<ledger, initialized>>

Sign(o, p) ==
  /\ ledger[o].exists
  /\ o \in announced
  /\ ledger' = [ledger EXCEPT ![o].marks = @ \cup {p}]
  /\ UNCHANGED <<announced, initialized>>

Close(o) ==
  /\ ledger[o].exists
  /\ ledger' = [ledger EXCEPT ![o].completed = TRUE]
  /\ UNCHANGED <<announced, initialized>>

Withdraw(o) ==
  /\ ledger[o].exists
  /\ ledger' = [ledger EXCEPT ![o] = Blank]
  /\ UNCHANGED <<announced, initialized>>

Initialize ==
  /\ initialized' = TRUE
  /\ UNCHANGED <<ledger, announced>>

Next ==
  \/ \E o \in Op : Open(o) \/ Announce(o) \/ Close(o) \/ Withdraw(o)
  \/ \E o \in Op, p \in Pod : Sign(o, p)
  \/ Initialize

Spec == Init /\ [][Next]_lvars
=============================================================================
