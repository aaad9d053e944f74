-------------------------- MODULE CitusMembership --------------------------
(***************************************************************************)
(* What the bootstrap of a sharded cluster promises of its workers: each   *)
(* gets the Citus extension, becomes ready, is signalled to the            *)
(* coordinator and joins its metadata.  Nothing of this is ever taken      *)
(* back, a worker is signalled only when it is ready, and only a worker    *)
(* with the extension becomes ready or joins.                              *)
(*                                                                         *)
(* It does not promise that the coordinator waits for its workers before   *)
(* it is finished: the code gives up waiting.                              *)
(***************************************************************************)
CONSTANT Worker

VARIABLES extended, ready, signalled, joined, finished

mvars == <<extended, ready, signalled, joined, finished>>

Init ==
  /\ extended = {} /\ ready = {} /\ signalled = {} /\ joined = {}
  /\ finished = FALSE

Extend(w) ==
  /\ extended' = extended \cup {w}
  /\ UNCHANGED <<ready, signalled, joined, finished>>

BecomeReady(w) ==
  /\ w \in extended
  /\ ready' = ready \cup {w}
  /\ UNCHANGED <<extended, signalled, joined, finished>>

(* One update may signal several workers. *)
Signal(workers) ==
  /\ workers \subseteq ready
  /\ signalled' = signalled \cup workers
  /\ UNCHANGED <<extended, ready, joined, finished>>

Join(w) ==
  /\ w \in extended
  /\ joined' = joined \cup {w}
  /\ UNCHANGED <<extended, ready, signalled, finished>>

Finish ==
  /\ finished' = TRUE
  /\ UNCHANGED <<extended, ready, signalled, joined>>

Next ==
  \/ \E w \in Worker : Extend(w) \/ BecomeReady(w) \/ Join(w)
  \/ \E workers \in SUBSET Worker : Signal(workers)
  \/ Finish

Spec == Init /\ [][Next]_mvars
=============================================================================
