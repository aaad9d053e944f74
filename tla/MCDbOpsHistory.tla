---------------------------- MODULE MCDbOpsHistory ----------------------------
(* DbOpsHistory with the constants of its TLC runs: small sets of model       *)
(* values, how many faults of each kind a run allows, and pods that may be    *)
(* exchanged for one another.                                                 *)
EXTENDS DbOpsHistory, TLC

CONSTANTS o1, o2, p1, p2

FaultFree == [k \in FaultKind |-> 0]
OneError  == [FaultFree EXCEPT !["apiError"] = 1]
NoTouch   == [k \in FaultKind |-> IF k = "touch" THEN 0 ELSE 1]

AlreadyInitialized == {TRUE}
NotInitialized     == {FALSE}

PodSymmetry == Permutations({p1, p2})

(* The users ask for one operation at a time, and one thing goes wrong.  Both *)
(* restrict only steps that no fairness is asked of.                          *)
OneAtATime == \A o, other \in Op : dbops'[o].exists /\ dbops'[other].exists => o = other

OneFault == \A kind, other \in FaultKind :
  left'[kind] < Budget[kind] /\ left'[other] < Budget[other] => kind = other

LiveSpec == HInit /\ [][HNext /\ OneAtATime /\ OneFault]_hvars /\ Fairness
=============================================================================
