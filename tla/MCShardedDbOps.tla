--------------------------- MODULE MCShardedDbOps ---------------------------
(* ShardedDbOps with the faults its run allows together: any two of them.     *)
EXTENDS ShardedDbOps, FiniteSets

TwoFaults == {kinds \in SUBSET FaultKind : Cardinality(kinds) <= 2}
=============================================================================
