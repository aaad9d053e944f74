------------------------- MODULE MCShardedBootstrap -------------------------
(* ShardedBootstrap with the constants of its TLC runs. *)
EXTENDS ShardedBootstrap

CONSTANTS t1, t2

(* One fault of any kind, and with it a conflict on any BGCluster. *)
OneAndTouch == {{}} \cup {{kind} : kind \in FaultKind}
                    \cup {{"touch", kind} : kind \in FaultKind}
CrashEdit   == SUBSET {"crash", "edit", "timeout"}
AnyWait     == {{}, {"timeout"}}
=============================================================================
