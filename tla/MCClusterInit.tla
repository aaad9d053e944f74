---------------------------- MODULE MCClusterInit ----------------------------
(* ClusterInit with the constants of its TLC runs. *)
EXTENDS ClusterInit

Edited   == {{}, {"edit"}}
OneFault == {{}} \cup {{kind} : kind \in FaultKind}
=============================================================================
