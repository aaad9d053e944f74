-------------------------- MODULE MCOwnedResources --------------------------
(* OwnedResources with the passes and faults of its runs.                     *)
EXTENDS OwnedResources

OneOfEachKind == <<"statefulset", "spilo", "leader", "secret">>
SetAndSecret  == <<"statefulset", "secret">>

OneFault == {{}} \cup {{kind} : kind \in FaultKind}
NoFault  == {{}}
=============================================================================
