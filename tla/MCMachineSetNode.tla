--------------------------- MODULE MCMachineSetNode ---------------------------
(* Two sets of the workspace's own, one of them a control plane, and one of others. *)
EXTENDS MachineSetNode

Id(cluster, suffix) == [cluster |-> cluster, suffix |-> suffix]
MCManaged == {Id("a", "control-planes"), Id("b", "workers")}
MCSetIds == MCManaged \cup {Id("a", "other")}
================================================================================
