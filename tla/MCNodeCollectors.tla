-------------------------- MODULE MCNodeCollectors --------------------------
(* NodeCollectors for TLC: a VM that is restarted in a new pod.            *)
EXTENDS NodeCollectors, TLC

CONSTANTS p1, p2, vm

Restarted == (p1 :> vm) @@ (p2 :> vm)
=============================================================================
