------------------------------ MODULE MCOps005 -----------------------------
(* Two evaluators, one command; a good and a bad heartbeat, so that a second *)
(* bad one sets off the rules over heartbeats.                               *)
EXTENDS Ops005, TLC

CONSTANTS e1, e2

Good == [queue |-> FALSE, heap |-> 2, weak |-> FALSE, status |-> "online"]
Bad  == [queue |-> TRUE, heap |-> 1, weak |-> TRUE, status |-> "offline"]
MCBeats == {Good, Bad}

Symmetry == Permutations({e1, e2})
=============================================================================
