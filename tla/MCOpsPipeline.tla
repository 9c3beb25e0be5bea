-------------------------- MODULE MCOpsPipeline --------------------------
(* A small rule catalogue and one kind of heartbeat.                     *)
EXTENDS OpsPipeline, TLC

CONSTANTS n1, a1, a2, q1

Symmetry == Permutations(Anomalies)

\* The catalogue's reflexes; A-003 is given a level that needs a human.
MCReflex == [r \in Rules |-> CASE r = "A-001" -> "publish_config_update"
                               [] r = "A-002" -> "observe_only"
                               [] r = "A-003" -> "observe_only"
                               [] r = "A-005" -> "set_node_degraded"]
MCLevel == [r \in Rules |-> IF r = "A-003" THEN 3 ELSE 2]
MCSuppress == [r \in Rules |-> 1]

\* Two of them are congested and weak.
MCSnapshots == {[queue |-> 11, heap |-> 100, rssi |-> 85]}
=============================================================================
