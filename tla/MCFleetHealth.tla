-------------------------- MODULE MCFleetHealth --------------------------
(* A node that tells everything about itself and one that tells nothing.   *)
EXTENDS FleetHealth

CONSTANTS n1, n2

MCProfile == [n \in Nodes |-> [ota |-> n = n1, firmware |-> n = n1,
                               uid |-> n = n1, hardware |-> n = n1]]

\* Heartbeats of one kind: a queue of 20 and a signal of -90 dBm.
MCBeats == {[queue |-> 20, rssi |-> 90]}

\* One that costs a quarter of ten points, and one that costs a third of fifteen.
MCAnomalies == {[node |-> n1, category |-> "performance", rank |-> 1],
                [node |-> n1, category |-> "reliability", rank |-> 2]}

MCFirstSeen == [n \in Nodes |-> IF n = n1 THEN Never ELSE Garbled]
=============================================================================
