-------------------------- MODULE MCNodeSession --------------------------
(* One node: a message that asks for confirmation, two that do not, of which    *)
(* the last has the id of the other, and one of V1 whose event_id is taken too. *)
EXTENDS NodeSession, TLC

CONSTANTS n1, m1, m2, m3, m4, r1, r2, default, asked

Symmetry == Permutations(Requests)
MCMessageId == (m1 :> m1) @@ (m2 :> m2) @@ (m3 :> m2) @@ (m4 :> None)
MCEventId == [m \in Messages |-> IF m = m4 THEN m2 ELSE None]
MCSender == [m \in Messages |-> n1]
=============================================================================
