------------------------ MODULE MCCommandDispatch ------------------------
(* Small instances of CommandDispatch: which node each command is for, and *)
(* which node each poll request comes from.                                *)
EXTENDS CommandDispatch, TLC

CONSTANTS c1, c2, m1, h1, p1, p2

\* One command for an MQTT node and one for a polling node.
MixedTarget == (c1 :> m1) @@ (c2 :> h1)
\* Both commands for the polling node.
PolledTarget == (c1 :> h1) @@ (c2 :> h1)

\* The polling node waits for each answer before it polls again.
OnePoller == p1 :> h1
\* It gave up on an answer, or polls under both prefixes: two handlers at once.
TwoPollers == (p1 :> h1) @@ (p2 :> h1)
=============================================================================
