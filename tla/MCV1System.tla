---------------------------- MODULE MCV1System ---------------------------
(* One node, one command, and an interval that operators may ask for.    *)
EXTENDS V1System

CONSTANTS n1, c1, asked, default

MCTarget == [c \in Commands |-> n1]
=============================================================================
