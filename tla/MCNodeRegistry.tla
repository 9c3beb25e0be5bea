-------------------------- MODULE MCNodeRegistry --------------------------
(* Small instances of NodeRegistry.                                        *)
EXTENDS NodeRegistry, TLC

CONSTANTS n1, n2

Symmetry == Permutations({n1, n2})

=============================================================================
