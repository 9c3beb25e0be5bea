------------------------- MODULE MCHttpRateLimit --------------------------
(* A small instance of HttpRateLimit: limits that two addresses, the first *)
(* of them a proxy, and a node reach, ordered as the real ones             *)
(* (node < address < global).                                              *)
EXTENDS HttpRateLimit, TLC

CONSTANTS i1, i2, n1

SmallMax == [k \in Keys |->
    CASE k = Global -> 3 [] k \in Ips -> 2 [] OTHER -> 1]
=============================================================================
