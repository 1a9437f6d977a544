-------------------------- MODULE MCDistanceVector --------------------------
(* Two prefixes; the switch has a route for one of them from its rules.    *)
EXTENDS DistanceVector

CONSTANTS p1, p2, k1, k2, n1, n2, m1, i1

MCPair   == {p1, p2}
MCMasked == [p \in MCPair |-> IF p = p1 THEN k1 ELSE k2]
=============================================================================
