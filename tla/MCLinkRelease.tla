---------------------------- MODULE MCLinkRelease ----------------------------
(* A small instance of LinkRelease: one class between two nodes.            *)
EXTENDS LinkRelease, TLC

CONSTANTS n1, n2

MCPeers == [k \in Keys |-> {n1, n2}]

Symmetry == Permutations({n1, n2})
=============================================================================
