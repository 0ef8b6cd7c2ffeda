----------------------------- MODULE MCLinkPool -----------------------------
(* Small instances of LinkPool: every key is a pair of the same two nodes  *)
(* (one pair, several classes), so each agent is an end of every link and  *)
(* may hold a pod of every key.                                            *)
EXTENDS LinkPool, TLC

CONSTANTS n1, n2

MCPeers == [k \in Keys |-> {n1, n2}]

Symmetry == Permutations({n1, n2})
=============================================================================
