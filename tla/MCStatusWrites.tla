--------------------------- MODULE MCStatusWrites ---------------------------
(* StatusWrites for a class with two accepting nodes.                      *)
EXTENDS StatusWrites

CONSTANTS n1, n2

=============================================================================
