----------------------------- MODULE MCPortMaps -----------------------------
(***************************************************************************)
(* The instance for conflicts: three PortMaps, two classes that name the   *)
(* only node, and one pod that translates port 1.                          *)
(***************************************************************************)
EXTENDS ConflictLoop

OneNode == [c \in Classes |-> {1}]
OnePodService == [p \in Pods |-> "http"]
OnePodNode == [p \in Pods |-> 1]
OnePodPort == [p \in Pods |-> 2]

=============================================================================
