--------------------------- MODULE MCNodeDatapath ---------------------------
(* NodeDatapath on one node, with up to two links: each in a slot of its   *)
(* own, or one after the other in the same slot.                           *)
EXTENDS NodeDatapath

CONSTANTS l1, l2

OwnSlots == [l \in Links |-> IF l = l1 THEN 1 ELSE 2]

OneSlot == [l \in Links |-> 1]

=============================================================================
