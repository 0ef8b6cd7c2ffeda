------------------------------ MODULE MCEgress ------------------------------
(* Instances of Egress: a fail-closed Egress selects the pods of node 2,   *)
(* one of them without IPv6, and node 1 is the egress node.                *)
EXTENDS Egress

CONSTANTS p1, p2, x

MCWorld ==
  [egress |-> [e \in Egresses |->
                 IF e = 1 THEN [at |-> 2, class |-> 1, sel |-> x, closed |-> TRUE]
                          ELSE Absent],
   pod    |-> [p \in Pods |-> [node |-> 2, labels |-> {x},
                               fams |-> IF p = p1 THEN {4, 6} ELSE {4}]],
   node   |-> [n \in Nodes |-> [ready |-> TRUE, cidrs |-> TRUE, addr |-> TRUE]],
   class  |-> [c \in Classes |-> [node |-> 1, open |-> TRUE, full |-> FALSE,
                                  rows |-> [n \in Nodes |-> "none"]]],
   link   |-> {}]

Init == StartIn({MCWorld}, [n \in Nodes |-> "full"])

FairSpec == Init /\ [][Next]_vars /\ Fairness
=============================================================================
