----------------------------- MODULE MCMetrics -----------------------------
(* Metrics with two rules and two PortMaps: rule k1 is a's, then shared    *)
(* with b or handed to it, and k2 is b's or the one a moves to.            *)
EXTENDS Metrics

CONSTANTS k1, k2, a, b

MCIndexes ==
  {[k \in Series |-> IF k = k1 THEN {a} ELSE {}],
   [k \in Series |-> IF k = k1 THEN {a} ELSE {b}],
   [k \in Series |-> IF k = k1 THEN {b} ELSE {}],
   [k \in Series |-> IF k = k1 THEN {a, b} ELSE {}],
   [k \in Series |-> IF k = k1 THEN {} ELSE {a}]}

=============================================================================
