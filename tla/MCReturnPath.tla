---------------------------- MODULE MCReturnPath ----------------------------
(***************************************************************************)
(* Instances of ReturnPath.  Nodes 1 and 2 accept, node 3 does not.  Pod 1 *)
(* is off the accepting nodes, pod 2 is on node 2; both are dual stack and *)
(* listen on port 2 where the mapping says 1.  Pod 3, on node 3, is behind *)
(* a range of another Service and lists no port.  In the second instance   *)
(* two Single classes, of one node each, name the same Service port.       *)
(***************************************************************************)
EXTENDS ReturnPath

Map(c, i, s, a, b) ==
  [class |-> c, flaw |-> "None", proto |-> "tcp", first |-> a, last |-> b, service |-> s,
   interfaces |-> i]

MCOffered ==
  <<{Map("single", {}, "http", 1, 1), Map("multi", {}, "http", 1, 1),
     Map("none", {}, "http", 1, 1)},
    {Map("single", {<<"eth0">>}, "web", 2, 3),
     [Map("gone", {}, "http", 1, 1) EXCEPT !.flaw = "ClassNotFound"]}>>
MCNodeSets == {{1, 2, 3}, {2, 3}, {3}}
MCClassNodes == [c \in Classes |-> IF c = "gone" THEN {} ELSE {1, 2}]
MCIfaces ==
  [c \in Classes |-> <<{<<"eth0">>}, {<<"eth0">>, <<"wt0">>}, {}>>]
MCMTU == <<1500, 1300, 1500>>
MCLocalAddrs == [n \in Nodes |-> {<<"v4", n>>, <<"v6", n>>}]
MCPodService == [p \in Pods |-> IF p = 3 THEN "web" ELSE "http"]
MCPodNode == [p \in Pods |-> IF p = 2 THEN 2 ELSE 3]
MCPodPort == [p \in Pods |-> IF p = 3 THEN 0 ELSE 2]

TwoOffered == <<{Map("c1", {}, "http", 1, 1)}, {Map("c2", {}, "http", 1, 1)}>>
TwoNodeSets == {{1, 2, 3}}
TwoClassNodes == [c \in Classes |-> IF c = "c1" THEN {1} ELSE {2}]
TwoIfaces == [c \in Classes |-> [n \in Nodes |-> {<<"eth0">>}]]
OneService == [p \in Pods |-> "http"]
TwoPodPort == [p \in Pods |-> 1]

=============================================================================
