---------------------------- MODULE Egress_proof ----------------------------
(***************************************************************************)
(* What Egress.tla promises, proved for any nodes, pods, Egresses, classes *)
(* and worlds to start in.                                                 *)
(*                                                                         *)
(* That a pod stays held is an argument about one view at a time: whatever *)
(* a view lacks (a Link, a row, a Node, an address), a pod that the view   *)
(* secures is marked for a link or for the blackhole, and is in the keep   *)
(* state (SecuredHeld).  The invariant shows that every view secures every *)
(* pod that was secured at all times, although its kinds are of different  *)
(* ages, and that the stored keep state came from such a view.             *)
(***************************************************************************)
EXTENDS Egress, TLAPS

Forwards == {"none", "narrow", "full"}

\* The agents start in one of these worlds, on hosts that forward so.
SpecFrom(worlds, fw) == StartIn(worlds, fw) /\ [][Next]_vars

-----------------------------------------------------------------------------
(* The decisions.                                                          *)

\* A decision is that of an Egress that decides the pod.
LEMMA DecisionOf ==
  ASSUME NEW v, NEW d \in Decisions(v)
  PROVE  \E e \in Egresses, p \in Pods : Decides(v, e, p) /\ d = EgressPod(v, e, p)
BY DEF Decisions, Decided

\* A path over the link needs the link; IPv6 over it needs the link too, and
\* the link is one of the pod's node.
LEMMA DecisionShape ==
  ASSUME NEW v, NEW d \in Decisions(v)
  PROVE  /\ d.key = <<d.class, {d.gate, d.node}>>
         /\ d.has6 \in BOOLEAN /\ (d.has6 => d.linked)
         /\ d.path = "Link" => d.linked
         /\ d.path6 = "Link" => d.has6
<1>1. PICK e \in Egresses, p \in Pods : d = EgressPod(v, e, p)
  BY DecisionOf
<1> QED
  BY <1>1 DEF EgressPod, Path6

LEMMA DecisionType ==
  ASSUME NEW v \in World, NEW d \in Decisions(v)
  PROVE  /\ d.eg \in Egresses /\ d.class \in Classes /\ d.gate \in Nodes \cup {NoNode}
         /\ d.pod \in Pods /\ d.node \in Nodes /\ d.fams \subseteq Families
         /\ d.path \in Paths /\ d.path6 \in Paths
         /\ d.linked => d.key \in Keys
<1>1. PICK e \in Egresses, p \in Pods : Decides(v, e, p) /\ d = EgressPod(v, e, p)
  BY DecisionOf
<1>2. v.egress[e] \in EgressObject /\ v.pod[p] \in PodObject
  BY <1>1 DEF Decides, Contends, Ok, SelectedPods, World
<1>3. v.egress[e].class \in Classes /\ v.pod[p].node \in Nodes /\ v.pod[p].fams \subseteq Families
  BY <1>2 DEF EgressObject, PodObject
<1>4. v.class[v.egress[e].class] \in ClassObject
  BY <1>1, <1>3 DEF Decides, Contends, Ok, World
<1>5. v.class[v.egress[e].class].node \in Nodes
  BY <1>4 DEF ClassObject
<1>6. Gate(v, e) \in Nodes \cup {NoNode}
  BY <1>5 DEF Gate
<1>7. /\ d.eg = e /\ d.class = v.egress[e].class /\ d.gate = Gate(v, e)
      /\ d.pod = p /\ d.node = v.pod[p].node /\ d.fams = v.pod[p].fams
      /\ d.path \in Paths /\ d.path6 \in Paths
      /\ d.linked => d.gate # NoNode
  BY <1>1 DEF EgressPod, Path6, NodeOf, Paths
<1>8. d.linked => d.key \in Keys
  <2> SUFFICES ASSUME d.linked PROVE d.key \in Keys
    OBVIOUS
  <2>1. d.class \in Classes /\ d.gate \in Nodes /\ d.node \in Nodes
    BY <1>3, <1>6, <1>7
  <2>2. d.key = <<d.class, {d.gate, d.node}>>
    BY DecisionShape
  <2>3. {d.gate, d.node} \in {{m, n} : m, n \in Nodes}
    BY <2>1
  <2> QED
    BY <2>1, <2>2, <2>3 DEF Keys
<1> QED
  BY <1>3, <1>6, <1>7, <1>8

-----------------------------------------------------------------------------
(* What a pass gives to a node.                                            *)

LEMMA EmitType ==
  ASSUME NEW v \in World, NEW n \in Nodes, NEW F \in BOOLEAN
  PROVE  /\ EmitEgress(n, Decisions(v), F) \in HostState
         /\ KeepState(n, Decisions(v), F) \in HostState
         /\ Nothing \in HostState
<1> DEFINE D == Decisions(v)
           M == {x \in Here(n, D, F) : PathOf(x[1], x[2]) \in {"Link", "Blocked"}}
           L == {d \in D : d.linked /\ n \in d.key[2]}
           G == {d \in L : d.gate = n}
           B == {x \in Here(n, D, F) : x[1].closed /\ x[1].path # "Local"}
<1>1. \A x \in Here(n, D, F) :
        x[1] \in D /\ x[2] \in Families /\ x[1].pod \in Pods /\ MarkOf(x) \in Marks
  <2> SUFFICES ASSUME NEW x \in Here(n, D, F)
               PROVE  x[1] \in D /\ x[2] \in Families /\ x[1].pod \in Pods /\ MarkOf(x) \in Marks
    OBVIOUS
  <2>1. x[1] \in D /\ x[2] \in Families
    BY DEF Here
  <2>2. x[1].pod \in Pods /\ (x[1].linked => x[1].key \in Keys)
    BY <2>1, DecisionType
  <2>3. PathOf(x[1], x[2]) = "Link" => x[1].linked
    BY <2>1, DecisionShape DEF PathOf
  <2> QED
    BY <2>1, <2>2, <2>3 DEF MarkOf, Marks
<1>2. \A d \in L : d.key \in Keys /\ d.has6 \in BOOLEAN
  BY DecisionType, DecisionShape
<1>3. Blocked \in Marks /\ Keys \subseteq Marks /\ 4 \in Families /\ 6 \in Families
  BY DEF Marks, Families
<1> HIDE DEF D
<1>4. {<<x[1].pod, x[2], MarkOf(x)>> : x \in M} \subseteq Pods \X Families \X Marks
  BY <1>1
<1>5. UnifyLinkAddr6({[key |-> d.key, v6 |-> d.has6 /\ F] : d \in L})
        \subseteq [key : Keys, v6 : BOOLEAN]
  <2> DEFINE C == {[key |-> d.key, v6 |-> d.has6 /\ F] : d \in L}
  <2>1. \A c \in C : c.key \in Keys
    BY <1>2
  <2> HIDE DEF C
  <2> SUFFICES ASSUME NEW u \in UnifyLinkAddr6(C) PROVE u \in [key : Keys, v6 : BOOLEAN]
    BY DEF C
  <2>2. PICK c \in C : u = [key |-> c.key, v6 |-> \E x \in C : x.key = c.key /\ x.v6]
    BY Zenon DEF UnifyLinkAddr6
  <2>3. (\E x \in C : x.key = c.key /\ x.v6) \in BOOLEAN
    BY SMT
  <2> QED
    BY <2>1, <2>2, <2>3, SMT
<1>6. {d.key : d \in G} \subseteq Keys
  BY <1>2
<1>7. /\ {<<MarkOf(x), x[2]>> : x \in M} \subseteq Marks \X Families
      /\ {<<d.key, 4>> : d \in G} \subseteq Marks \X Families
      /\ {<<d.key, 6>> : d \in {y \in G : y.has6 /\ F}} \subseteq Marks \X Families
  BY <1>1, <1>2, <1>3
<1>8. EmitEgress(n, D, F) \in HostState
  <2> HIDE DEF M, L, G
  <2>1. EmitEgress(n, D, F) =
          [marks   |-> {<<x[1].pod, x[2], MarkOf(x)>> : x \in M},
           devices |-> UnifyLinkAddr6({[key |-> d.key, v6 |-> d.has6 /\ F] : d \in L}),
           gateway |-> {d.key : d \in G},
           ways    |-> {<<MarkOf(x), x[2]>> : x \in M}
                         \cup {<<d.key, 4>> : d \in G}
                         \cup {<<d.key, 6>> : d \in {y \in G : y.has6 /\ F}}]
    BY Zenon DEF EmitEgress, M, L, G
  <2> QED
    BY <1>4, <1>5, <1>6, <1>7, <2>1 DEF HostState
<1>9. Nothing \in HostState
  BY DEF Nothing, HostState
<1>10. /\ {<<x[1].pod, x[2], Blocked>> : x \in B} \subseteq Pods \X Families \X Marks
       /\ {<<Blocked, x[2]>> : x \in B} \subseteq Marks \X Families
  BY <1>1, <1>3
<1>11. KeepState(n, D, F) \in HostState
  <2> HIDE DEF B
  <2>1. KeepState(n, D, F) =
          [Nothing EXCEPT !.marks = {<<x[1].pod, x[2], Blocked>> : x \in B},
                          !.ways = {<<Blocked, x[2]>> : x \in B}]
    BY Zenon DEF KeepState, BlackHole, B
  <2> QED
    BY <1>9, <1>10, <2>1 DEF HostState
<1> QED
  BY <1>8, <1>9, <1>11 DEF D

\* unifyLinkAddr6 leaves one copy of a link, and it has IPv6 when a copy had.
LEMMA UnifyIs ==
  ASSUME NEW C, NEW K, C \subseteq [key : K, v6 : BOOLEAN]
  PROVE  /\ \A u, w \in UnifyLinkAddr6(C) : u.key = w.key => u = w
         /\ \A u \in UnifyLinkAddr6(C) : [key |-> u.key, v6 |-> TRUE] \in C => u.v6
<1>1. ASSUME NEW u \in UnifyLinkAddr6(C)
      PROVE  u = [key |-> u.key, v6 |-> \E x \in C : x.key = u.key /\ x.v6]
  <2>1. PICK c \in C : u = [key |-> c.key, v6 |-> \E x \in C : x.key = c.key /\ x.v6]
    BY Zenon DEF UnifyLinkAddr6
  <2>2. u.key = c.key
    BY <2>1
  <2> QED
    BY <2>1, <2>2, Zenon
<1>2. \A u, w \in UnifyLinkAddr6(C) : u.key = w.key => u = w
  BY <1>1, Zenon
<1>3. ASSUME NEW u \in UnifyLinkAddr6(C), [key |-> u.key, v6 |-> TRUE] \in C
      PROVE  u.v6
  <2>1. u = [key |-> u.key, v6 |-> \E x \in C : x.key = u.key /\ x.v6]
    BY <1>1, Zenon
  <2>2. \E x \in C : x.key = u.key /\ x.v6
    BY <1>3
  <2>3. u = [key |-> u.key, v6 |-> TRUE]
    BY <2>1, <2>2, Zenon
  <2> QED
    BY <2>3
<1> QED
  BY <1>2, <1>3

\* One node's host: a device for a link is the only one of its link, and has
\* IPv6 when IPv6 is routed into the link.
OneDeviceOn(h) ==
  \A d \in h.devices :
    /\ \A x \in h.devices : x.key = d.key => x = d
    /\ <<d.key, 6>> \in h.ways => d.v6

LEMMA EmitOneDevice ==
  ASSUME NEW v \in World, NEW n \in Nodes, NEW F \in BOOLEAN
  PROVE  /\ OneDeviceOn(EmitEgress(n, Decisions(v), F))
         /\ KeepState(n, Decisions(v), F).devices = {}
<1> DEFINE D == Decisions(v)
           M == {x \in Here(n, D, F) : PathOf(x[1], x[2]) \in {"Link", "Blocked"}}
           L == {d \in D : d.linked /\ n \in d.key[2]}
           G == {d \in L : d.gate = n}
           C == {[key |-> d.key, v6 |-> d.has6 /\ F] : d \in L}
           B == {x \in Here(n, D, F) : x[1].closed /\ x[1].path # "Local"}
           h == EmitEgress(n, D, F)
<1>1. KeepState(n, D, F).devices = {}
  <2> HIDE DEF B, D
  <2>1. KeepState(n, D, F) = BlackHole(B)
    BY Zenon DEF KeepState, B
  <2> QED
    BY <2>1 DEF BlackHole, Nothing
<1>2. \A d \in L : d.key \in Keys /\ d.has6 \in BOOLEAN
  BY DecisionType, DecisionShape
<1>3. C \subseteq [key : Keys, v6 : BOOLEAN]
  BY <1>2
<1>4. h.devices = UnifyLinkAddr6(C) /\ h.ways = {<<MarkOf(x), x[2]>> : x \in M}
                                               \cup {<<d.key, 4>> : d \in G}
                                               \cup {<<d.key, 6>> : d \in {y \in G : y.has6 /\ F}}
  <2> HIDE DEF D, M, L, G, C
  <2>1. h = [marks   |-> {<<x[1].pod, x[2], MarkOf(x)>> : x \in M},
             devices |-> UnifyLinkAddr6(C),
             gateway |-> {d.key : d \in G},
             ways    |-> {<<MarkOf(x), x[2]>> : x \in M}
                           \cup {<<d.key, 4>> : d \in G}
                           \cup {<<d.key, 6>> : d \in {y \in G : y.has6 /\ F}}]
    BY Zenon DEF EmitEgress, M, L, G, C
  <2> QED
    BY <2>1
<1>5. ASSUME NEW k \in Keys, <<k, 6>> \in h.ways
      PROVE  [key |-> k, v6 |-> TRUE] \in C
  <2>1. \A d \in L : d.has6 /\ F => [key |-> d.key, v6 |-> TRUE] \in C
    <3> SUFFICES ASSUME NEW d \in L, d.has6, F PROVE [key |-> d.key, v6 |-> TRUE] \in C
      OBVIOUS
    <3>1. [key |-> d.key, v6 |-> d.has6 /\ F] \in C
      BY Zenon
    <3>2. (d.has6 /\ F) = TRUE
      BY <1>2, Zenon
    <3> QED
      BY <3>1, <3>2, Zenon
  <2>2. CASE \E x \in M : <<k, 6>> = <<MarkOf(x), x[2]>>
    <3>1. PICK x \in M : k = MarkOf(x) /\ x[2] = 6
      BY <2>2
    <3>2. x[1] \in D /\ x[1].node = n /\ F /\ x \in Here(n, D, F)
      BY <3>1 DEF Here
    <3>3. x[1].path6 = "Link" /\ k = x[1].key
      BY <3>1, EgressAssumption DEF MarkOf, PathOf
    <3>4. x[1].has6 /\ x[1].linked /\ x[1].key = <<x[1].class, {x[1].gate, x[1].node}>>
      BY <3>2, <3>3, DecisionShape
    <3>5. x[1] \in L
      BY <3>2, <3>4
    <3> QED
      BY <2>1, <3>2, <3>3, <3>4, <3>5
  <2>3. CASE \E d \in {y \in G : y.has6 /\ F} : <<k, 6>> = <<d.key, 6>>
    BY <2>1, <2>3
  <2>4. CASE \E d \in G : <<k, 6>> = <<d.key, 4>>
    BY <2>4
  <2> HIDE DEF D, M, L, G, C, h
  <2> QED
    BY <1>4, <1>5, <2>2, <2>3, <2>4
<1>6. h.devices \subseteq [key : Keys, v6 : BOOLEAN]
  BY EmitType DEF HostState
<1> HIDE DEF D, M, L, G, C, h
<1>7. OneDeviceOn(h)
  <2>1. /\ \A u, w \in UnifyLinkAddr6(C) : u.key = w.key => u = w
        /\ \A u \in UnifyLinkAddr6(C) : [key |-> u.key, v6 |-> TRUE] \in C => u.v6
    BY <1>3, UnifyIs
  <2>2. \A d \in h.devices : d.key \in Keys
    BY <1>6
  <2> QED
    BY <1>4, <1>5, <2>1, <2>2 DEF OneDeviceOn
<1> QED
  BY <1>1, <1>7 DEF D, h

\* The pods a host holds: a mark, and a way for it.
Holds(h, p, f) == \E m \in Marks : <<p, f, m>> \in h.marks /\ <<m, f>> \in h.ways

LEMMA LeavesDirect ==
  ASSUME NEW h, NEW n, NEW p, NEW f
  PROVE  Leaves(h, n, p, f) # "Direct" <=> Holds(h[n], p, f)
<1> DEFINE marks == {m \in Marks : <<p, f, m>> \in h[n].marks /\ <<m, f>> \in h[n].ways}
<1>1. Leaves(h, n, p, f) = "Direct" <=> marks = {}
  BY DEF Leaves
<1> QED
  BY <1>1 DEF Holds

\* The heart of failing closed: whatever Links, rows, Nodes and addresses the
\* view has, a pod under a fail-closed Egress is marked by its node's pass,
\* and by its keep state for the blackhole.
LEMMA SecuredHeld ==
  ASSUME NEW v \in World, NEW n \in Nodes, NEW F \in BOOLEAN, NEW p \in Pods, NEW f \in Families,
         Secured(v, p, f), NodeOf(v, p) = n, f = 6 => F
  PROVE  /\ Holds(EmitEgress(n, Decisions(v), F), p, f)
         /\ <<p, f, Blocked>> \in KeepState(n, Decisions(v), F).marks
         /\ <<Blocked, f>> \in KeepState(n, Decisions(v), F).ways
<1> DEFINE D == Decisions(v)
           M == {x \in Here(n, D, F) : PathOf(x[1], x[2]) \in {"Link", "Blocked"}}
           L == {d \in D : d.linked /\ n \in d.key[2]}
           G == {d \in L : d.gate = n}
           B == {x \in Here(n, D, F) : x[1].closed /\ x[1].path # "Local"}
<1>1. PICK e \in Egresses : /\ Decides(v, e, p)
                            /\ v.egress[e].closed
                            /\ v.class[v.egress[e].class].node # n
  BY DEF Secured
<1>2. f \in v.pod[p].fams
  BY DEF Secured
<1> DEFINE d == EgressPod(v, e, p)
           x == <<d, f>>
<1>3. Gate(v, e) # n
  BY <1>1, EgressAssumption DEF Gate
<1>4. /\ d.pod = p /\ d.node = n /\ d.fams = v.pod[p].fams /\ d.closed = v.egress[e].closed
      /\ d.path \in {"Link", "Blocked"} /\ d.path6 \in {"Link", "Blocked"}
  BY <1>1, <1>3 DEF EgressPod, Path6
<1>5. d \in D
  <2>1. <<e, p>> \in Decided(v)
    BY <1>1 DEF Decided
  <2> QED
    BY <2>1 DEF Decisions
<1> HIDE DEF d, D
<1>6. x \in D \X Families /\ x[1] = d /\ x[2] = f
  BY <1>5
<1>7. x \in Here(n, D, F)
  BY <1>2, <1>4, <1>6 DEF Here
<1>8. x \in M /\ x \in B
  BY <1>1, <1>4, <1>6, <1>7 DEF PathOf
<1>9. MarkOf(x) \in Marks
  <2>1. d.path = "Link" \/ d.path6 = "Link" => d.key \in Keys
    BY <1>5, DecisionShape, DecisionType DEF D
  <2> QED
    BY <1>6, <2>1 DEF MarkOf, PathOf, Marks
<1> HIDE DEF x
<1>10. /\ EmitEgress(n, D, F).marks = {<<y[1].pod, y[2], MarkOf(y)>> : y \in M}
       /\ {<<MarkOf(y), y[2]>> : y \in M} \subseteq EmitEgress(n, D, F).ways
  <2> HIDE DEF M, L, G
  <2>1. EmitEgress(n, D, F) =
          [marks   |-> {<<y[1].pod, y[2], MarkOf(y)>> : y \in M},
           devices |-> UnifyLinkAddr6({[key |-> y.key, v6 |-> y.has6 /\ F] : y \in L}),
           gateway |-> {y.key : y \in G},
           ways    |-> {<<MarkOf(y), y[2]>> : y \in M}
                         \cup {<<y.key, 4>> : y \in G}
                         \cup {<<y.key, 6>> : y \in {z \in G : z.has6 /\ F}}]
    BY Zenon DEF EmitEgress, M, L, G
  <2> QED
    BY <2>1
<1>11. /\ KeepState(n, D, F).marks = {<<y[1].pod, y[2], Blocked>> : y \in B}
       /\ KeepState(n, D, F).ways = {<<Blocked, y[2]>> : y \in B}
  <2> HIDE DEF B
  <2>1. KeepState(n, D, F) = BlackHole(B)
    BY Zenon DEF KeepState, B
  <2> QED
    BY <2>1 DEF BlackHole, Nothing
<1> HIDE DEF M, B
<1>12. <<p, f, MarkOf(x)>> \in EmitEgress(n, D, F).marks /\ <<MarkOf(x), f>> \in EmitEgress(n, D, F).ways
  <2>1. <<x[1].pod, x[2], MarkOf(x)>> \in EmitEgress(n, D, F).marks
    BY <1>8, <1>10
  <2>2. <<MarkOf(x), x[2]>> \in EmitEgress(n, D, F).ways
    BY <1>8, <1>10
  <2> QED
    BY <1>4, <1>6, <2>1, <2>2
<1>13. <<p, f, Blocked>> \in KeepState(n, D, F).marks /\ <<Blocked, f>> \in KeepState(n, D, F).ways
  <2>1. <<x[1].pod, x[2], Blocked>> \in KeepState(n, D, F).marks
    BY <1>8, <1>11
  <2>2. <<Blocked, x[2]>> \in KeepState(n, D, F).ways
    BY <1>8, <1>11
  <2> QED
    BY <1>4, <1>6, <2>1, <2>2
<1> QED
  BY <1>9, <1>12, <1>13 DEF Holds, D

\* What an Egress decides depends on the Egresses, on the pod, and of the
\* classes on no more than where they are and whom they select.
SameClasses(v, w) ==
  \A c \in Classes :
    /\ v.class[c] = Absent <=> w.class[c] = Absent
    /\ v.class[c] # Absent => /\ v.class[c].open = w.class[c].open
                              /\ v.class[c].node = w.class[c].node

LEMMA SecuredSame ==
  ASSUME NEW v \in World, NEW w \in World, NEW p \in Pods, NEW f,
         v.egress = w.egress, v.pod[p] = w.pod[p], SameClasses(v, w), Secured(w, p, f)
  PROVE  Secured(v, p, f)
<1>1. \A e \in Egresses : v.egress[e] # Absent => v.egress[e].class \in Classes
  BY DEF World, EgressObject
<1>2. \A e \in Egresses : Contends(v, e, p) <=> Contends(w, e, p)
  BY <1>1 DEF Contends, Ok, SelectedPods, SameClasses
<1>3. \A d, e \in Egresses : Earlier(v, d, e) <=> Earlier(w, d, e)
  BY DEF Earlier
<1>4. \A e \in Egresses : Decides(v, e, p) <=> Decides(w, e, p)
  BY <1>2, <1>3 DEF Decides
<1>5. PICK e \in Egresses : /\ Decides(w, e, p) /\ w.egress[e].closed
                            /\ w.class[w.egress[e].class].node # NodeOf(w, p)
  BY DEF Secured
<1>6. v.class[v.egress[e].class].node = w.class[w.egress[e].class].node
  BY <1>1, <1>5 DEF Decides, Contends, Ok, SameClasses
<1> QED
  BY <1>4, <1>5, <1>6 DEF Secured, NodeOf

-----------------------------------------------------------------------------
(* What a node writes to the API server.                                   *)

LEMMA StatusType ==
  ASSUME NEW v \in World, NEW e \in Egresses, TypeOK
  PROVE  EgressStatus(v, Decisions(v), e) \in Status
<1> DEFINE D == Decisions(v)
           Y == {y \in D \X Families : y[1].eg = e /\ y[2] \in {4} \cup y[1].fams}
           P == {<<x[1].pod, x[2], PathOf(x[1], x[2])>> : x \in Y}
           g == IF Ok(v, e) THEN Gate(v, e) ELSE NoNode
           a == Ok(v, e)
           r == IF Ok(v, e) THEN Programmed(v, D, e)
                ELSE IF status[e] = Absent THEN "unset" ELSE status[e].programmed
<1>1. g \in Nodes \cup {NoNode}
  <2>1. CASE Ok(v, e)
    <3>1. v.egress[e] \in EgressObject
      BY <2>1 DEF Ok, World
    <3>2. v.egress[e].class \in Classes
      BY <3>1 DEF EgressObject
    <3>3. v.class[v.egress[e].class] \in ClassObject
      BY <2>1, <3>2 DEF Ok, World
    <3>4. v.class[v.egress[e].class].node \in Nodes
      BY <3>3 DEF ClassObject
    <3> QED
      BY <3>4 DEF Gate
  <2> QED
    BY <2>1
<1>2. P \subseteq Pods \X Families \X Paths
  <2>1. \A d \in D : d.pod \in Pods /\ d.path \in Paths /\ d.path6 \in Paths
    BY DecisionType
  <2> HIDE DEF D
  <2> QED
    BY <2>1 DEF PathOf
<1>3. a \in BOOLEAN /\ r \in Reasons \cup {"unset"}
  <2>1. Programmed(v, D, e) \in Reasons
    <3> HIDE DEF D
    <3> QED
      BY DEF Programmed, Reasons
  <2>2. status[e] # Absent => status[e].programmed \in Reasons \cup {"unset"}
    BY DEF TypeOK, Status
  <2>3. a \in BOOLEAN
    BY DEF Ok
  <2> HIDE DEF D
  <2> QED
    BY <2>1, <2>2, <2>3
<1>4. EgressStatus(v, D, e) = [node |-> g, paths |-> P, accepted |-> a, programmed |-> r]
  <2> HIDE DEF D
  <2> QED
    BY Zenon DEF EgressStatus
<1> HIDE DEF D, P, g, a, r
<1> QED
  BY <1>1, <1>2, <1>3, <1>4 DEF Status, D

\* A row is all that a node writes into a class.
LEMMA ClassWrite ==
  ASSUME NEW v \in World, NEW n \in Nodes, NEW c \in Classes, TypeOK
  PROVE  /\ WriteEgressClass(n, v, Decisions(v), c) \in ClassObject \cup {Absent}
         /\ WriteEgressClass(n, v, Decisions(v), c) = Absent <=> world.class[c] = Absent
         /\ world.class[c] # Absent =>
              /\ WriteEgressClass(n, v, Decisions(v), c).open = world.class[c].open
              /\ WriteEgressClass(n, v, Decisions(v), c).node = world.class[c].node
<1> DEFINE D == Decisions(v)
           o == world.class[c]
           row == IF six[n] = "full" THEN "v6" ELSE "v4"
           full == Exhausted(v, D, c)
<1>1. o \in ClassObject \cup {Absent}
  BY DEF TypeOK, World
<1>2. full \in BOOLEAN /\ row \in {"none", "v4", "v6"}
  <2> HIDE DEF D
  <2>1. full \in BOOLEAN
    BY DEF Exhausted
  <2> QED
    BY <2>1
<1>3. \/ WriteEgressClass(n, v, D, c) = o
      \/ /\ o # Absent
         /\ WriteEgressClass(n, v, D, c) = [o EXCEPT !.rows[n] = row, !.full = full]
  <2> HIDE DEF D
  <2> QED
    BY DEF WriteEgressClass
<1> HIDE DEF D, row, full, o
<1>4. CASE /\ o # Absent
           /\ WriteEgressClass(n, v, D, c) = [o EXCEPT !.rows[n] = row, !.full = full]
  <2>1. o \in ClassObject
    BY <1>1, <1>4
  <2>2. /\ [o EXCEPT !.rows[n] = row, !.full = full] \in ClassObject
        /\ [o EXCEPT !.rows[n] = row, !.full = full].open = o.open
        /\ [o EXCEPT !.rows[n] = row, !.full = full].node = o.node
    BY <1>2, <2>1 DEF ClassObject
  <2> QED
    BY <1>4, <2>2, EgressAssumption DEF D, o
<1> QED
  BY <1>1, <1>3, <1>4 DEF D, o

-----------------------------------------------------------------------------
(* The invariant.                                                          *)

\* What hosts and keep states hold, whoever they were computed from.
Devices ==
  \A n \in Nodes : OneDeviceOn(host[n]) /\ (keep[n] # Absent => keep[n].devices = {})

\* The ghost misses no pod that is not secured now.
Current == Lapsed(world, six) \subseteq lapsed

\* While no pod and no class was edited, every view, however its kinds are
\* out of step, secures the pods that were secured at all times: the classes
\* and these pods are in it as they are, and its Egresses are those of a time
\* when one of them secured the pod.  So does what a shutdown would apply.
Seen ==
  ~moved =>
    \A a \in Nodes :
      /\ SameClasses(view[a], world)
      /\ \A p \in Pods, f \in Families : <<p, f>> \notin lapsed =>
           /\ view[a].pod[p] = world.pod[p]
           /\ Secured(view[a], p, f)
           /\ keep[a] # Absent /\ NodeOf(world, p) = a =>
                <<p, f, Blocked>> \in keep[a].marks /\ <<Blocked, f>> \in keep[a].ways

\* The inductive invariant.
Inv == TypeOK /\ Devices /\ Current /\ Seen

\* A pod that has not lapsed is secured now, and its host handles the family.
LEMMA CurrentMeans ==
  ASSUME Inv, NEW p \in Pods, NEW f \in Families, <<p, f>> \notin lapsed
  PROVE  /\ Secured(world, p, f) /\ (f = 6 => six[NodeOf(world, p)] # "none")
         /\ world.pod[p] \in PodObject /\ world.pod[p] # Absent /\ NodeOf(world, p) \in Nodes
<1>1. <<p, f>> \notin Lapsed(world, six) /\ world \in World
  BY DEF Inv, Current, TypeOK
<1>2. Secured(world, p, f) /\ (f = 6 => six[NodeOf(world, p)] # "none")
  BY <1>1 DEF Lapsed
<1>3. world.pod[p] # Absent
  BY <1>2 DEF Secured, Decides, Contends, SelectedPods
<1>4. world.pod[p] \in PodObject
  BY <1>1, <1>3 DEF World
<1> QED
  BY <1>2, <1>3, <1>4 DEF NodeOf, PodObject

LEMMA InvInit ==
  ASSUME NEW worlds \in SUBSET World, NEW fw \in [Nodes -> Forwards], StartIn(worlds, fw)
  PROVE  Inv
<1> USE DEF StartIn
<1>1. world \in World /\ Lapsed(world, six) \subseteq Pods \X Families
  BY DEF Lapsed
<1>2. TypeOK
  <2>1. 0 \in 0 .. MaxChanges /\ 0 \in 0 .. MaxFaults
    BY EgressAssumption
  <2>2. host \in [Nodes -> HostState] /\ keep \in [Nodes -> HostState \cup {Absent}]
    BY DEF Nothing, HostState
  <2> QED
    BY <1>1, <2>1, <2>2 DEF TypeOK, Forwards
<1>3. Devices
  BY DEF Devices, OneDeviceOn, Nothing
<1>4. Current
  BY DEF Current
<1>5. Seen
  <2> SUFFICES ASSUME NEW a \in Nodes
               PROVE  /\ SameClasses(world, world)
                      /\ \A p \in Pods, f \in Families : <<p, f>> \notin lapsed => Secured(world, p, f)
    BY DEF Seen
  <2>1. SameClasses(world, world)
    BY DEF SameClasses
  <2>2. \A p \in Pods, f \in Families : <<p, f>> \notin lapsed => Secured(world, p, f)
    BY DEF Lapsed
  <2> QED
    BY <2>1, <2>2
<1> QED
  BY <1>2, <1>3, <1>4, <1>5 DEF Inv

\* A change of the world, of whatever kind.
LEMMA ChangeKeeps ==
  ASSUME Inv, NEW w \in World, NEW fw \in [Nodes -> Forwards], Change(w, fw),
         status' \in [Egresses -> Status \cup {Absent}]
  PROVE  Inv'
<1> USE DEF Change
<1>1. Lapsed(w, fw) \subseteq Pods \X Families
  BY DEF Lapsed
<1>2. TypeOK'
  <2>1. changes' \in 0 .. MaxChanges
    BY EgressAssumption DEF Inv, TypeOK
  <2>2. moved' \in BOOLEAN
    BY DEF Inv, TypeOK
  <2> QED
    BY <1>1, <2>1, <2>2 DEF Inv, TypeOK, Forwards
<1>3. Devices'
  BY DEF Inv, Devices
<1>4. Current'
  BY DEF Current
<1>5. Seen'
  <2> SUFFICES ASSUME ~moved', NEW a \in Nodes
               PROVE  /\ SameClasses(view[a], w)
                      /\ \A p \in Pods, f \in Families : <<p, f>> \notin lapsed' =>
                           /\ view[a].pod[p] = w.pod[p]
                           /\ Secured(view[a], p, f)
                           /\ keep[a] # Absent /\ NodeOf(w, p) = a =>
                                <<p, f, Blocked>> \in keep[a].marks /\ <<Blocked, f>> \in keep[a].ways
    BY DEF Seen
  <2>1. /\ ~moved /\ w.class = world.class
        /\ \A p \in Pods : world.pod[p] # Absent => w.pod[p] = world.pod[p]
    OBVIOUS
  <2>2. SameClasses(view[a], w)
    BY <2>1 DEF Inv, Seen, SameClasses
  <2>3. ASSUME NEW p \in Pods, NEW f \in Families, <<p, f>> \notin lapsed'
        PROVE  /\ view[a].pod[p] = w.pod[p]
               /\ Secured(view[a], p, f)
               /\ keep[a] # Absent /\ NodeOf(w, p) = a =>
                    <<p, f, Blocked>> \in keep[a].marks /\ <<Blocked, f>> \in keep[a].ways
    <3>1. <<p, f>> \notin lapsed
      BY <2>3
    <3>2. w.pod[p] = world.pod[p]
      BY <2>1, <3>1, CurrentMeans
    <3> QED
      BY <2>1, <3>1, <3>2 DEF Inv, Seen, NodeOf
  <2> QED
    BY <2>2, <2>3
<1> QED
  BY <1>2, <1>3, <1>4, <1>5 DEF Inv

LEMMA OthersKeep ==
  ASSUME Inv, Others
  PROVE  Inv'
<1> USE DEF Inv
<1>1. six \in [Nodes -> Forwards] /\ world \in World
  BY DEF TypeOK, Forwards
<1>2. ASSUME NEW e \in Egresses, EgressChanges(e)
      PROVE  Inv'
  <2>1. PICK x \in EgressObject \cup {Absent} :
          /\ Change([world EXCEPT !.egress[e] = x], six)
          /\ status' = IF x = Absent THEN [status EXCEPT ![e] = Absent] ELSE status
    BY <1>2 DEF EgressChanges
  <2>2. [world EXCEPT !.egress[e] = x] \in World
    BY <1>1 DEF World
  <2>3. status' \in [Egresses -> Status \cup {Absent}]
    BY <2>1 DEF TypeOK
  <2> QED
    BY <1>1, <2>1, <2>2, <2>3, ChangeKeeps
<1>3. UNCHANGED status => status' \in [Egresses -> Status \cup {Absent}]
  BY DEF TypeOK
<1>4. ASSUME NEW p \in Pods, PodChanges(p)
      PROVE  Inv'
  <2>1. PICK x \in PodObject \cup {Absent} : Change([world EXCEPT !.pod[p] = x], six)
    BY <1>4 DEF PodChanges
  <2>2. [world EXCEPT !.pod[p] = x] \in World
    BY <1>1 DEF World
  <2> QED
    BY <1>1, <1>3, <1>4, <2>1, <2>2, ChangeKeeps DEF PodChanges
<1>5. ASSUME NEW p \in Pods, Relabel(p)
      PROVE  Inv'
  <2>1. PICK L \in SUBSET Labels : Change([world EXCEPT !.pod[p].labels = L], six)
    BY <1>5 DEF Relabel
  <2>2. world.pod[p] \in PodObject
    BY <1>1, <1>5 DEF Relabel, World
  <2>3. [world.pod[p] EXCEPT !.labels = L] \in PodObject
    BY <2>2 DEF PodObject
  <2>4. [world EXCEPT !.pod[p] = [world.pod[p] EXCEPT !.labels = L]] \in World
    BY <1>1, <2>3 DEF World
  <2>5. [world EXCEPT !.pod[p].labels = L] = [world EXCEPT !.pod[p] = [world.pod[p] EXCEPT !.labels = L]]
    BY <1>1 DEF World
  <2> QED
    BY <1>1, <1>3, <1>5, <2>1, <2>4, <2>5, ChangeKeeps DEF Relabel
<1>6. ASSUME NEW n \in Nodes, NodeChanges(n)
      PROVE  Inv'
  <2>1. PICK x \in NodeObject \cup {Absent} : Change([world EXCEPT !.node[n] = x], six)
    BY <1>6 DEF NodeChanges
  <2>2. [world EXCEPT !.node[n] = x] \in World
    BY <1>1 DEF World
  <2> QED
    BY <1>1, <1>3, <1>6, <2>1, <2>2, ChangeKeeps DEF NodeChanges
<1>7. ASSUME NEW n \in Nodes, HostChanges(n)
      PROVE  Inv'
  <2>1. PICK x \in {"none", "narrow", "full"} : Change(world, [six EXCEPT ![n] = x])
    BY <1>7 DEF HostChanges
  <2>2. [six EXCEPT ![n] = x] \in [Nodes -> Forwards]
    BY <1>1 DEF Forwards
  <2> QED
    BY <1>1, <1>3, <1>7, <2>1, <2>2, ChangeKeeps DEF HostChanges
<1>8. ASSUME NEW c \in Classes, ClassChanges(c)
      PROVE  Inv'
  <2>1. \A x \in ClassObject \cup {Absent} : [world EXCEPT !.class[c] = x] \in World
    BY <1>1 DEF World
  <2>2. \A x \in ClassObject \cup {Absent} : Change([world EXCEPT !.class[c] = x], six) => Inv'
    BY <1>1, <1>3, <1>8, <2>1, ChangeKeeps DEF ClassChanges
  <2>3. CASE \E n \in Nodes, o \in BOOLEAN :
               Change([world EXCEPT !.class[c] = [node |-> n, open |-> o, full |-> FALSE,
                                                  rows |-> [m \in Nodes |-> "none"]]], six)
    <3>1. PICK n \in Nodes, o \in BOOLEAN :
            Change([world EXCEPT !.class[c] = [node |-> n, open |-> o, full |-> FALSE,
                                               rows |-> [m \in Nodes |-> "none"]]], six)
      BY <2>3
    <3> DEFINE x == [node |-> n, open |-> o, full |-> FALSE, rows |-> [m \in Nodes |-> "none"]]
    <3>2. x \in ClassObject
      BY DEF ClassObject
    <3> HIDE DEF x
    <3> QED
      BY <2>2, <3>1, <3>2 DEF x
  <2>4. CASE Change([world EXCEPT !.class[c] = Absent], six)
    BY <2>2, <2>4
  <2>5. CASE /\ world.class[c] # Absent
             /\ \E n \in Nodes, o \in BOOLEAN :
                  Change([world EXCEPT !.class[c].node = n, !.class[c].open = o], six)
    <3>1. PICK n \in Nodes, o \in BOOLEAN :
            Change([world EXCEPT !.class[c].node = n, !.class[c].open = o], six)
      BY <2>5
    <3>2. world.class[c] \in ClassObject
      BY <1>1, <2>5 DEF World
    <3> DEFINE x == [world.class[c] EXCEPT !.node = n, !.open = o]
    <3>3. x \in ClassObject
      BY <3>2 DEF ClassObject
    <3>4. [world EXCEPT !.class[c].node = n, !.class[c].open = o] = [world EXCEPT !.class[c] = x]
      BY <1>1 DEF World
    <3> HIDE DEF x
    <3> QED
      BY <2>2, <3>1, <3>3, <3>4
  <2> QED
    BY <1>8, <2>3, <2>4, <2>5 DEF ClassChanges
<1> QED
  BY <1>2, <1>4, <1>5, <1>6, <1>7, <1>8 DEF Others

\* A Link lands or is released, or a pass writes rows: nothing that secures a
\* pod is touched.
LEMMA WorldKeeps ==
  ASSUME Inv, world' \in World, world'.egress = world.egress, world'.pod = world.pod,
         SameClasses(world', world), UNCHANGED <<six, lapsed, moved, view>>
  PROVE  /\ Current'
         /\ ~moved => \A a \in Nodes :
              /\ SameClasses(view[a], world)'
              /\ \A p \in Pods, f \in Families : <<p, f>> \notin lapsed =>
                   (view[a].pod[p] = world.pod[p])' /\ Secured(view[a], p, f)'
<1> USE DEF Inv
<1>1. \A p \in Pods, f \in Families : Secured(world, p, f) => Secured(world', p, f)
  BY SecuredSame DEF TypeOK
<1>2. \A p \in Pods : NodeOf(world', p) = NodeOf(world, p)
  BY DEF NodeOf
<1>3. Lapsed(world', six) \subseteq Lapsed(world, six)
  BY <1>1, <1>2 DEF Lapsed
<1>4. Current'
  BY <1>3 DEF Current
<1>5. \A a \in Nodes : SameClasses(view[a], world) => SameClasses(view[a], world')
  BY DEF SameClasses
<1> QED
  BY <1>4, <1>5 DEF Seen

LEMMA PoolKeeps ==
  ASSUME Inv, NEW k \in Keys, LinkLands(k) \/ LinkReleased(k)
  PROVE  Inv'
<1> USE DEF LinkLands, LinkReleased
<1>1. /\ world' \in World /\ world'.egress = world.egress /\ world'.pod = world.pod
      /\ world'.class = world.class
  BY DEF Inv, TypeOK, World
<1>2. SameClasses(world', world)
  BY <1>1 DEF SameClasses
<1>3. TypeOK'
  BY <1>1 DEF Inv, TypeOK
<1>4. Devices'
  BY DEF Inv, Devices
<1>5. /\ Current'
      /\ ~moved => \A a \in Nodes :
           /\ SameClasses(view[a], world)'
           /\ \A p \in Pods, f \in Families : <<p, f>> \notin lapsed =>
                (view[a].pod[p] = world.pod[p])' /\ Secured(view[a], p, f)'
  BY <1>1, <1>2, WorldKeeps
<1>6. \A p \in Pods : NodeOf(world', p) = NodeOf(world, p)
  BY <1>1 DEF NodeOf
<1>7. Seen'
  BY <1>5, <1>6 DEF Inv, Seen
<1> QED
  BY <1>3, <1>4, <1>5, <1>7 DEF Inv

\* A watch delivers one kind.
LEMMA WatchKeeps ==
  ASSUME Inv, NEW a \in Nodes, NEW kind \in Kinds, See(a, kind)
  PROVE  Inv'
<1> USE DEF See
<1>1. world \in World /\ view[a] \in World
  BY DEF Inv, TypeOK
<1> DEFINE u == [view[a] EXCEPT ![kind] = world[kind]]
<1>2. view' = [view EXCEPT ![a] = u]
  OBVIOUS
<1>3. /\ u \in World
      /\ u.egress \in {view[a].egress, world.egress}
      /\ u.pod \in {view[a].pod, world.pod}
      /\ u.class \in {view[a].class, world.class}
  BY <1>1 DEF Kinds, World
<1> HIDE DEF u
<1>4. view' \in [Nodes -> World] /\ view'[a] = u /\ \A b \in Nodes \ {a} : view'[b] = view[b]
  BY <1>2, <1>3 DEF Inv, TypeOK
<1>5. TypeOK'
  BY <1>4 DEF Inv, TypeOK
<1>6. Devices' /\ Current'
  BY DEF Inv, Devices, Current
<1>7. Seen'
  <2> SUFFICES ASSUME ~moved
               PROVE  /\ SameClasses(u, world)
                      /\ \A p \in Pods, f \in Families : <<p, f>> \notin lapsed =>
                           u.pod[p] = world.pod[p] /\ Secured(u, p, f)
    BY <1>4 DEF Inv, Seen
  <2>1. SameClasses(view[a], world)
    BY DEF Inv, Seen
  <2>2. SameClasses(u, world) /\ SameClasses(u, view[a])
    BY <1>3, <2>1 DEF SameClasses
  <2>3. ASSUME NEW p \in Pods, NEW f \in Families, <<p, f>> \notin lapsed
        PROVE  u.pod[p] = world.pod[p] /\ Secured(u, p, f)
    <3>1. view[a].pod[p] = world.pod[p] /\ Secured(view[a], p, f)
      BY <2>3 DEF Inv, Seen
    <3>2. u.pod[p] = world.pod[p] /\ u.pod[p] = view[a].pod[p]
      BY <1>3, <3>1
    <3>3. Secured(world, p, f)
      BY <2>3, CurrentMeans
    <3> QED
      BY <1>1, <1>3, <2>2, <3>1, <3>2, <3>3, SecuredSame
  <2> QED
    BY <2>2, <2>3
<1> QED
  BY <1>5, <1>6, <1>7 DEF Inv

\* What a pass stores as the keep state holds every secured pod of the node.
LEMMA KeepHolds ==
  ASSUME Inv, ~moved, NEW a \in Nodes, NEW p \in Pods, NEW f \in Families,
         <<p, f>> \notin lapsed, NodeOf(world, p) = a
  PROVE  /\ Holds(EmitEgress(a, Decisions(view[a]), six[a] # "none"), p, f)
         /\ <<p, f, Blocked>> \in KeepState(a, Decisions(view[a]), six[a] # "none").marks
         /\ <<Blocked, f>> \in KeepState(a, Decisions(view[a]), six[a] # "none").ways
<1>1. view[a] \in World /\ (six[a] # "none") \in BOOLEAN
  BY DEF Inv, TypeOK
<1>2. view[a].pod[p] = world.pod[p] /\ Secured(view[a], p, f)
  BY DEF Inv, Seen
<1>3. NodeOf(view[a], p) = a
  BY <1>2 DEF NodeOf
<1>4. f = 6 => six[a] # "none"
  BY CurrentMeans
<1> QED
  BY <1>1, <1>2, <1>3, <1>4, SecuredHeld

LEMMA PassKeeps ==
  ASSUME Inv, NEW a \in Nodes, Pass(a)
  PROVE  Inv'
<1> DEFINE D == Decisions(view[a])
           F == six[a] # "none"
<1>1. /\ keep' = [keep EXCEPT ![a] = KeepState(a, D, F)]
      /\ host' = [host EXCEPT ![a] = EmitEgress(a, D, F)]
      /\ world' = [world EXCEPT !.class = [c \in Classes |-> WriteEgressClass(a, view[a], D, c)]]
      /\ status' = [e \in Egresses |-> WriteEgress(a, view[a], D, e)]
      /\ UNCHANGED <<view, six, lapsed, moved, changes, faults>>
  BY DEF Pass
<1>2. view[a] \in World /\ F \in BOOLEAN
  BY DEF Inv, TypeOK
<1>3. /\ EmitEgress(a, D, F) \in HostState /\ KeepState(a, D, F) \in HostState
      /\ OneDeviceOn(EmitEgress(a, D, F)) /\ KeepState(a, D, F).devices = {}
  BY <1>2, EmitType, EmitOneDevice
<1>4. \A c \in Classes :
        /\ WriteEgressClass(a, view[a], D, c) \in ClassObject \cup {Absent}
        /\ WriteEgressClass(a, view[a], D, c) = Absent <=> world.class[c] = Absent
        /\ world.class[c] # Absent =>
             /\ WriteEgressClass(a, view[a], D, c).open = world.class[c].open
             /\ WriteEgressClass(a, view[a], D, c).node = world.class[c].node
  BY <1>2, ClassWrite DEF Inv
<1>5. \A e \in Egresses : WriteEgress(a, view[a], D, e) \in Status \cup {Absent}
  BY <1>2, StatusType DEF WriteEgress, Inv, TypeOK
<1>k. ASSUME ~moved, NEW p \in Pods, NEW f \in Families, <<p, f>> \notin lapsed,
             NodeOf(world, p) = a
      PROVE  <<p, f, Blocked>> \in KeepState(a, D, F).marks /\ <<Blocked, f>> \in KeepState(a, D, F).ways
  BY <1>k, KeepHolds
<1> HIDE DEF D, F
<1>6. /\ world' \in World /\ world'.egress = world.egress /\ world'.pod = world.pod
      /\ \A c \in Classes : world'.class[c] = WriteEgressClass(a, view[a], D, c)
  BY <1>1, <1>4 DEF Inv, TypeOK, World
<1>7. SameClasses(world', world)
  BY <1>4, <1>6 DEF SameClasses
<1>8. TypeOK'
  BY <1>1, <1>3, <1>5, <1>6 DEF Inv, TypeOK
<1>9. /\ keep'[a] = KeepState(a, D, F) /\ host'[a] = EmitEgress(a, D, F)
      /\ \A b \in Nodes \ {a} : keep'[b] = keep[b] /\ host'[b] = host[b]
  BY <1>1 DEF Inv, TypeOK
<1>10. Devices'
  BY <1>3, <1>9 DEF Inv, Devices
<1>11. /\ Current'
       /\ ~moved => \A b \in Nodes :
            /\ SameClasses(view[b], world)'
            /\ \A p \in Pods, f \in Families : <<p, f>> \notin lapsed =>
                 (view[b].pod[p] = world.pod[p])' /\ Secured(view[b], p, f)'
  BY <1>1, <1>6, <1>7, WorldKeeps
<1>12. \A p \in Pods : NodeOf(world', p) = NodeOf(world, p)
  BY <1>6 DEF NodeOf
<1>13. ASSUME ~moved, NEW b \in Nodes, NEW p \in Pods, NEW f \in Families, <<p, f>> \notin lapsed,
              keep'[b] # Absent, NodeOf(world, p) = b
       PROVE  <<p, f, Blocked>> \in keep'[b].marks /\ <<Blocked, f>> \in keep'[b].ways
  BY <1>k, <1>9, <1>13 DEF Inv, Seen
<1>14. Seen'
  BY <1>1, <1>11, <1>12, <1>13 DEF Seen
<1> QED
  BY <1>8, <1>10, <1>11, <1>14 DEF Inv

LEMMA FaultKeeps ==
  ASSUME Inv, NEW a \in Nodes, ApplyFails(a) \/ Crash(a) \/ Shutdown(a)
  PROVE  Inv'
<1>1. Fault => faults' \in 0 .. MaxFaults
  BY EgressAssumption DEF Fault, Inv, TypeOK
<1>2. CASE ApplyFails(a)
  <2> DEFINE K == KeepState(a, Decisions(view[a]), six[a] # "none")
  <2>1. view[a] \in World /\ (six[a] # "none") \in BOOLEAN
    BY DEF Inv, TypeOK
  <2>2. K \in HostState /\ K.devices = {}
    BY <2>1, EmitType, EmitOneDevice
  <2>3. ASSUME ~moved, NEW p \in Pods, NEW f \in Families, <<p, f>> \notin lapsed, NodeOf(world, p) = a
        PROVE  <<p, f, Blocked>> \in K.marks /\ <<Blocked, f>> \in K.ways
    BY <2>3, KeepHolds
  <2>4. /\ faults' \in 0 .. MaxFaults /\ keep' = [keep EXCEPT ![a] = K]
        /\ UNCHANGED <<world, status, view, six, host, lapsed, moved, changes>>
    BY <1>1, <1>2 DEF ApplyFails
  <2> HIDE DEF K
  <2>5. TypeOK'
    BY <2>2, <2>4 DEF Inv, TypeOK
  <2>6. keep'[a] = K /\ \A b \in Nodes \ {a} : keep'[b] = keep[b]
    BY <2>4 DEF Inv, TypeOK
  <2>7. Devices' /\ Current'
    BY <2>2, <2>4, <2>6 DEF Inv, Devices, Current
  <2>8. Seen'
    BY <2>3, <2>4, <2>6 DEF Inv, Seen
  <2> QED
    BY <2>5, <2>7, <2>8 DEF Inv
<1>3. CASE Crash(a) \/ Shutdown(a)
  <2> DEFINE K == IF keep[a] = Absent THEN Nothing ELSE keep[a]
  <2>1. K \in HostState /\ K.devices = {}
    BY EmitType DEF Inv, TypeOK, Devices, Nothing, HostState
  <2>2. /\ faults' \in 0 .. MaxFaults
        /\ keep' = [keep EXCEPT ![a] = Absent] /\ view' = [view EXCEPT ![a] = world]
        /\ host' = host \/ host' = [host EXCEPT ![a] = K]
        /\ lapsed \subseteq lapsed' /\ lapsed' \subseteq Pods \X Families
        /\ UNCHANGED <<world, status, six, moved, changes>>
    BY <1>1, <1>3 DEF Crash, Shutdown, Inv, TypeOK
  <2> HIDE DEF K
  <2>3. TypeOK'
    BY <2>1, <2>2 DEF Inv, TypeOK
  <2>4. /\ keep'[a] = Absent /\ view'[a] = world
        /\ \A b \in Nodes \ {a} : keep'[b] = keep[b] /\ view'[b] = view[b] /\ host'[b] = host[b]
        /\ host'[a] = host[a] \/ host'[a] = K
    BY <2>2 DEF Inv, TypeOK
  <2>5. Devices'
    BY <2>1, <2>4 DEF Inv, Devices, OneDeviceOn
  <2>6. Current'
    BY <2>2 DEF Inv, Current
  <2>7. Seen'
    <3> SUFFICES ASSUME ~moved, NEW b \in Nodes
                 PROVE  /\ SameClasses(view'[b], world)
                        /\ \A p \in Pods, f \in Families : <<p, f>> \notin lapsed' =>
                             /\ view'[b].pod[p] = world.pod[p]
                             /\ Secured(view'[b], p, f)
                             /\ keep'[b] # Absent /\ NodeOf(world, p) = b =>
                                  <<p, f, Blocked>> \in keep'[b].marks /\ <<Blocked, f>> \in keep'[b].ways
      BY <2>2 DEF Seen
    <3>1. CASE b = a
      <4>1. SameClasses(world, world)
        BY DEF SameClasses
      <4>2. \A p \in Pods, f \in Families : <<p, f>> \notin lapsed => Secured(world, p, f)
        BY CurrentMeans
      <4> QED
        BY <2>2, <2>4, <3>1, <4>1, <4>2
    <3>2. CASE b # a
      BY <2>2, <2>4, <3>2 DEF Inv, Seen
    <3> QED
      BY <3>1, <3>2
  <2> QED
    BY <2>3, <2>5, <2>6, <2>7 DEF Inv
<1> QED
  BY <1>2, <1>3

LEMMA InvAlways ==
  ASSUME NEW worlds \in SUBSET World, NEW fw \in [Nodes -> Forwards]
  PROVE  SpecFrom(worlds, fw) => []Inv
<1>1. StartIn(worlds, fw) => Inv
  BY InvInit
<1>2. Inv /\ [Next]_vars => Inv'
  <2>1. ASSUME Inv, Next
        PROVE  Inv'
    BY <2>1, OthersKeep, PoolKeeps, WatchKeeps, PassKeeps, FaultKeeps DEF Next, Pool, Watch
  <2>2. ASSUME Inv, UNCHANGED vars
        PROVE  Inv'
    BY <2>2 DEF Inv, TypeOK, Devices, Current, Seen, vars
  <2> QED
    BY <2>1, <2>2
<1> QED
  BY <1>1, <1>2, PTL DEF SpecFrom

-----------------------------------------------------------------------------
(* The theorems.                                                           *)

\* Every state has its type: whatever a pass emits names links of the host's
\* classes and nodes only, and every status has its node, paths and conditions.
THEOREM EgressTypeCorrect ==
  ASSUME NEW worlds \in SUBSET World, NEW fw \in [Nodes -> Forwards]
  PROVE  SpecFrom(worlds, fw) => []TypeOK
BY InvAlways, PTL DEF Inv

\* One device per link on a host, and IPv6 on it when IPv6 goes into it.
THEOREM EgressOneDevice ==
  ASSUME NEW worlds \in SUBSET World, NEW fw \in [Nodes -> Forwards]
  PROVE  SpecFrom(worlds, fw) => []OneDevice
<1>1. Inv => OneDevice
  BY DEF Inv, Devices, OneDeviceOn, OneDevice
<1> QED
  BY <1>1, InvAlways, PTL

\* The ghosts only grow, and a host is written by its own agent alone.
LEMMA StepShape ==
  ASSUME Inv, Next
  PROVE  /\ moved => moved'
         /\ lapsed \subseteq lapsed'
         /\ UNCHANGED host \/ \E a \in Nodes : Pass(a) \/ Shutdown(a)
<1>1. ASSUME NEW w, NEW fw, Change(w, fw)
      PROVE  (moved => moved') /\ lapsed \subseteq lapsed' /\ UNCHANGED host
  BY <1>1 DEF Change
<1>2. CASE Others
  <2>1. CASE \E e \in Egresses : EgressChanges(e)
    BY <1>1, <2>1 DEF EgressChanges
  <2>2. CASE \E p \in Pods : PodChanges(p) \/ Relabel(p)
    BY <1>1, <2>2 DEF PodChanges, Relabel
  <2>3. CASE \E n \in Nodes : NodeChanges(n) \/ HostChanges(n)
    BY <1>1, <2>3 DEF NodeChanges, HostChanges
  <2>4. CASE \E c \in Classes : ClassChanges(c)
    BY <1>1, <2>4 DEF ClassChanges
  <2> QED
    BY <1>2, <2>1, <2>2, <2>3, <2>4 DEF Others
<1>3. CASE Pool
  BY <1>3 DEF Pool, LinkLands, LinkReleased
<1>4. ASSUME NEW a \in Nodes, Watch(a) \/ ApplyFails(a) \/ Crash(a)
      PROVE  (moved => moved') /\ lapsed \subseteq lapsed' /\ UNCHANGED host
  BY <1>4 DEF Watch, See, ApplyFails, Crash
<1>5. ASSUME NEW a \in Nodes, Pass(a) \/ Shutdown(a)
      PROVE  (moved => moved') /\ lapsed \subseteq lapsed'
  BY <1>5 DEF Pass, Shutdown
<1> QED
  BY <1>2, <1>3, <1>4, <1>5 DEF Next

\* Fail closed: a pod secured at all times, once held, is never let go.
THEOREM EgressStaysHeld ==
  ASSUME NEW worlds \in SUBSET World, NEW fw \in [Nodes -> Forwards]
  PROVE  SpecFrom(worlds, fw) => StaysHeld
<1> DEFINE Held == \A x \in (Pods \X Families) \ lapsed' : ~moved' => KeepsHold(x[1], x[2])
<1>1. Inv /\ [Next]_vars => [Held]_vars
  <2> SUFFICES ASSUME Inv, Next, NEW p \in Pods, NEW f \in Families, <<p, f>> \notin lapsed',
                      ~moved', Holds(host[NodeOf(world, p)], p, f)
               PROVE  Holds(host'[NodeOf(world, p)], p, f)
    <3>1. \A p \in Pods, f \in Families :
            KeepsHold(p, f) <=> (Holds(host[NodeOf(world, p)], p, f)
                                   => Holds(host'[NodeOf(world, p)], p, f))
      BY LeavesDirect DEF KeepsHold
    <3> QED
      BY <3>1
  <2> DEFINE n == NodeOf(world, p)
  <2>1. ~moved /\ <<p, f>> \notin lapsed
    BY StepShape
  <2>2. n \in Nodes /\ world.pod[p] # Absent
    BY <2>1, CurrentMeans
  <2> HIDE DEF n
  <2>3. ASSUME NEW a \in Nodes, Pass(a)
        PROVE  Holds(host'[n], p, f)
    <3>1. host' = [host EXCEPT ![a] = EmitEgress(a, Decisions(view[a]), six[a] # "none")]
      BY <2>3 DEF Pass
    <3>2. CASE a = n
      <4>1. Holds(EmitEgress(a, Decisions(view[a]), six[a] # "none"), p, f)
        BY <2>1, <3>2, KeepHolds DEF n
      <4> QED
        BY <2>2, <3>1, <3>2, <4>1 DEF Inv, TypeOK
    <3>3. CASE a # n
      BY <2>2, <3>1, <3>3 DEF Inv, TypeOK, n
    <3> QED
      BY <3>2, <3>3
  <2>4. ASSUME NEW a \in Nodes, Shutdown(a)
        PROVE  Holds(host'[n], p, f)
    <3>1. CASE a = n
      <4>1. keep[a] # Absent
        BY <2>2, <2>4, <3>1 DEF Shutdown, n
      <4>2. host'[n] = keep[a]
        BY <2>2, <2>4, <3>1, <4>1 DEF Shutdown, Inv, TypeOK
      <4>3. <<p, f, Blocked>> \in keep[a].marks /\ <<Blocked, f>> \in keep[a].ways
        BY <2>1, <2>2, <3>1, <4>1 DEF Inv, Seen, n
      <4> QED
        BY <4>2, <4>3 DEF Holds, Marks
    <3>2. CASE a # n
      BY <2>2, <2>4, <3>2 DEF Shutdown, Inv, TypeOK, n
    <3> QED
      BY <3>1, <3>2
  <2>5. CASE UNCHANGED host
    BY <2>5 DEF n
  <2> QED
    BY <2>3, <2>4, <2>5, StepShape DEF n
<1> QED
  BY <1>1, InvAlways, PTL DEF SpecFrom, StaysHeld

=============================================================================
