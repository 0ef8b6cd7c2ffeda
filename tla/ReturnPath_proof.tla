-------------------------- MODULE ReturnPath_proof --------------------------
(***************************************************************************)
(* What ReturnPath promises of a packet, for any number of nodes, classes, *)
(* PortMaps and pods, any pool and any order of passes: replies go back by *)
(* the node the request came in by (RepliesReturn), flows are attributed   *)
(* to the right end (FlowsByRole) and Programmed=True means service        *)
(* (ProgrammedServes).                                                     *)
(*                                                                         *)
(* The three properties look at rules some host wrote from objects that    *)
(* may have changed since, so the invariant is about what a host has,      *)
(* whoever wrote it and when.  HostsInv: its devices, DNAT rules, policy   *)
(* rules and routes are those of slots, and a rule for what comes over a   *)
(* link can be told from one for what comes in.  ReturnsInv: each rule     *)
(* that delivers on this node has exactly the marks its replies need.      *)
(* Reported: a host that sends requests into a link of a class has a row   *)
(* in that class; the host at the other end need not.  Conditions on the   *)
(* cluster are definitions of their own, with the place in the code that   *)
(* leaves them to the cluster.                                             *)
(***************************************************************************)
EXTENDS PortMaps_proof, SlotNumbers_proof

-----------------------------------------------------------------------------
(* What is asked of a cluster.                                             *)

\* No class lists an interface whose name starts like that of a return link
\* (netlink.go:37).  Nothing validates this.
PlainInterfaces == \A c \in Classes, n \in Nodes : \A i \in Ifaces[c][n] : i[1] # "kup"

\* The accepted mappings of a Service port have one class: sharedTarget
\* (conflicts.go:169) sees to it for mappings that translate, nothing does for
\* the others.
OneClass ==
  \A a, b \in Existing :
    /\ Accepted(a) /\ Accepted(b)
    /\ Of(a).proto = Of(b).proto /\ Of(a).service = Of(b).service
    => Of(a).class = Of(b).class

-----------------------------------------------------------------------------
(* The parts of a State.                                                   *)

\* Node n accepts mapping m's traffic for pod p, or has the pod and replies
\* over links.
Accepts(n, m, p) == m \in Existing /\ p \in ChooseEndpoint(m) /\ n \in Programmers(m)

Targets(n, m, p) ==
  /\ m \in Existing /\ p \in ChooseEndpoint(m) /\ n = PodNode[p]
  /\ Programmers(m) \ {n} # {}

Parts(n) ==
  UNION {UNION {EmitMapping(n, m, p, P) : p \in ChooseEndpoint(m), P \in {Programmers(m)}} :
         m \in Existing}

Devices(n) == UNION {h.links : h \in Parts(n)}

LEMMA PartsAre ==
  ASSUME NEW n, NEW h
  PROVE  h \in Parts(n) <=>
           \/ \E m, p : Accepts(n, m, p) /\ h = AcceptSide(n, m, p)
           \/ \E m, p : Targets(n, m, p) /\ h = TargetSide(n, m, p, Programmers(m))
<1>1. h \in Parts(n) <=>
        \E m \in Existing : \E p \in ChooseEndpoint(m) : h \in EmitMapping(n, m, p, Programmers(m))
  BY DEF Parts
<1>2. \A m, p : h \in EmitMapping(n, m, p, Programmers(m)) <=>
        \/ n \in Programmers(m) /\ h = AcceptSide(n, m, p)
        \/ /\ n = PodNode[p] /\ Programmers(m) \ {n} # {}
           /\ h = TargetSide(n, m, p, Programmers(m))
  BY DEF EmitMapping
<1>. QED  BY <1>1, <1>2 DEF Accepts, Targets

LEMMA StateField ==
  ASSUME NEW n, NEW f \in {"dnat", "exempt", "mangle", "rules", "routes"}, NEW x
  PROVE  x \in BuildState(n)[f] <=>
           \/ \E m, p : Accepts(n, m, p) /\ x \in AcceptSide(n, m, p)[f]
           \/ \E m, p : Targets(n, m, p) /\ x \in TargetSide(n, m, p, Programmers(m))[f]
<1>1. f \in DOMAIN NoState /\ f # "links"
  BY DEF NoState
<1>2. BuildState(n)[f] = UNION {h[f] : h \in Parts(n)}
  BY <1>1 DEF BuildState, Parts
<1>3. x \in BuildState(n)[f] <=> \E h \in Parts(n) : x \in h[f]
  BY <1>2
<1>. QED  BY <1>3, PartsAre

LEMMA StateLinks ==
  ASSUME NEW n, NEW x
  PROVE  x \in BuildState(n)["links"] <=>
           \E l \in Devices(n) :
             x = [l EXCEPT !.addrs = UNION {k.addrs : k \in {y \in Devices(n) : y.slot = l.slot}}]
<1>1. "links" \in DOMAIN NoState
  BY DEF NoState
<1>. QED  BY <1>1 DEF BuildState, Parts, Devices

LEMMA DevicesAre ==
  ASSUME NEW n, NEW l
  PROVE  l \in Devices(n) <=>
           \/ \E m, p : Accepts(n, m, p) /\ l \in AcceptSide(n, m, p).links
           \/ \E m, p : Targets(n, m, p) /\ l \in TargetSide(n, m, p, Programmers(m)).links
<1>1. l \in Devices(n) <=> \E h \in Parts(n) : l \in h.links
  BY DEF Devices
<1>. QED  BY <1>1, PartsAre

-----------------------------------------------------------------------------
(* What the two sides of a mapping emit.                                   *)

\* Node n, which has the pod, has a link in slot s to programmer q of m.
Leg(n, m, s, q) == q \in Programmers(m) \ {n} /\ s \in SlotFor(Of(m).class, n, q)

\* Replies of pod p in family f may take it.
OpenLeg(n, m, p, s, q, f) ==
  Leg(n, m, s, q) /\ f \in PodFamilies(n, p) /\ LinkCarries(f, Of(m).class, n, q)

\* A family node n delivers to pod p in, or has a way back for.
TargetFamily(n, m, p, f) ==
  \/ f = "v4"
  \/ f \in PodFamilies(n, p) /\ \E s, q : Leg(n, m, s, q) /\ LinkCarries(f, Of(m).class, n, q)

\* The rules of a leg.
LegDnat(n, m, p, s, q, f) ==
  [iface |-> Dev(s), fam |-> f, dst |-> End(f, s, n, q), sel |-> PortSel(m), to |-> Addr(p),
   toPort |-> ToPort(m, p)]

LegMark(m, p, s, f) ==
  [kind |-> "Mark", src |-> Addr(p), fam |-> f, sel |-> PodSel(m, p), mark |-> LinkMark(s)]

LegSave(s) == [kind |-> "CtSave", iface |-> Dev(s), mark |-> LinkMark(s)]

LegLoad(m, p, f) ==
  [kind |-> "CtLoad", src |-> Addr(p), fam |-> f, sel |-> PodSel(m, p), mark |-> 0]

LegGuard(s, q) ==
  [pref |-> 101, mark |-> LinkMark(s), fam |-> "v4", to |-> q, table |-> 254]

LegRule(s, f) ==
  [pref |-> 102, mark |-> LinkMark(s), fam |-> f, to |-> None, table |-> LinkTable(s)]

LegRoute(n, s, q, f) == [table |-> LinkTable(s), dev |-> Dev(s), via |-> End(f, s, q, n)]

LEMMA TargetEmits ==
  ASSUME NEW n, NEW m, NEW p, NEW x
  PROVE  LET t == TargetSide(n, m, p, Programmers(m)) IN
         /\ x \in t.dnat <=>
              \E s, q, f : OpenLeg(n, m, p, s, q, f) /\ x = LegDnat(n, m, p, s, q, f)
         /\ x \in t.mangle <=>
              IF Of(m).class \in Multi
                THEN \/ \E s, q, f : OpenLeg(n, m, p, s, q, f) /\ x = LegSave(s)
                     \/ \E f : TargetFamily(n, m, p, f) /\ x = LegLoad(m, p, f)
                ELSE \E s, q, f : OpenLeg(n, m, p, s, q, f) /\ x = LegMark(m, p, s, f)
         /\ x \in t.links <=>
              \E s, q : Leg(n, m, s, q) /\ x = LinkDevice(Of(m).class, s, n, q, "v6" \in PodFamilies(n, p))
         /\ x \in t.rules <=>
              \/ \E s, q : Leg(n, m, s, q) /\ x = LegGuard(s, q)
              \/ \E s, q, f : OpenLeg(n, m, p, s, q, f) /\ x = LegRule(s, f)
         /\ x \in t.routes <=>
              \E s, q, f : OpenLeg(n, m, p, s, q, f) /\ x = LegRoute(n, s, q, f)
<1>. DEFINE P == Programmers(m)
            links == UNION {SlotFor(Of(m).class, n, q) \X {q} : q \in P \ {n}}
            fams == {"v4"} \cup {f \in PodFamilies(n, p) :
                                   \E l \in links : LinkCarries(f, Of(m).class, n, l[2])}
            ways == {<<l[1], l[2], f>> : l \in links, f \in fams}
            open == {w \in ways : LinkCarries(w[3], Of(m).class, n, w[2])}
            t == TargetSide(n, m, p, P)
<1>1. /\ \A l \in links : Leg(n, m, l[1], l[2])
      /\ \A s, q : Leg(n, m, s, q) => <<s, q>> \in links
  BY DEF Leg
<1>2. \A f : f \in fams <=> TargetFamily(n, m, p, f)
  <2>1. ASSUME NEW f, NEW s, NEW q, Leg(n, m, s, q), LinkCarries(f, Of(m).class, n, q)
        PROVE  \E l \in links : LinkCarries(f, Of(m).class, n, l[2])
    <3>1. <<s, q>> \in links /\ <<s, q>>[2] = q
      BY <1>1, <2>1
    <3>. HIDE DEF links
    <3>. QED  BY <2>1, <3>1
  <2>. HIDE DEF links
  <2>. QED  BY <1>1, <2>1 DEF TargetFamily
<1>3. "v4" \in PodFamilies(n, p)
  BY DEF PodFamilies
<1>4. /\ \A w \in ways : Leg(n, m, w[1], w[2]) /\ w[3] \in fams
      /\ \A s, q, f : Leg(n, m, s, q) /\ f \in fams => <<s, q, f>> \in ways
  <2>1. ASSUME NEW s, NEW q, NEW f \in fams, Leg(n, m, s, q)
        PROVE  <<s, q, f>> \in ways
    <3>1. <<s, q>> \in links /\ <<s, q>>[1] = s /\ <<s, q>>[2] = q
      BY <1>1, <2>1
    <3>. HIDE DEF links, fams
    <3>. QED  BY <3>1
  <2>. HIDE DEF links, fams
  <2>. QED  BY <1>1, <2>1
<1>5. /\ \A w \in open : OpenLeg(n, m, p, w[1], w[2], w[3])
      /\ \A s, q, f : OpenLeg(n, m, p, s, q, f) => <<s, q, f>> \in open
  <2>1. \A w \in ways : LinkCarries(w[3], Of(m).class, n, w[2]) => OpenLeg(n, m, p, w[1], w[2], w[3])
    <3>. HIDE DEF links, fams, ways
    <3>. QED  BY <1>2, <1>3, <1>4 DEF OpenLeg, TargetFamily
  <2>2. ASSUME NEW s, NEW q, NEW f, OpenLeg(n, m, p, s, q, f) PROVE <<s, q, f>> \in open
    <3>1. f \in fams /\ Leg(n, m, s, q) /\ LinkCarries(f, Of(m).class, n, q)
      <4>. HIDE DEF links, fams, ways
      <4>. QED  BY <1>2, <2>2 DEF OpenLeg, TargetFamily
    <3>2. <<s, q, f>> \in ways /\ <<s, q, f>>[2] = q /\ <<s, q, f>>[3] = f
      <4>. HIDE DEF links, fams, ways
      <4>. QED  BY <1>4, <3>1
    <3>. HIDE DEF links, fams, ways
    <3>. QED  BY <3>1, <3>2
  <2>. HIDE DEF links, fams, ways
  <2>. QED  BY <2>1, <2>2
<1>. DEFINE device(s, q) == LinkDevice(Of(m).class, s, n, q, "v6" \in PodFamilies(n, p))
<1>6. /\ t.dnat = {LegDnat(n, m, p, w[1], w[2], w[3]) : w \in open}
      /\ t.links = {device(l[1], l[2]) : l \in links}
      /\ t.rules = {LegGuard(l[1], l[2]) : l \in links} \cup {LegRule(w[1], w[3]) : w \in open}
      /\ t.routes = {LegRoute(n, w[1], w[2], w[3]) : w \in open}
      /\ t.mangle = IF Of(m).class \in Multi
                      THEN {LegSave(w[1]) : w \in open} \cup {LegLoad(m, p, f) : f \in fams}
                      ELSE {LegMark(m, p, w[1], w[3]) : w \in open}
  BY DEF TargetSide, ReplyMarks, LegDnat, LegMark, LegSave, LegLoad, LegGuard, LegRule, LegRoute
<1>. HIDE DEF links, fams, ways, open, t, device
<1>7. x \in t.dnat <=> \E s, q, f : OpenLeg(n, m, p, s, q, f) /\ x = LegDnat(n, m, p, s, q, f)
  <2>1. ASSUME NEW s, NEW q, NEW f, OpenLeg(n, m, p, s, q, f) PROVE LegDnat(n, m, p, s, q, f) \in t.dnat
    <3>1. <<s, q, f>> \in open
      BY <1>5, <2>1
    <3>2. LegDnat(n, m, p, <<s, q, f>>[1], <<s, q, f>>[2], <<s, q, f>>[3]) \in t.dnat
      BY <1>6, <3>1
    <3>. QED  BY <3>2
  <2>. QED  BY <1>5, <1>6, <2>1
<1>8. x \in t.links <=> \E s, q : Leg(n, m, s, q) /\ x = device(s, q)
  <2>1. ASSUME NEW s, NEW q, Leg(n, m, s, q) PROVE device(s, q) \in t.links
    <3>1. <<s, q>> \in links
      BY <1>1, <2>1
    <3>2. device(<<s, q>>[1], <<s, q>>[2]) \in t.links
      BY <1>6, <3>1
    <3>. QED  BY <3>2
  <2>. QED  BY <1>1, <1>6, <2>1
<1>9. x \in t.rules <=> \/ \E s, q : Leg(n, m, s, q) /\ x = LegGuard(s, q)
                        \/ \E s, q, f : OpenLeg(n, m, p, s, q, f) /\ x = LegRule(s, f)
  <2>1. ASSUME NEW s, NEW q, Leg(n, m, s, q) PROVE LegGuard(s, q) \in t.rules
    <3>1. <<s, q>> \in links
      BY <1>1, <2>1
    <3>2. LegGuard(<<s, q>>[1], <<s, q>>[2]) \in t.rules
      BY <1>6, <3>1
    <3>. QED  BY <3>2
  <2>2. ASSUME NEW s, NEW q, NEW f, OpenLeg(n, m, p, s, q, f) PROVE LegRule(s, f) \in t.rules
    <3>1. <<s, q, f>> \in open
      BY <1>5, <2>2
    <3>2. LegRule(<<s, q, f>>[1], <<s, q, f>>[3]) \in t.rules
      BY <1>6, <3>1
    <3>. QED  BY <3>2
  <2>3. ASSUME x \in t.rules PROVE \/ \E l \in links : x = LegGuard(l[1], l[2])
                                   \/ \E w \in open : x = LegRule(w[1], w[3])
    BY <1>6, <2>3
  <2>. QED  BY <1>1, <1>5, <2>1, <2>2, <2>3
<1>10. x \in t.routes <=> \E s, q, f : OpenLeg(n, m, p, s, q, f) /\ x = LegRoute(n, s, q, f)
  <2>1. ASSUME NEW s, NEW q, NEW f, OpenLeg(n, m, p, s, q, f) PROVE LegRoute(n, s, q, f) \in t.routes
    <3>1. <<s, q, f>> \in open
      BY <1>5, <2>1
    <3>2. LegRoute(n, <<s, q, f>>[1], <<s, q, f>>[2], <<s, q, f>>[3]) \in t.routes
      BY <1>6, <3>1
    <3>. QED  BY <3>2
  <2>. QED  BY <1>5, <1>6, <2>1
<1>11. ASSUME Of(m).class \notin Multi
       PROVE  x \in t.mangle <=>
                \E s, q, f : OpenLeg(n, m, p, s, q, f) /\ x = LegMark(m, p, s, f)
  <2>1. ASSUME NEW s, NEW q, NEW f, OpenLeg(n, m, p, s, q, f)
        PROVE  LegMark(m, p, s, f) \in t.mangle
    <3>1. <<s, q, f>> \in open
      BY <1>5, <2>1
    <3>2. LegMark(m, p, <<s, q, f>>[1], <<s, q, f>>[3]) \in t.mangle
      BY <1>6, <1>11, <3>1
    <3>. QED  BY <3>2
  <2>. QED  BY <1>5, <1>6, <1>11, <2>1
<1>12. ASSUME Of(m).class \in Multi
       PROVE  x \in t.mangle <=>
                \/ \E s, q, f : OpenLeg(n, m, p, s, q, f) /\ x = LegSave(s)
                \/ \E f : TargetFamily(n, m, p, f) /\ x = LegLoad(m, p, f)
  <2>1. ASSUME NEW s, NEW q, NEW f, OpenLeg(n, m, p, s, q, f)
        PROVE  LegSave(s) \in t.mangle
    <3>1. <<s, q, f>> \in open
      BY <1>5, <2>1
    <3>2. LegSave(<<s, q, f>>[1]) \in t.mangle
      BY <1>6, <1>12, <3>1
    <3>. QED  BY <3>2
  <2>2. x \in t.mangle <=> \/ \E w \in open : x = LegSave(w[1])
                           \/ \E f \in fams : x = LegLoad(m, p, f)
    BY <1>6, <1>12
  <2>. QED  BY <1>2, <1>5, <2>1, <2>2
<1>. QED  BY <1>7, <1>8, <1>9, <1>10, <1>11, <1>12 DEF t, device

\* Node n has m's rules in family f: as far as its link to the pod carries it.
AcceptFamily(n, m, p, f) ==
  /\ f \in PodFamilies(n, p)
  /\ AcceptLink(m, n, PodNode[p]) = {} \/ LinkCarries(f, Of(m).class, n, PodNode[p])

\* The rules of a node that accepts: for the pod itself, and over a link.
HereDnat(m, p, i, f) ==
  [iface |-> i, fam |-> f, dst |-> None, sel |-> PortSel(m), to |-> Addr(p),
   toPort |-> ToPort(m, p)]

AwayDnat(n, m, p, i, s, f) ==
  [iface |-> i, fam |-> f, dst |-> None, sel |-> PortSel(m), to |-> End(f, s, PodNode[p], n),
   toPort |-> 0]

HereExempt(m, p, f) ==
  [oif |-> Cni, negate |-> FALSE, fam |-> f, src |-> None, dst |-> Addr(p),
   sel |-> PodSel(m, p)]

AwayExempt(n, m, p, s, f) ==
  [oif |-> Dev(s), negate |-> FALSE, fam |-> f, src |-> None,
   dst |-> End(f, s, PodNode[p], n), sel |-> PortSel(m)]

LEMMA AcceptDnat ==
  ASSUME NEW n, NEW m, NEW p, NEW x
  PROVE  x \in AcceptSide(n, m, p).dnat <=>
           \E i \in InterfacesFor(m, n) : \E f :
             /\ AcceptFamily(n, m, p, f)
             /\ \/ AcceptLink(m, n, PodNode[p]) = {} /\ x = HereDnat(m, p, i, f)
                \/ \E s \in AcceptLink(m, n, PodNode[p]) : x = AwayDnat(n, m, p, i, s, f)
<1>. DEFINE e == PodNode[p]
            link == AcceptLink(m, n, e)
            fams == {f \in PodFamilies(n, p) : link = {} \/ LinkCarries(f, Of(m).class, n, e)}
            target(f) == IF link = {} THEN {Addr(p)} ELSE {End(f, s, e, n) : s \in link}
            h == AcceptSide(n, m, p)
            rule(i, f, a) == [iface |-> i, fam |-> f, dst |-> None, sel |-> PortSel(m), to |-> a,
                              toPort |-> IF link = {} THEN ToPort(m, p) ELSE 0]
<1>1. h.dnat = UNION {{rule(i, f, a) : i \in InterfacesFor(m, n), a \in target(f)} : f \in fams}
  BY DEF AcceptSide, NoState
<1>2. \A f : f \in fams <=> AcceptFamily(n, m, p, f)
  BY DEF AcceptFamily
<1>3. /\ \A i, f : link = {} => rule(i, f, Addr(p)) = HereDnat(m, p, i, f)
      /\ \A i, f, s : link # {} => rule(i, f, End(f, s, e, n)) = AwayDnat(n, m, p, i, s, f)
  <2>. HIDE DEF link
  <2>. QED  BY DEF HereDnat, AwayDnat
<1>. HIDE DEF h, rule, fams
<1>4. x \in h.dnat <=>
        \E i \in InterfacesFor(m, n) : \E f \in fams : \E a \in target(f) : x = rule(i, f, a)
  <2>. HIDE DEF target
  <2>. QED  BY <1>1
<1>. HIDE DEF link
<1>5. CASE link = {}
  BY <1>2, <1>3, <1>4, <1>5 DEF h, link
<1>6. CASE link # {}
  <2>1. \A f : target(f) = {End(f, s, e, n) : s \in link}
    BY <1>6
  <2>2. x \in h.dnat <=> \E i \in InterfacesFor(m, n) : \E f \in fams : \E s \in link :
                           x = rule(i, f, End(f, s, e, n))
    BY <1>4, <2>1
  <2>. QED  BY <1>2, <1>3, <1>6, <2>2 DEF h, link
<1>. QED  BY <1>5, <1>6

LEMMA AcceptEmits ==
  ASSUME NEW n, NEW m, NEW p, NEW x
  PROVE  LET h == AcceptSide(n, m, p)
             link == AcceptLink(m, n, PodNode[p])
         IN
         /\ \A f : AcceptFamily(n, m, p, f) =>
              /\ link = {} => HereExempt(m, p, f) \in h.exempt
              /\ \A s \in link : AwayExempt(n, m, p, s, f) \in h.exempt
         /\ x \in h.links <=>
              \E s \in link : x = LinkDevice(Of(m).class, s, n, PodNode[p], "v6" \in PodFamilies(n, p))
         /\ h.mangle = {} /\ h.rules = {} /\ h.routes = {}
<1>. DEFINE e == PodNode[p]
            link == AcceptLink(m, n, e)
            fams == {f \in PodFamilies(n, p) : link = {} \/ LinkCarries(f, Of(m).class, n, e)}
            target(f) == IF link = {} THEN {Addr(p)} ELSE {End(f, s, e, n) : s \in link}
            oif == IF link = {} THEN {Cni} ELSE {Dev(s) : s \in link}
            h == AcceptSide(n, m, p)
            pass(o, f, a) == [oif |-> o, negate |-> FALSE, fam |-> f, src |-> None, dst |-> a,
                              sel |-> ExemptSel(m, p, link)]
<1>1. /\ h.exempt = UNION {{pass(o, f, a) : o \in oif, a \in target(f)} : f \in fams}
      /\ h.links = {LinkDevice(Of(m).class, s, n, e, "v6" \in PodFamilies(n, p)) : s \in link}
      /\ h.mangle = {} /\ h.rules = {} /\ h.routes = {}
  BY DEF AcceptSide, NoState
<1>2. \A f : f \in fams <=> AcceptFamily(n, m, p, f)
  BY DEF AcceptFamily
<1>3. /\ \A f : link = {} => pass(Cni, f, Addr(p)) = HereExempt(m, p, f)
      /\ \A f, s : link # {} => pass(Dev(s), f, End(f, s, e, n)) = AwayExempt(n, m, p, s, f)
  <2>. HIDE DEF link
  <2>. QED  BY DEF HereExempt, AwayExempt, ExemptSel
<1>. HIDE DEF h, pass, fams
<1>4. ASSUME NEW f, AcceptFamily(n, m, p, f)
      PROVE  /\ link = {} => HereExempt(m, p, f) \in h.exempt
             /\ \A s \in link : AwayExempt(n, m, p, s, f) \in h.exempt
  <2>1. f \in fams
    BY <1>2, <1>4
  <2>2. \A o \in oif, a \in target(f) : pass(o, f, a) \in h.exempt
    <3>. HIDE DEF target, oif
    <3>. QED  BY <1>1, <2>1
  <2>. HIDE DEF link
  <2>. QED  BY <1>3, <2>2
<1>. QED  BY <1>1, <1>4 DEF h

-----------------------------------------------------------------------------
(* Slots, links and their addresses.                                       *)

\* No two slots of the pool have one key.
PoolApart ==
  /\ DOMAIN pool = Slots
  /\ \A s, t \in Slots : pool[s] = pool[t] => s = t \/ pool[s] = Absent

LEMMA SlotPeer ==
  ASSUME NEW n, NEW c, NEW q, NEW s \in SlotFor(c, n, q),
         NEW d, NEW r, s \in SlotFor(d, n, r)
  PROVE  c = d /\ q = r /\ s \in Slots /\ {n, q} \subseteq nodes
<1>1. Key(c, n, q) = Key(d, n, r) /\ s \in Slots /\ {n, q} \subseteq nodes
  BY DEF SlotFor
<1>2. c = d /\ {n, q} = {n, r}
  BY <1>1 DEF Key
<1>. QED  BY <1>1, <1>2

LEMMA SlotUnique ==
  ASSUME Objects, PoolApart, NEW c \in Classes, NEW n, NEW q,
         NEW s \in SlotFor(c, n, q), NEW t \in SlotFor(c, n, q)
  PROVE  s = t
<1>1. /\ pool[s] = Key(c, n, q) /\ pool[t] = Key(c, n, q) /\ s \in Slots /\ t \in Slots
      /\ n \in Nodes /\ q \in Nodes
  BY DEF SlotFor, Objects
<1>2. Key(c, n, q) # Absent
  BY <1>1, ReturnPathAssumption DEF Key
<1>. QED  BY <1>1, <1>2 DEF PoolApart

LEMMA SlotNat ==
  ASSUME NEW s \in Slots
  PROVE  s \in Nat /\ s <= 1023
<1>1. Slots \subseteq 0 .. LinkSlots - 1
  BY ReturnPathAssumption
<1>. QED  BY <1>1 DEF LinkSlots

\* The addresses of a link are its own: the pair of addresses gives the slot,
\* and no address of the node itself is one of them.
LEMMA EndIs ==
  ASSUME NEW f \in Families, NEW s \in Slots, NEW x, NEW y
  PROVE  /\ End(f, s, x, y)[1] = f
         /\ End(f, s, x, y)[2] \in Nat
         /\ End(f, s, x, y)[2] >= LinkSubnet
         /\ End(f, s, x, y)[2] \div 2 = (IF f = "v4" THEN 8192 ELSE 32768) + s
         /\ End(f, s, x, y) \in Families \X Nat
<1>1. s \in Nat /\ s <= 1023
  BY SlotNat
<1>. DEFINE base == IF f = "v4" THEN 16384 ELSE 65536
            v == End(f, s, x, y)[2]
<1>2. End(f, s, x, y) = <<f, v>> /\ (v = base + 2 * s \/ v = base + 2 * s + 1)
  BY DEF End, Ends, Slash31, Slash127, LinkSubnet, LinkSubnet6
<1>3. base \in {16384, 65536} /\ v \in Nat
  BY <1>1, <1>2
<1>. HIDE DEF v
<1>4. v >= LinkSubnet
  BY <1>1, <1>2, <1>3 DEF LinkSubnet
<1>5. v \div 2 = (IF f = "v4" THEN 8192 ELSE 32768) + s
  <2>1. CASE f = "v4"
    BY <2>1, <1>1, <1>2
  <2>2. CASE f # "v4"
    BY <2>2, <1>1, <1>2
  <2>. QED  BY <2>1, <2>2
<1>. QED  BY <1>2, <1>3, <1>4, <1>5 DEF v

LEMMA LocalsAre ==
  ASSUME NEW a \in Nodes
  PROVE  /\ \A b \in LocalAddrs[a] : b \in Families \X Nat /\ b[2] < LinkSubnet
         /\ None \notin LocalAddrs[a]
<1>1. LocalAddrs[a] \subseteq Families \X (0 .. LinkSubnet - 1) /\ None \notin Families \X Nat
  BY ReturnPathAssumption
<1>2. ASSUME NEW b \in Families \X (0 .. LinkSubnet - 1)
      PROVE  b \in Families \X Nat /\ b[2] < LinkSubnet
  <2>1. PICK g \in Families, v \in 0 .. LinkSubnet - 1 : b = <<g, v>>
    BY <1>2
  <2>2. v \in Nat /\ v < LinkSubnet
    BY <2>1 DEF LinkSubnet
  <2>. QED  BY <2>1, <2>2
<1>. QED  BY <1>1, <1>2

LEMMA EndFree ==
  ASSUME NEW f \in Families, NEW s \in Slots, NEW x, NEW y, NEW a \in Nodes
  PROVE  End(f, s, x, y) \notin LocalAddrs[a] /\ End(f, s, x, y) # None
<1>1. End(f, s, x, y)[2] >= LinkSubnet /\ End(f, s, x, y) \in Families \X Nat
  BY EndIs
<1>2. None \notin Families \X Nat
  BY ReturnPathAssumption
<1>. QED  BY <1>1, <1>2, LocalsAre DEF LinkSubnet

-----------------------------------------------------------------------------
(* What a host has, whenever it was written.                               *)

\* Every link device has the addresses of its slot, and a slot one peer.
LinksAgree(n, h) ==
  /\ \A l \in h.links : /\ l.slot \in Slots /\ l.peer \in Nodes
                        /\ \A a \in l.addrs : \E f \in Families : a = End(f, l.slot, n, l.peer)
  /\ \A l, k \in h.links : l.slot = k.slot => l.peer = k.peer

\* A rule for what comes in, to the pod or to the far end of a link.
AcceptRule(n, h, d) ==
  /\ d.dst = None /\ d.iface[1] # "kup"
  /\ \/ d.to = Addr(d.to[2])
     \/ \E l \in h.links : d.to = End(d.fam, l.slot, l.peer, n) /\ d.toPort = 0

\* A rule for what comes over a link, to a pod of this node.
DeliverRule(n, h, d) ==
  /\ \E l \in h.links : d.iface = Dev(l.slot) /\ d.dst = End(d.fam, l.slot, n, l.peer)
  /\ d.to = Addr(d.to[2]) /\ PodNode[d.to[2]] = n

ByRole(n, h) ==
  \A d \in h.snap : d.fam \in Families /\ (AcceptRule(n, h, d) \/ DeliverRule(n, h, d))

\* Rendering changes nothing of a DNAT rule but the address it is pinned to.
Rendered(h) ==
  \A d \in h.dnat : \E x \in h.snap :
    d.iface = x.iface /\ d.fam = x.fam /\ d.sel = x.sel /\ d.to = x.to /\ d.toPort = x.toPort

\* Policy rules, routes and saved marks are those of slots.
BySlot(h) ==
  /\ \A x \in h.rules :
       x.pref = 102 => \E s \in Slots : x.mark = LinkMark(s) /\ x.table = LinkTable(s)
  /\ \A x \in h.routes : \E s \in Slots : x.table = LinkTable(s) /\ x.dev = Dev(s)
  /\ \A x \in h.mangle : x.kind = "CtSave" => \E s : x.iface = Dev(s)

HostAgrees(n, h) == LinksAgree(n, h) /\ ByRole(n, h) /\ Rendered(h) /\ BySlot(h)

\* The rules that may mark a reply.
Marks(h, a, fam, proto, port) ==
  {r \in h.mangle : r.kind # "CtSave" /\ r.src = a /\ r.fam = fam /\ InSel(r.sel, proto, port)}

Saved(h, iface) == {r.mark : r \in {x \in h.mangle : x.kind = "CtSave" /\ x.iface = iface}}

\* Replies to what came over a link get that link's mark, from one rule, and
\* the mark has a policy rule.
MarksBack(h, d, port) ==
  \E l \in h.links : \E x :
    /\ d.iface = Dev(l.slot)
    /\ Marks(h, d.to, d.fam, d.sel.proto, PortAfter(d, port)) = {x}
    /\ \/ x.kind = "Mark" /\ x.mark = LinkMark(l.slot)
       \/ x.kind = "CtLoad" /\ Saved(h, Dev(l.slot)) = {LinkMark(l.slot)}
    /\ \E g \in h.rules : g.pref = 102 /\ g.mark = LinkMark(l.slot) /\ g.fam = d.fam

\* Replies to what came in by the pod's own node are marked from the flow or
\* not at all.
MarksNone(h, d, port) ==
  \A x \in Marks(h, d.to, d.fam, d.sel.proto, PortAfter(d, port)) : x.kind = "CtLoad"

HostReturns(n, h) ==
  \A d \in h.snap : d.to = Addr(d.to[2]) /\ PodNode[d.to[2]] = n =>
    \A port \in d.sel.first .. d.sel.last :
      IF d.iface[1] = "kup" THEN MarksBack(h, d, port) ELSE MarksNone(h, d, port)

LEMMA RenderIs ==
  ASSUME NEW n
  PROVE  LET st == BuildState(n)
             h == Render(n, st)
         IN /\ h.links = st.links /\ h.mangle = st.mangle /\ h.rules = st.rules
            /\ h.routes = st.routes /\ h.exempt = st.exempt /\ h.snap = st.dnat
            /\ h.dnat = {Pinned(Locals(n, st.links), d) : d \in st.dnat}
BY DEF Render, Empty

\* The devices a State asks for are ends of links in the pool.
LEMMA DeviceIs ==
  ASSUME NEW n, NEW l \in Devices(n)
  PROVE  \E m \in Existing : \E q, s, dual :
           /\ s \in SlotFor(Of(m).class, n, q) /\ s \in Slots
           /\ l = LinkDevice(Of(m).class, s, n, q, dual)
<1>1. CASE \E m, p : Accepts(n, m, p) /\ l \in AcceptSide(n, m, p).links
  <2>1. PICK m, p : m \in Existing /\ l \in AcceptSide(n, m, p).links
    BY <1>1 DEF Accepts
  <2>2. PICK s \in AcceptLink(m, n, PodNode[p]) :
          l = LinkDevice(Of(m).class, s, n, PodNode[p], "v6" \in PodFamilies(n, p))
    BY <2>1, AcceptEmits
  <2>3. s \in SlotFor(Of(m).class, n, PodNode[p]) /\ s \in Slots
    BY <2>2 DEF AcceptLink, SlotFor
  <2>. QED  BY <2>1, <2>2, <2>3
<1>2. CASE \E m, p : Targets(n, m, p) /\ l \in TargetSide(n, m, p, Programmers(m)).links
  <2>1. PICK m, p : m \in Existing /\ l \in TargetSide(n, m, p, Programmers(m)).links
    BY <1>2 DEF Targets
  <2>2. PICK s, q : Leg(n, m, s, q) /\ l = LinkDevice(Of(m).class, s, n, q, "v6" \in PodFamilies(n, p))
    BY <2>1, TargetEmits
  <2>3. s \in SlotFor(Of(m).class, n, q) /\ s \in Slots
    BY <2>2 DEF Leg, SlotFor
  <2>. QED  BY <2>1, <2>2, <2>3
<1>. QED  BY <1>1, <1>2, DevicesAre

\* A device of the State has the peer it was asked for with.
LEMMA DeviceLinks ==
  ASSUME NEW n
  PROVE  /\ \A l \in Devices(n) : \E x \in BuildState(n).links :
              x.slot = l.slot /\ x.peer = l.peer /\ l.addrs \subseteq x.addrs
         /\ \A x \in BuildState(n).links :
              /\ \E l \in Devices(n) : x.slot = l.slot /\ x.peer = l.peer
              /\ \A a \in x.addrs : \E k \in Devices(n) : k.slot = x.slot /\ a \in k.addrs
<1>. DEFINE all(l) == UNION {k.addrs : k \in {y \in Devices(n) : y.slot = l.slot}}
            joined(l) == [l EXCEPT !.addrs = all(l)]
<1>1. ASSUME NEW l \in Devices(n)
      PROVE  joined(l).slot = l.slot /\ joined(l).peer = l.peer /\ joined(l).addrs = all(l)
  <2>1. \E c, s, q, dual : l = LinkDevice(c, s, n, q, dual)
    BY DeviceIs
  <2>. HIDE DEF all
  <2>. QED  BY <2>1 DEF LinkDevice
<1>2. \A x : x \in BuildState(n).links <=> \E l \in Devices(n) : x = joined(l)
  BY StateLinks
<1>3. /\ \A l \in Devices(n) : l.addrs \subseteq all(l)
      /\ \A l \in Devices(n) : \A a \in all(l) : \E k \in Devices(n) : k.slot = l.slot /\ a \in k.addrs
  OBVIOUS
<1>. HIDE DEF all, joined
<1>. QED  BY <1>1, <1>2, <1>3

LEMMA LinksAgreeHolds ==
  ASSUME Objects, NEW n \in Nodes
  PROVE  LinksAgree(n, Render(n, BuildState(n)))
<1>. DEFINE L == BuildState(n).links
<1>1. \A l, k \in Devices(n) : l.slot = k.slot => l.peer = k.peer
  <2>. SUFFICES ASSUME NEW l \in Devices(n), NEW k \in Devices(n), l.slot = k.slot
                PROVE  l.peer = k.peer
    OBVIOUS
  <2>1. PICK c, q, s, du : s \in SlotFor(c, n, q) /\ l = LinkDevice(c, s, n, q, du)
    BY DeviceIs
  <2>2. PICK d, r, u, dv : u \in SlotFor(d, n, r) /\ k = LinkDevice(d, u, n, r, dv)
    BY DeviceIs
  <2>3. l.slot = s /\ l.peer = q /\ k.slot = u /\ k.peer = r
    BY <2>1, <2>2 DEF LinkDevice
  <2>. QED  BY <2>1, <2>2, <2>3, SlotPeer
<1>2. \A l \in Devices(n) : /\ l.slot \in Slots /\ l.peer \in Nodes
                            /\ \A a \in l.addrs : \E f \in Families : a = End(f, l.slot, n, l.peer)
  <2>. SUFFICES ASSUME NEW l \in Devices(n)
                PROVE  /\ l.slot \in Slots /\ l.peer \in Nodes
                       /\ \A a \in l.addrs : \E f \in Families : a = End(f, l.slot, n, l.peer)
    OBVIOUS
  <2>1. PICK c, q, s, du : /\ s \in SlotFor(c, n, q) /\ s \in Slots
                           /\ l = LinkDevice(c, s, n, q, du)
    BY DeviceIs
  <2>2. q \in Nodes
    BY <2>1 DEF SlotFor, Objects
  <2>. QED  BY <2>1, <2>2 DEF LinkDevice
<1>3. \A l, k \in L : l.slot = k.slot => l.peer = k.peer
  BY <1>1, DeviceLinks
<1>4. \A l \in L : /\ l.slot \in Slots /\ l.peer \in Nodes
                   /\ \A a \in l.addrs : \E f \in Families : a = End(f, l.slot, n, l.peer)
  BY <1>1, <1>2, DeviceLinks
<1>. QED  BY <1>3, <1>4, RenderIs DEF LinksAgree

\* The DNAT rules of a State, with the mappings they are for.
LEMMA DnatIs ==
  ASSUME NEW n, NEW d
  PROVE  d \in BuildState(n).dnat <=>
           \/ \E m, p : /\ Accepts(n, m, p) /\ AcceptLink(m, n, PodNode[p]) = {}
                        /\ \E i \in InterfacesFor(m, n) : \E f :
                             AcceptFamily(n, m, p, f) /\ d = HereDnat(m, p, i, f)
           \/ \E m, p : /\ Accepts(n, m, p)
                        /\ \E i \in InterfacesFor(m, n) : \E f :
                             /\ AcceptFamily(n, m, p, f)
                             /\ \E s \in AcceptLink(m, n, PodNode[p]) :
                                  d = AwayDnat(n, m, p, i, s, f)
           \/ \E m, p : /\ Targets(n, m, p)
                        /\ \E s, q, f : /\ OpenLeg(n, m, p, s, q, f)
                                        /\ d = LegDnat(n, m, p, s, q, f)
<1>1. ASSUME NEW m, NEW p
      PROVE  d \in AcceptSide(n, m, p).dnat <=>
               \E i \in InterfacesFor(m, n) : \E f :
                 /\ AcceptFamily(n, m, p, f)
                 /\ \/ AcceptLink(m, n, PodNode[p]) = {} /\ d = HereDnat(m, p, i, f)
                    \/ \E s \in AcceptLink(m, n, PodNode[p]) : d = AwayDnat(n, m, p, i, s, f)
  BY AcceptDnat
<1>2. \A m, p : d \in TargetSide(n, m, p, Programmers(m)).dnat <=>
        \E s, q, f : OpenLeg(n, m, p, s, q, f) /\ d = LegDnat(n, m, p, s, q, f)
  BY TargetEmits
<1>3. d \in BuildState(n).dnat <=>
        \/ \E m, p : Accepts(n, m, p) /\ d \in AcceptSide(n, m, p).dnat
        \/ \E m, p : Targets(n, m, p) /\ d \in TargetSide(n, m, p, Programmers(m)).dnat
  BY StateField
<1>. QED  BY <1>1, <1>2, <1>3

\* The links that a side's rules speak of are there.
LEMMA AcceptLinkThere ==
  ASSUME NEW n, NEW m, NEW p, Accepts(n, m, p), NEW s \in AcceptLink(m, n, PodNode[p])
  PROVE  \E x \in BuildState(n).links :
           /\ x.slot = s /\ x.peer = PodNode[p]
           /\ LinkDevice(Of(m).class, s, n, PodNode[p], "v6" \in PodFamilies(n, p)).addrs \subseteq x.addrs
<1>. DEFINE l == LinkDevice(Of(m).class, s, n, PodNode[p], "v6" \in PodFamilies(n, p))
<1>1. l \in AcceptSide(n, m, p).links
  BY AcceptEmits
<1>2. l \in Devices(n)
  BY <1>1, DevicesAre
<1>3. l.slot = s /\ l.peer = PodNode[p]
  BY DEF LinkDevice
<1>. HIDE DEF l
<1>4. \E x \in BuildState(n).links : x.slot = s /\ x.peer = PodNode[p] /\ l.addrs \subseteq x.addrs
  BY <1>2, <1>3, DeviceLinks
<1>. QED  BY <1>4 DEF l

LEMMA LegThere ==
  ASSUME NEW n, NEW m, NEW p, Targets(n, m, p), NEW s, NEW q, Leg(n, m, s, q)
  PROVE  \E x \in BuildState(n).links :
           /\ x.slot = s /\ x.peer = q
           /\ LinkDevice(Of(m).class, s, n, q, "v6" \in PodFamilies(n, p)).addrs \subseteq x.addrs
<1>. DEFINE l == LinkDevice(Of(m).class, s, n, q, "v6" \in PodFamilies(n, p))
<1>1. l \in TargetSide(n, m, p, Programmers(m)).links
  BY TargetEmits
<1>2. l \in Devices(n)
  BY <1>1, DevicesAre
<1>3. l.slot = s /\ l.peer = q
  BY DEF LinkDevice
<1>. HIDE DEF l
<1>4. \E x \in BuildState(n).links : x.slot = s /\ x.peer = q /\ l.addrs \subseteq x.addrs
  BY <1>2, <1>3, DeviceLinks
<1>. QED  BY <1>4 DEF l

LEMMA PlainFor ==
  ASSUME Objects, PlainInterfaces, NEW n \in Nodes, NEW m \in Existing,
         NEW i \in InterfacesFor(m, n)
  PROVE  i[1] # "kup"
<1>1. Of(m).class \in Classes
  BY DEF Objects
<1>2. i \in Ifaces[Of(m).class][n]
  BY DEF InterfacesFor
<1>. QED  BY <1>1, <1>2 DEF PlainInterfaces

LEMMA ByRoleHolds ==
  ASSUME Objects, PlainInterfaces, NEW n \in Nodes
  PROVE  ByRole(n, Render(n, BuildState(n)))
<1>. DEFINE h == Render(n, BuildState(n))
<1>1. h.links = BuildState(n).links /\ h.snap = BuildState(n).dnat
  BY RenderIs
<1>. HIDE DEF h
<1>2. \A p : PodFamilies(n, p) \subseteq Families
  BY DEF PodFamilies, Families
<1>3. \A p : Addr(p) = Addr(Addr(p)[2])
  BY DEF Addr
<1>4. ASSUME NEW d \in h.snap
      PROVE  d.fam \in Families /\ (AcceptRule(n, h, d) \/ DeliverRule(n, h, d))
  <2>1. ASSUME NEW m, NEW p, NEW i \in InterfacesFor(m, n), NEW f, Accepts(n, m, p),
               AcceptFamily(n, m, p, f), d = HereDnat(m, p, i, f)
        PROVE  d.fam \in Families /\ AcceptRule(n, h, d)
    <3>1. i[1] # "kup" /\ f \in Families
      BY <1>2, <2>1, PlainFor DEF Accepts, AcceptFamily
    <3>2. d.dst = None /\ d.iface = i /\ d.fam = f /\ d.to = Addr(p)
      BY <2>1 DEF HereDnat
    <3>. QED  BY <1>3, <3>1, <3>2 DEF AcceptRule
  <2>2. ASSUME NEW m, NEW p, NEW i \in InterfacesFor(m, n), NEW f, Accepts(n, m, p),
               AcceptFamily(n, m, p, f), NEW s \in AcceptLink(m, n, PodNode[p]),
               d = AwayDnat(n, m, p, i, s, f)
        PROVE  d.fam \in Families /\ AcceptRule(n, h, d)
    <3>1. i[1] # "kup" /\ f \in Families
      BY <1>2, <2>2, PlainFor DEF Accepts, AcceptFamily
    <3>2. /\ d.dst = None /\ d.iface = i /\ d.fam = f /\ d.to = End(f, s, PodNode[p], n)
          /\ d.toPort = 0
      BY <2>2 DEF AwayDnat
    <3>3. PICK x \in h.links : x.slot = s /\ x.peer = PodNode[p]
      BY <1>1, <2>2, AcceptLinkThere
    <3>4. d.to = End(d.fam, x.slot, x.peer, n)
      BY <3>2, <3>3
    <3>. QED  BY <3>1, <3>2, <3>4 DEF AcceptRule
  <2>3. ASSUME NEW m, NEW p, Targets(n, m, p), NEW s, NEW q, NEW f,
               OpenLeg(n, m, p, s, q, f), d = LegDnat(n, m, p, s, q, f)
        PROVE  d.fam \in Families /\ DeliverRule(n, h, d)
    <3>1. f \in Families /\ Leg(n, m, s, q) /\ PodNode[p] = n
      BY <1>2, <2>3 DEF OpenLeg, Targets
    <3>2. d.dst = End(f, s, n, q) /\ d.iface = Dev(s) /\ d.fam = f /\ d.to = Addr(p)
      BY <2>3 DEF LegDnat
    <3>3. PICK x \in h.links : x.slot = s /\ x.peer = q
      BY <1>1, <2>3, <3>1, LegThere
    <3>4. d.dst = End(d.fam, x.slot, n, x.peer) /\ d.iface = Dev(x.slot)
      BY <3>2, <3>3
    <3>5. d.to = Addr(d.to[2]) /\ PodNode[d.to[2]] = n
      BY <3>1, <3>2 DEF Addr
    <3>. QED  BY <3>1, <3>2, <3>4, <3>5 DEF DeliverRule
  <2>. QED  BY <1>1, <2>1, <2>2, <2>3, DnatIs
<1>. QED  BY <1>4 DEF ByRole, h

\* Every rule that is rendered comes from one of the State.
LEMMA PinnedKeeps ==
  ASSUME NEW n, NEW d \in BuildState(n).dnat, NEW L
  PROVE  /\ Pinned(L, d).iface = d.iface /\ Pinned(L, d).fam = d.fam
         /\ Pinned(L, d).sel = d.sel /\ Pinned(L, d).to = d.to
         /\ Pinned(L, d).toPort = d.toPort
<1>1. \E i, f, a, s, x, u : d = [iface |-> i, fam |-> f, dst |-> a, sel |-> s, to |-> x, toPort |-> u]
  BY DnatIs DEF HereDnat, AwayDnat, LegDnat
<1>2. PICK i, f, a, s, x, u : d = [iface |-> i, fam |-> f, dst |-> a, sel |-> s, to |-> x, toPort |-> u]
  BY <1>1
<1>3. \A v : LET e == [d EXCEPT !.dst = v] IN
        /\ e.iface = d.iface /\ e.fam = d.fam /\ e.sel = d.sel /\ e.to = d.to
        /\ e.toPort = d.toPort /\ e.dst = v
  BY <1>2
<1>4. Pinned(L, d) = d \/ \E v : Pinned(L, d) = [d EXCEPT !.dst = v]
  BY DEF Pinned
<1>. QED  BY <1>3, <1>4

LEMMA RenderedHolds ==
  ASSUME NEW n \in Nodes
  PROVE  Rendered(Render(n, BuildState(n)))
<1>. DEFINE h == Render(n, BuildState(n))
            L == Locals(n, BuildState(n).links)
<1>1. h.snap = BuildState(n).dnat /\ h.dnat = {Pinned(L, d) : d \in BuildState(n).dnat}
  BY RenderIs
<1>. HIDE DEF h, L
<1>. QED  BY <1>1, PinnedKeeps DEF Rendered, h

\* The mangle rules of a State.
LEMMA MangleIs ==
  ASSUME NEW n, NEW x
  PROVE  x \in BuildState(n).mangle <=>
           \E m, p : Targets(n, m, p) /\
             IF Of(m).class \in Multi
               THEN \/ \E s, q, f : OpenLeg(n, m, p, s, q, f) /\ x = LegSave(s)
                    \/ \E f : TargetFamily(n, m, p, f) /\ x = LegLoad(m, p, f)
               ELSE \E s, q, f : OpenLeg(n, m, p, s, q, f) /\ x = LegMark(m, p, s, f)
<1>1. x \in BuildState(n).mangle <=>
        \E m, p : Targets(n, m, p) /\ x \in TargetSide(n, m, p, Programmers(m)).mangle
  BY StateField, AcceptEmits
<1>2. ASSUME NEW m, NEW p
      PROVE  x \in TargetSide(n, m, p, Programmers(m)).mangle <=>
               IF Of(m).class \in Multi
                 THEN \/ \E s, q, f : OpenLeg(n, m, p, s, q, f) /\ x = LegSave(s)
                      \/ \E f : TargetFamily(n, m, p, f) /\ x = LegLoad(m, p, f)
                 ELSE \E s, q, f : OpenLeg(n, m, p, s, q, f) /\ x = LegMark(m, p, s, f)
  BY TargetEmits
<1>. QED  BY <1>1, <1>2

LEMMA BySlotHolds ==
  ASSUME NEW n \in Nodes
  PROVE  BySlot(Render(n, BuildState(n)))
<1>1. \A m, p, s, q, f : OpenLeg(n, m, p, s, q, f) => s \in Slots
  BY DEF OpenLeg, Leg, SlotFor
<1>2. ASSUME NEW x \in BuildState(n).rules, x.pref = 102
      PROVE  \E s \in Slots : x.mark = LinkMark(s) /\ x.table = LinkTable(s)
  <2>1. PICK m, p : x \in TargetSide(n, m, p, Programmers(m)).rules
    BY StateField, AcceptEmits
  <2>2. ~\E s, q : x = LegGuard(s, q)
    BY <1>2 DEF LegGuard
  <2>3. PICK s, q, f : OpenLeg(n, m, p, s, q, f) /\ x = LegRule(s, f)
    BY <2>1, <2>2, TargetEmits
  <2>. QED  BY <1>1, <2>3 DEF LegRule
<1>3. ASSUME NEW x \in BuildState(n).routes
      PROVE  \E s \in Slots : x.table = LinkTable(s) /\ x.dev = Dev(s)
  <2>1. PICK m, p : x \in TargetSide(n, m, p, Programmers(m)).routes
    BY StateField, AcceptEmits
  <2>2. PICK s, q, f : OpenLeg(n, m, p, s, q, f) /\ x = LegRoute(n, s, q, f)
    BY <2>1, TargetEmits
  <2>. QED  BY <1>1, <2>2 DEF LegRoute
<1>4. ASSUME NEW x \in BuildState(n).mangle, x.kind = "CtSave"
      PROVE  \E s : x.iface = Dev(s)
  <2>1. \A m, p, f : x # LegLoad(m, p, f)
    BY <1>4 DEF LegLoad
  <2>2. \A m, p, s, f : x # LegMark(m, p, s, f)
    BY <1>4 DEF LegMark
  <2>3. PICK s : x = LegSave(s)
    BY <1>4, <2>1, <2>2, MangleIs
  <2>. QED  BY <2>3 DEF LegSave
<1>. QED  BY <1>2, <1>3, <1>4, RenderIs DEF BySlot

-----------------------------------------------------------------------------
(* Replies of a State.                                                     *)

\* Who programs a mapping is accepted, and alone under Single.
LEMMA ProgrammersOf ==
  ASSUME NEW m, Programmers(m) # {}
  PROVE  /\ Accepted(m) /\ Endpoint(m) = ChooseEndpoint(m)
         /\ Programmers(m) = Candidate(m)
BY DEF Programmers, Endpoint

LEMMA SingleProgrammer ==
  ASSUME Objects, NEW m \in Existing, Of(m).class \notin Multi,
         NEW x \in Programmers(m), NEW y \in Programmers(m)
  PROVE  x = y
<1>1. x \in Serving(m) /\ y \in Serving(m)
  BY ProgrammersOf DEF Candidate
<1>2. \A v, w \in EndpointNode(m) : v = w
  <2>1. \A p, q \in Endpoint(m) : p = q
    BY OneEndpoint DEF Endpoint
  <2>. QED  BY <2>1 DEF EndpointNode
<1>3. \A v, w \in First(Accepting(m)) : v = w
  <2>1. Accepting(m) \in SUBSET Nat
    BY PortMapsAssumption DEF Accepting, Objects
  <2>. QED  BY <2>1, FirstOne DEF First
<1>. QED  BY <1>1, <1>2, <1>3 DEF Serving

\* The port the pod sees is in the mapping's selector of the pod.
LEMMA PodPortIn ==
  ASSUME Objects, NEW m \in Existing, NEW p \in ChooseEndpoint(m), NEW d,
         d.toPort = ToPort(m, p), NEW port \in PortSel(m).first .. PortSel(m).last
  PROVE  /\ PortAfter(d, port) \in PodSel(m, p).first .. PodSel(m, p).last
         /\ PodSel(m, p).proto = Of(m).proto
         /\ InSel(PodSel(m, p), Of(m).proto, PortAfter(d, port))
<1>1. ToPort(m, p) \in Nat
  BY PortMapsAssumption DEF ToPort, Objects, ChooseEndpoint, Candidates
<1>2. CASE ToPort(m, p) = 0
  <2>1. PortAfter(d, port) = port /\ PodSel(m, p) = PortSel(m)
    BY <1>2 DEF PortAfter, PodSel
  <2>. QED  BY <2>1 DEF PortSel, InSel
<1>3. CASE ToPort(m, p) # 0
  <2>1. /\ PortAfter(d, port) = ToPort(m, p)
        /\ PodSel(m, p) = [PortSel(m) EXCEPT !.first = ToPort(m, p), !.last = ToPort(m, p)]
    BY <1>3 DEF PortAfter, PodSel
  <2>2. /\ PodSel(m, p).first = ToPort(m, p) /\ PodSel(m, p).last = ToPort(m, p)
        /\ PodSel(m, p).proto = Of(m).proto
    BY <2>1 DEF PortSel
  <2>. QED  BY <1>1, <2>1, <2>2 DEF InSel
<1>. QED  BY <1>2, <1>3

\* A pod's port belongs to one mapping: those of one class have their ports
\* apart, and one that translates is alone on the Service port.
LEMMA OneMapping ==
  ASSUME Objects, OneClass, NEW a \in Existing, NEW b \in Existing,
         Accepted(a), Accepted(b), Of(a).proto = Of(b).proto,
         NEW p \in ChooseEndpoint(a), p \in ChooseEndpoint(b), NEW port,
         port \in PodSel(a, p).first .. PodSel(a, p).last,
         port \in PodSel(b, p).first .. PodSel(b, p).last
  PROVE  a = b
<1>. SUFFICES ASSUME a # b PROVE FALSE
  OBVIOUS
<1>1. Of(a).service = Of(b).service /\ p \in Candidates(a) /\ p \in Candidates(b)
  BY DEF ChooseEndpoint, Candidates
<1>2. Of(a).class = Of(b).class
  BY <1>1 DEF OneClass
<1>3. ~Translates(a) /\ ~Translates(b)
  BY <1>1, OneReturnRuleHolds DEF OneReturnRule
<1>4. ToPort(a, p) = 0 /\ ToPort(b, p) = 0
  BY <1>1, <1>3 DEF ToPort, Translates, DifferingPort
<1>5. port \in Of(a).first .. Of(a).last /\ port \in Of(b).first .. Of(b).last
  BY <1>4 DEF PodSel, PortSel
<1>6. Of(a).first .. Of(a).last \cap Of(b).first .. Of(b).last = {}
  BY <1>2, HeldDisjointHolds DEF HeldDisjoint
<1>. QED  BY <1>5, <1>6

\* A rule that may mark a reply of pod p is one of the mapping m the pod's
\* port belongs to.
LEMMA MarksOf ==
  ASSUME Objects, OneClass, NEW n \in Nodes, NEW m \in Existing, Accepted(m),
         NEW p \in ChooseEndpoint(m), NEW f, NEW port,
         InSel(PodSel(m, p), Of(m).proto, port),
         NEW x \in Marks(Render(n, BuildState(n)), Addr(p), f, Of(m).proto, port)
  PROVE  /\ Targets(n, m, p)
         /\ IF Of(m).class \in Multi THEN x = LegLoad(m, p, f)
            ELSE \E s, q : OpenLeg(n, m, p, s, q, f) /\ x = LegMark(m, p, s, f)
<1>1. /\ x \in BuildState(n).mangle /\ x.kind # "CtSave" /\ x.src = Addr(p) /\ x.fam = f
      /\ InSel(x.sel, Of(m).proto, port)
  BY RenderIs DEF Marks
<1>2. PICK o, r : Targets(n, o, r) /\
        IF Of(o).class \in Multi
          THEN \/ \E s, q, g : OpenLeg(n, o, r, s, q, g) /\ x = LegSave(s)
               \/ \E g : TargetFamily(n, o, r, g) /\ x = LegLoad(o, r, g)
          ELSE \E s, q, g : OpenLeg(n, o, r, s, q, g) /\ x = LegMark(o, r, s, g)
  BY <1>1, MangleIs
<1>3. ~\E s : x = LegSave(s)
  BY <1>1 DEF LegSave
<1>4. \/ Of(o).class \in Multi /\ x = LegLoad(o, r, f)
      \/ Of(o).class \notin Multi /\ \E s, q : OpenLeg(n, o, r, s, q, f) /\ x = LegMark(o, r, s, f)
  <2>1. CASE Of(o).class \in Multi
    <3>1. PICK g : x = LegLoad(o, r, g)
      BY <1>2, <1>3, <2>1
    <3>2. g = f
      BY <1>1, <3>1 DEF LegLoad
    <3>. QED  BY <2>1, <3>1, <3>2
  <2>2. CASE Of(o).class \notin Multi
    <3>1. PICK s, q, g : OpenLeg(n, o, r, s, q, g) /\ x = LegMark(o, r, s, g)
      BY <1>2, <2>2
    <3>2. g = f
      BY <1>1, <3>1 DEF LegMark
    <3>. QED  BY <2>2, <3>1, <3>2
  <2>. QED  BY <2>1, <2>2
<1>5. x.src = Addr(r) /\ x.sel = PodSel(o, r)
  BY <1>4 DEF LegLoad, LegMark
<1>6. r = p
  BY <1>1, <1>5 DEF Addr
<1>7. o \in Existing /\ p \in ChooseEndpoint(o) /\ Accepted(o)
  BY <1>2, <1>6, ProgrammersOf DEF Targets
<1>8. PodSel(o, p).proto = Of(o).proto
  BY DEF PodSel, PortSel
<1>9. Of(o).proto = Of(m).proto
  BY <1>1, <1>5, <1>6, <1>8 DEF InSel
<1>10. o = m
  BY <1>1, <1>5, <1>6, <1>7, <1>9, OneMapping DEF InSel
<1>. QED  BY <1>2, <1>4, <1>6, <1>10

\* Over the leg of slot s: the reply's mark is that of s, from one rule.
LEMMA LegReturns ==
  ASSUME Objects, PoolApart, OneClass, NEW n \in Nodes, NEW m, NEW p, Targets(n, m, p),
         NEW s, NEW q, NEW f, OpenLeg(n, m, p, s, q, f), NEW port,
         InSel(PodSel(m, p), Of(m).proto, port)
  PROVE  LET h == Render(n, BuildState(n)) IN
         /\ Marks(h, Addr(p), f, Of(m).proto, port) =
              {IF Of(m).class \in Multi THEN LegLoad(m, p, f) ELSE LegMark(m, p, s, f)}
         /\ Of(m).class \in Multi => Saved(h, Dev(s)) = {LinkMark(s)}
         /\ LegRule(s, f) \in h.rules /\ LegGuard(s, q) \in h.rules
         /\ LegRoute(n, s, q, f) \in h.routes
<1>. DEFINE h == Render(n, BuildState(n))
            M == Marks(h, Addr(p), f, Of(m).proto, port)
            one == IF Of(m).class \in Multi THEN LegLoad(m, p, f) ELSE LegMark(m, p, s, f)
<1>1. /\ h.mangle = BuildState(n).mangle /\ h.rules = BuildState(n).rules
      /\ h.routes = BuildState(n).routes
  BY RenderIs
<1>2. m \in Existing /\ p \in ChooseEndpoint(m) /\ Accepted(m) /\ Of(m).class \in Classes
  BY ProgrammersOf DEF Targets, Objects
<1>3. TargetFamily(n, m, p, f) /\ Leg(n, m, s, q)
  BY DEF OpenLeg, TargetFamily
<1>4. one \in h.mangle
  BY <1>1, <1>3, MangleIs
<1>5. one \in M
  <2>1. one.kind # "CtSave" /\ one.src = Addr(p) /\ one.fam = f /\ one.sel = PodSel(m, p)
    BY DEF LegLoad, LegMark
  <2>. HIDE DEF one, h
  <2>. QED  BY <1>4, <2>1 DEF Marks
<1>6. ASSUME NEW x \in M PROVE x = one
  <2>1. IF Of(m).class \in Multi THEN x = LegLoad(m, p, f)
        ELSE \E u, r : OpenLeg(n, m, p, u, r, f) /\ x = LegMark(m, p, u, f)
    BY <1>2, <1>6, MarksOf
  <2>2. ASSUME Of(m).class \notin Multi, NEW u, NEW r, OpenLeg(n, m, p, u, r, f) PROVE u = s
    <3>1. r = q
      BY <1>2, <1>3, <2>2, SingleProgrammer DEF OpenLeg, Leg
    <3>2. u \in SlotFor(Of(m).class, n, q) /\ s \in SlotFor(Of(m).class, n, q)
      BY <1>3, <2>2, <3>1 DEF OpenLeg, Leg
    <3>. QED  BY <1>2, <3>2, SlotUnique
  <2>. QED  BY <2>1, <2>2
<1>7. M = {one}
  <2>. HIDE DEF one, M
  <2>. QED  BY <1>5, <1>6
<1>8. ASSUME Of(m).class \in Multi PROVE Saved(h, Dev(s)) = {LinkMark(s)}
  <2>1. LegSave(s) \in h.mangle
    BY <1>1, <1>8, MangleIs
  <2>2. LegSave(s).kind = "CtSave" /\ LegSave(s).iface = Dev(s) /\ LegSave(s).mark = LinkMark(s)
    BY DEF LegSave
  <2>3. ASSUME NEW x \in h.mangle, x.kind = "CtSave", x.iface = Dev(s)
        PROVE  x.mark = LinkMark(s)
    <3>1. PICK u : x = LegSave(u)
      <4>1. \A o, r, g : x # LegLoad(o, r, g)
        BY <2>3 DEF LegLoad
      <4>2. \A o, r, u, g : x # LegMark(o, r, u, g)
        BY <2>3 DEF LegMark
      <4>. QED  BY <1>1, <2>3, <4>1, <4>2, MangleIs
    <3>2. u = s
      BY <2>3, <3>1 DEF LegSave, Dev
    <3>. QED  BY <3>1, <3>2 DEF LegSave
  <2>. HIDE DEF h
  <2>. QED  BY <2>1, <2>2, <2>3 DEF Saved
<1>9. LegRule(s, f) \in h.rules /\ LegGuard(s, q) \in h.rules
  <2>1. LegRule(s, f) \in TargetSide(n, m, p, Programmers(m)).rules
    BY TargetEmits
  <2>2. LegGuard(s, q) \in TargetSide(n, m, p, Programmers(m)).rules
    BY <1>3, TargetEmits
  <2>. QED  BY <1>1, <2>1, <2>2, StateField
<1>10. LegRoute(n, s, q, f) \in h.routes
  <2>1. LegRoute(n, s, q, f) \in TargetSide(n, m, p, Programmers(m)).routes
    BY TargetEmits
  <2>. QED  BY <1>1, <2>1, StateField
<1>. QED  BY <1>7, <1>8, <1>9, <1>10

\* To the pod from its own node: no rule of the mapping sets a link's mark.
LEMMA HereReturns ==
  ASSUME Objects, OneClass, NEW n \in Nodes, NEW m, NEW p, Accepts(n, m, p), PodNode[p] = n,
         NEW f, NEW port, InSel(PodSel(m, p), Of(m).proto, port),
         NEW x \in Marks(Render(n, BuildState(n)), Addr(p), f, Of(m).proto, port)
  PROVE  x.kind = "CtLoad"
<1>1. m \in Existing /\ p \in ChooseEndpoint(m) /\ Accepted(m) /\ n \in Programmers(m)
  BY ProgrammersOf DEF Accepts
<1>2. IF Of(m).class \in Multi THEN x = LegLoad(m, p, f)
      ELSE \E s, q : OpenLeg(n, m, p, s, q, f) /\ x = LegMark(m, p, s, f)
  BY <1>1, MarksOf
<1>3. ASSUME Of(m).class \notin Multi, NEW s, NEW q, OpenLeg(n, m, p, s, q, f) PROVE FALSE
  BY <1>1, <1>3, SingleProgrammer DEF OpenLeg, Leg
<1>. QED  BY <1>2, <1>3 DEF LegLoad

LEMMA HostReturnsHolds ==
  ASSUME Objects, PoolApart, PlainInterfaces, OneClass, NEW n \in Nodes
  PROVE  HostReturns(n, Render(n, BuildState(n)))
<1>. DEFINE h == Render(n, BuildState(n))
<1>1. h.links = BuildState(n).links /\ h.snap = BuildState(n).dnat
  BY RenderIs
<1>2. ASSUME NEW d \in BuildState(n).dnat, d.to = Addr(d.to[2]), PodNode[d.to[2]] = n,
             NEW port \in d.sel.first .. d.sel.last
      PROVE  IF d.iface[1] = "kup" THEN MarksBack(h, d, port) ELSE MarksNone(h, d, port)
  <2>. HIDE DEF h
  <2>1. ASSUME NEW m, NEW p, NEW i \in InterfacesFor(m, n), NEW f, Accepts(n, m, p),
               d = HereDnat(m, p, i, f)
        PROVE  d.iface[1] # "kup" /\ MarksNone(h, d, port)
    <3>1. i[1] # "kup" /\ m \in Existing /\ p \in ChooseEndpoint(m)
      BY <2>1, PlainFor DEF Accepts
    <3>2. /\ d.iface = i /\ d.fam = f /\ d.to = Addr(p) /\ d.sel = PortSel(m)
          /\ d.toPort = ToPort(m, p)
      BY <2>1 DEF HereDnat
    <3>3. PodNode[p] = n /\ d.sel.proto = Of(m).proto
      BY <1>2, <3>2 DEF Addr, PortSel
    <3>4. InSel(PodSel(m, p), Of(m).proto, PortAfter(d, port))
      BY <1>2, <3>1, <3>2, PodPortIn
    <3>5. \A x \in Marks(h, Addr(p), f, Of(m).proto, PortAfter(d, port)) : x.kind = "CtLoad"
      <4>1. ASSUME NEW x \in Marks(Render(n, BuildState(n)), Addr(p), f, Of(m).proto,
                                   PortAfter(d, port))
            PROVE  x.kind = "CtLoad"
        <5>. HIDE DEF h
        <5>1. PodNode[p] = n /\ Accepts(n, m, p)
          BY <2>1, <3>3
        <5>. QED  BY <3>4, <4>1, <5>1, HereReturns
      <4>. QED  BY <4>1 DEF h
    <3>. QED  BY <3>1, <3>2, <3>3, <3>5 DEF MarksNone
  <2>2. ASSUME NEW m, NEW p, NEW i \in InterfacesFor(m, n), NEW f, AcceptFamily(n, m, p, f),
               NEW s \in AcceptLink(m, n, PodNode[p]), d = AwayDnat(n, m, p, i, s, f)
        PROVE  FALSE
    <3>1. f \in Families /\ s \in Slots
      BY <2>2 DEF AcceptFamily, PodFamilies, Families, AcceptLink, SlotFor
    <3>2. d.to[1] = f
      BY <2>2, <3>1, EndIs DEF AwayDnat
    <3>. QED  BY <1>2, <3>1, <3>2 DEF Addr, Families
  <2>3. ASSUME NEW m, NEW p, Targets(n, m, p), NEW s, NEW q, NEW f,
               OpenLeg(n, m, p, s, q, f), d = LegDnat(n, m, p, s, q, f)
        PROVE  d.iface[1] = "kup" /\ MarksBack(h, d, port)
    <3>1. m \in Existing /\ p \in ChooseEndpoint(m) /\ Leg(n, m, s, q)
      BY <2>3 DEF Targets, OpenLeg
    <3>2. /\ d.iface = Dev(s) /\ d.fam = f /\ d.to = Addr(p) /\ d.sel = PortSel(m)
          /\ d.toPort = ToPort(m, p)
      BY <2>3 DEF LegDnat
    <3>3. d.iface[1] = "kup" /\ d.sel.proto = Of(m).proto
      BY <3>2 DEF Dev, PortSel
    <3>4. InSel(PodSel(m, p), Of(m).proto, PortAfter(d, port))
      BY <1>2, <3>1, <3>2, PodPortIn
    <3>5. PICK l \in h.links : l.slot = s /\ l.peer = q
      BY <1>1, <2>3, <3>1, LegThere
    <3>. DEFINE x == IF Of(m).class \in Multi THEN LegLoad(m, p, f) ELSE LegMark(m, p, s, f)
    <3>6. /\ Marks(h, Addr(p), f, Of(m).proto, PortAfter(d, port)) = {x}
          /\ Of(m).class \in Multi => Saved(h, Dev(s)) = {LinkMark(s)}
          /\ LegRule(s, f) \in h.rules
      <4>. DEFINE port1 == PortAfter(d, port)
      <4>1. InSel(PodSel(m, p), Of(m).proto, port1)
        BY <3>4
      <4>. HIDE DEF port1
      <4>2. /\ Marks(h, Addr(p), f, Of(m).proto, port1) = {x}
            /\ Of(m).class \in Multi => Saved(h, Dev(s)) = {LinkMark(s)}
            /\ LegRule(s, f) \in h.rules
        BY <2>3, <4>1, LegReturns DEF h
      <4>. QED  BY <4>2 DEF port1
    <3>7. \/ x.kind = "Mark" /\ x.mark = LinkMark(l.slot)
          \/ x.kind = "CtLoad" /\ Saved(h, Dev(l.slot)) = {LinkMark(l.slot)}
      BY <3>5, <3>6 DEF LegLoad, LegMark
    <3>8. /\ LegRule(s, f).pref = 102 /\ LegRule(s, f).mark = LinkMark(l.slot)
          /\ LegRule(s, f).fam = d.fam
      BY <3>2, <3>5 DEF LegRule
    <3>9. Marks(h, d.to, d.fam, d.sel.proto, PortAfter(d, port)) = {x} /\ d.iface = Dev(l.slot)
      BY <3>2, <3>3, <3>5, <3>6
    <3>. HIDE DEF x
    <3>. QED  BY <3>3, <3>6, <3>7, <3>8, <3>9 DEF MarksBack
  <2>. QED  BY <1>2, <2>1, <2>2, <2>3, DnatIs
<1>. QED  BY <1>1, <1>2 DEF HostReturns

-----------------------------------------------------------------------------
(* The hosts at any time.                                                  *)

HostsInv ==
  /\ PoolApart
  /\ DOMAIN host = Nodes /\ \A n \in Nodes : HostAgrees(n, host[n])

ReturnsInv == DOMAIN host = Nodes /\ \A n \in Nodes : HostReturns(n, host[n])

\* A host without rules promises nothing wrong.
LEMMA EmptyAgrees ==
  ASSUME NEW n
  PROVE  HostAgrees(n, Empty) /\ HostReturns(n, Empty)
BY DEF HostAgrees, LinksAgree, ByRole, Rendered, BySlot, HostReturns, Empty

LEMMA PassAgrees ==
  ASSUME Objects, PlainInterfaces, NEW n \in Nodes
  PROVE  HostAgrees(n, Render(n, BuildState(n)))
BY LinksAgreeHolds, ByRoleHolds, RenderedHolds, BySlotHolds DEF HostAgrees

\* What a step does to the hosts.
LEMMA HostStep ==
  ASSUME DOMAIN host = Nodes, [RPNext]_rpvars, NEW k \in Nodes
  PROVE  /\ DOMAIN host' = Nodes
         /\ host'[k] \in {host[k], Empty, Render(k, BuildState(k))}
<1>1. ASSUME NEW n \in Nodes, Pass(n)
      PROVE  DOMAIN host' = Nodes /\ host'[k] \in {host[k], Empty, Render(k, BuildState(k))}
  BY <1>1 DEF Pass
<1>2. ASSUME NEW n \in Nodes, Stop(n)
      PROVE  DOMAIN host' = Nodes /\ host'[k] \in {host[k], Empty, Render(k, BuildState(k))}
  BY <1>2 DEF Stop
<1>3. CASE host' = host
  BY <1>3
<1>. QED  BY <1>1, <1>2, <1>3 DEF RPNext, rpvars, ObjectChanges, LinkLands, LinkReleased

LEMMA PoolStep ==
  ASSUME PoolApart, [RPNext]_rpvars
  PROVE  PoolApart'
<1>1. CASE LinkLands
  <2>1. PICK s \in First({t \in Slots : pool[t] = Absent}), np \in NeededPairs :
          /\ \A t \in Slots : pool[t] # Key(np.class, np.peer, np.holder)
          /\ pool' = [pool EXCEPT ![s] = Key(np.class, np.peer, np.holder)]
    BY <1>1 DEF LinkLands
  <2>2. s \in Slots
    BY <2>1 DEF First
  <2>. QED  BY <2>1, <2>2 DEF PoolApart
<1>2. ASSUME NEW s \in Slots, LinkReleased(s) PROVE PoolApart'
  BY <1>2 DEF LinkReleased, PoolApart
<1>3. CASE pool' = pool
  BY <1>3 DEF PoolApart
<1>. QED  BY <1>1, <1>2, <1>3 DEF RPNext, rpvars, ObjectChanges, Pass, Stop

LEMMA HostsInit == RPInit => HostsInv /\ ReturnsInv
<1>. SUFFICES ASSUME RPInit PROVE HostsInv /\ ReturnsInv
  OBVIOUS
<1>1. PoolApart
  BY DEF RPInit, PoolApart
<1>2. DOMAIN host = Nodes /\ \A n \in Nodes : host[n] = Empty
  BY DEF RPInit
<1>. QED  BY <1>1, <1>2, EmptyAgrees DEF HostsInv, ReturnsInv

LEMMA HostsNext ==
  ASSUME PlainInterfaces
  PROVE  Objects /\ HostsInv /\ [RPNext]_rpvars => HostsInv'
<1>. SUFFICES ASSUME Objects, HostsInv, [RPNext]_rpvars PROVE HostsInv'
  OBVIOUS
<1>1. PoolApart'
  BY PoolStep DEF HostsInv
<1>2. ASSUME NEW k \in Nodes PROVE HostAgrees(k, host'[k])
  <2>1. host'[k] \in {host[k], Empty, Render(k, BuildState(k))}
    BY HostStep DEF HostsInv
  <2>. QED  BY <2>1, EmptyAgrees, PassAgrees DEF HostsInv
<1>3. DOMAIN host' = Nodes
  <2>1. CASE Nodes = {}
    BY <2>1 DEF RPNext, rpvars, ObjectChanges, LinkLands, LinkReleased, HostsInv
  <2>2. CASE Nodes # {}
    BY <2>2, HostStep DEF HostsInv
  <2>. QED  BY <2>1, <2>2
<1>. QED  BY <1>1, <1>2, <1>3 DEF HostsInv

LEMMA ReturnsNext ==
  ASSUME PlainInterfaces
  PROVE  Objects /\ HostsInv /\ OneClass /\ ReturnsInv /\ [RPNext]_rpvars => ReturnsInv'
<1>. SUFFICES ASSUME Objects, HostsInv, OneClass, ReturnsInv, [RPNext]_rpvars PROVE ReturnsInv'
  OBVIOUS
<1>1. ASSUME NEW k \in Nodes PROVE HostReturns(k, host'[k])
  <2>1. host'[k] \in {host[k], Empty, Render(k, BuildState(k))}
    BY HostStep DEF HostsInv
  <2>. QED  BY <2>1, EmptyAgrees, HostReturnsHolds DEF HostsInv, ReturnsInv
<1>2. DOMAIN host' = Nodes
  BY HostsNext DEF HostsInv
<1>. QED  BY <1>1, <1>2 DEF ReturnsInv

-----------------------------------------------------------------------------
(* The way of a packet.                                                    *)

LEMMA ArrivalIs ==
  ASSUME NEW a, NEW i, NEW f, NEW dst, NEW t, NEW port, NEW d
  PROVE  d \in Arrivals(a, i, f, dst, t, port) <=>
           \E r \in PreRouting(a, i, f, dst, t, port) :
             \/ /\ r.to[1] = "pod"
                /\ d = [pod |-> r.to[2], port |-> PortAfter(r, port), dev |-> Cni,
                        kept |-> Exempted(a, Cni, f, None, 0, r.to, PortAfter(r, port), t)]
             \/ /\ r.to[1] # "pod"
                /\ \E l \in Over(a, f, r) : \E q \in FarEnd(a, l) :
                     \E u \in Delivers(q, l, f, r, t, port) :
                       d = [pod |-> u.to[2], port |-> PortAfter(u, PortAfter(r, port)),
                            dev |-> Dev(l.slot),
                            kept |-> Exempted(a, Dev(l.slot), f, None, 0, r.to,
                                              PortAfter(r, port), t)]
<1>. DEFINE first == PreRouting(a, i, f, dst, t, port)
            kept(r, oif) == Exempted(a, oif, f, None, 0, r.to, PortAfter(r, port), t)
            here(r) == [pod |-> r.to[2], port |-> PortAfter(r, port), dev |-> Cni,
                        kept |-> kept(r, Cni)]
            away(r, l, u) == [pod |-> u.to[2], port |-> PortAfter(u, PortAfter(r, port)),
                              dev |-> Dev(l.slot), kept |-> kept(r, Dev(l.slot))]
            direct == {r \in first : r.to[1] = "pod"}
            into(r, l) == UNION {Delivers(q, l, f, r, t, port) : q \in FarEnd(a, l)}
<1>1. Arrivals(a, i, f, dst, t, port) =
        {here(r) : r \in direct} \cup
        UNION {UNION {{away(r, l, u) : u \in into(r, l)} : l \in Over(a, f, r)} :
               r \in first \ direct}
  BY DEF Arrivals
<1>2. \A r, l, u : u \in into(r, l) <=> \E q \in FarEnd(a, l) : u \in Delivers(q, l, f, r, t, port)
  OBVIOUS
<1>. HIDE DEF first, kept, here, away, into
<1>3. d \in Arrivals(a, i, f, dst, t, port) <=>
        \/ \E r \in direct : d = here(r)
        \/ \E r \in first \ direct : \E l \in Over(a, f, r) : \E u \in into(r, l) :
             d = away(r, l, u)
  <2>. HIDE DEF direct
  <2>. QED  BY <1>1
<1>4. d \in Arrivals(a, i, f, dst, t, port) <=>
        \E r \in first :
          \/ r.to[1] = "pod" /\ d = here(r)
          \/ /\ r.to[1] # "pod"
             /\ \E l \in Over(a, f, r) : \E q \in FarEnd(a, l) :
                  \E u \in Delivers(q, l, f, r, t, port) : d = away(r, l, u)
  BY <1>2, <1>3
<1>. QED  BY <1>4 DEF first, here, away, kept

LEMMA PreRoutingIn ==
  ASSUME NEW n, NEW i, NEW f, NEW dst, NEW t, NEW port,
         NEW r \in PreRouting(n, i, f, dst, t, port)
  PROVE  r \in host[n].dnat /\ r.iface = i /\ r.fam = f /\ InSel(r.sel, t, port)
BY DEF PreRouting

\* A rule that a packet meets stands in the State it was rendered from.
LEMMA SnapOf ==
  ASSUME HostsInv, NEW n \in Nodes, NEW r \in host[n].dnat
  PROVE  \E x \in host[n].snap :
           /\ r.iface = x.iface /\ r.fam = x.fam /\ r.sel = x.sel /\ r.to = x.to
           /\ r.toPort = x.toPort /\ x.fam \in Families
           /\ AcceptRule(n, host[n], x) \/ DeliverRule(n, host[n], x)
BY DEF HostsInv, HostAgrees, Rendered, ByRole

\* With the mark of a link that the node has a rule for, a reply goes to the
\* link's peer.
LEMMA MarkExits ==
  ASSUME HostsInv, NEW q \in Nodes, NEW k \in host[q].links, NEW f,
         NEW g \in host[q].rules, g.pref = 102, g.mark = LinkMark(k.slot), g.fam = f
  PROVE  ReplyExit(q, f, {LinkMark(k.slot)}) \subseteq {k.peer}
<1>. DEFINE s == k.slot
            tables == {r.table : r \in {x \in host[q].rules :
                                    x.pref = 102 /\ x.mark \in {LinkMark(s)} /\ x.fam = f}}
            devs == {t.dev : t \in {x \in host[q].routes : x.table \in tables /\ x.via[1] = f}}
            ways == {l \in host[q].links :
                       /\ Dev(l.slot) \in devs
                       /\ \E y \in host[q].rules :
                            y.pref = 101 /\ y.mark \in {LinkMark(s)} /\ y.to = l.peer}
<1>1. s \in Slots /\ BySlot(host[q]) /\ LinksAgree(q, host[q])
  BY DEF HostsInv, HostAgrees, LinksAgree
<1>2. \A u, v \in Slots : LinkMark(u) = LinkMark(v) \/ LinkTable(u) = LinkTable(v) => u = v
  <2>1. Slots \subseteq AllSlots
    BY ReturnPathAssumption DEF AllSlots
  <2>. QED  BY <2>1, NumbersApartHolds DEF NumbersApart
<1>3. tables # {} /\ tables \subseteq {LinkTable(s)}
  <2>1. g.table \in tables
    OBVIOUS
  <2>2. ASSUME NEW x \in host[q].rules, x.pref = 102, x.mark = LinkMark(s)
        PROVE  x.table = LinkTable(s)
    BY <1>1, <1>2, <2>2 DEF BySlot
  <2>. QED  BY <2>1, <2>2
<1>4. devs \subseteq {Dev(s)}
  <2>. HIDE DEF tables
  <2>1. ASSUME NEW x \in host[q].routes, x.table \in tables
        PROVE  x.dev = Dev(s)
    <3>1. x.table = LinkTable(s)
      BY <1>3, <2>1
    <3>. QED  BY <1>1, <1>2, <3>1 DEF BySlot
  <2>. QED  BY <2>1
<1>5. \A l \in ways : l.peer = k.peer
  <2>. HIDE DEF devs
  <2>1. \A l \in ways : l.slot = s
    BY <1>4 DEF Dev
  <2>. QED  BY <1>1, <2>1 DEF LinksAgree
<1>6. ReplyExit(q, f, {LinkMark(s)}) = UNION {FarEnd(q, l) : l \in ways}
  BY <1>3 DEF ReplyExit
<1>. HIDE DEF ways
<1>. QED  BY <1>5, <1>6 DEF FarEnd

\* One mangle rule for a reply: it decides.
LEMMA OneMark ==
  ASSUME NEW n, NEW p, NEW f, NEW t, NEW port, NEW ct, NEW x,
         Marks(host[n], Addr(p), f, t, port) = {x}
  PROVE  ReplyMark(n, p, f, t, port, ct) = IF x.kind = "Mark" THEN {x.mark} ELSE ct
<1>. DEFINE M == Marks(host[n], Addr(p), f, t, port)
            last == {r \in M : \A q \in M \ {r} : RunsAfter(r, q)}
<1>1. last = {x}
  BY DEF M
<1>2. ReplyMark(n, p, f, t, port, ct) = UNION {IF r.kind = "Mark" THEN {r.mark} ELSE ct : r \in last}
  BY DEF ReplyMark, Marks
<1>. HIDE DEF last
<1>. QED  BY <1>1, <1>2

\* A reply to what a pod's node took off a link goes back over it.
LEMMA LinkReply ==
  ASSUME HostsInv, ReturnsInv, NEW q \in Nodes, NEW k \in host[q].links,
         NEW u \in host[q].dnat, u.iface = Dev(k.slot), NEW t, NEW port, InSel(u.sel, t, port)
  PROVE  /\ PodNode[u.to[2]] = q
         /\ ReplyExit(q, u.fam, ReplyMark(q, u.to[2], u.fam, t, PortAfter(u, port),
                                          CtMark(q, Dev(k.slot)))) \subseteq {k.peer}
<1>. DEFINE p == u.to[2]
            ct == CtMark(q, Dev(k.slot))
            end == PortAfter(u, port)
<1>1. PICK x \in host[q].snap :
        /\ u.iface = x.iface /\ u.fam = x.fam /\ u.sel = x.sel /\ u.to = x.to
        /\ u.toPort = x.toPort
        /\ AcceptRule(q, host[q], x) \/ DeliverRule(q, host[q], x)
  BY SnapOf
<1>2. x.iface[1] = "kup"
  BY <1>1 DEF Dev
<1>3. x.to = Addr(p) /\ x.to[2] = p /\ PodNode[p] = q
  BY <1>1, <1>2 DEF AcceptRule, DeliverRule
<1>4. port \in x.sel.first .. x.sel.last /\ x.sel.proto = t /\ PortAfter(x, port) = end
  <2>1. InSel(x.sel, t, port)
    BY <1>1
  <2>2. PortAfter(x, port) = end
    BY <1>1 DEF PortAfter
  <2>. QED  BY <2>1, <2>2 DEF InSel
<1>5. HostReturns(q, host[q])
  BY DEF ReturnsInv
<1>6. MarksBack(host[q], x, port)
  BY <1>2, <1>3, <1>4, <1>5 DEF HostReturns
<1>7. PICK l, y :
        /\ l \in host[q].links /\ x.iface = Dev(l.slot)
        /\ Marks(host[q], x.to, x.fam, x.sel.proto, PortAfter(x, port)) = {y}
        /\ \/ y.kind = "Mark" /\ y.mark = LinkMark(l.slot)
           \/ y.kind = "CtLoad" /\ Saved(host[q], Dev(l.slot)) = {LinkMark(l.slot)}
        /\ \E g \in host[q].rules : g.pref = 102 /\ g.mark = LinkMark(l.slot) /\ g.fam = x.fam
  BY <1>6 DEF MarksBack
<1>8. l.slot = k.slot
  BY <1>1, <1>7 DEF Dev
<1>9. Marks(host[q], Addr(p), u.fam, t, end) = {y}
  BY <1>1, <1>3, <1>4, <1>7
<1>10. ct = Saved(host[q], Dev(k.slot))
  BY DEF CtMark, Saved
<1>. HIDE DEF p, ct, end
<1>11. ReplyMark(q, p, u.fam, t, end, ct) = {LinkMark(k.slot)}
  <2>1. ReplyMark(q, p, u.fam, t, end, ct) = IF y.kind = "Mark" THEN {y.mark} ELSE ct
    BY <1>9, OneMark
  <2>. QED  BY <1>7, <1>8, <1>10, <2>1
<1>12. ReplyExit(q, u.fam, {LinkMark(k.slot)}) \subseteq {k.peer}
  BY <1>1, <1>7, <1>8, MarkExits
<1>. QED  BY <1>3, <1>11, <1>12 DEF p, ct, end

\* Without a mark it takes the node's uplink.
LEMMA PlainExits ==
  ASSUME NEW n, NEW f
  PROVE  ReplyExit(n, f, {}) = {n}
BY DEF ReplyExit

\* A reply to what a pod's own node accepted has no mark.
LEMMA LocalReply ==
  ASSUME HostsInv, ReturnsInv, NEW a \in Nodes, NEW r \in host[a].dnat, r.iface[1] # "kup",
         r.to[1] = "pod", PodNode[r.to[2]] = a, NEW t, NEW port, InSel(r.sel, t, port)
  PROVE  ReplyMark(a, r.to[2], r.fam, t, PortAfter(r, port), CtMark(a, Cni)) = {}
<1>. DEFINE p == r.to[2]
            end == PortAfter(r, port)
<1>1. PICK x \in host[a].snap :
        /\ r.iface = x.iface /\ r.fam = x.fam /\ r.sel = x.sel /\ r.to = x.to
        /\ r.toPort = x.toPort /\ x.fam \in Families
        /\ AcceptRule(a, host[a], x) \/ DeliverRule(a, host[a], x)
  BY SnapOf
<1>2. x.to = Addr(p) /\ x.to[2] = p
  <2>1. \A l \in host[a].links : x.to # End(x.fam, l.slot, l.peer, a)
    <3>1. \A l \in host[a].links : End(x.fam, l.slot, l.peer, a)[1] = x.fam
      BY <1>1, EndIs DEF HostsInv, HostAgrees, LinksAgree
    <3>. QED  BY <1>1, <3>1 DEF Families
  <2>2. x.to = Addr(x.to[2])
    BY <1>1, <2>1 DEF AcceptRule, DeliverRule
  <2>. QED  BY <1>1, <2>2
<1>3. port \in x.sel.first .. x.sel.last /\ x.sel.proto = t /\ PortAfter(x, port) = end
  BY <1>1 DEF InSel, PortAfter
<1>4. MarksNone(host[a], x, port)
  BY <1>1, <1>2, <1>3 DEF ReturnsInv, HostReturns
<1>5. \A y \in Marks(host[a], Addr(p), r.fam, t, end) : y.kind = "CtLoad"
  BY <1>1, <1>2, <1>3, <1>4 DEF MarksNone
<1>6. CtMark(a, Cni) = {}
  <2>1. \A s : Dev(s) # Cni
    BY DEF Dev, Cni
  <2>. QED  BY <2>1 DEF CtMark, HostsInv, HostAgrees, BySlot
<1>. HIDE DEF p, end
<1>7. ReplyMark(a, p, r.fam, t, end, CtMark(a, Cni)) = {}
  BY <1>5, <1>6 DEF ReplyMark, Marks
<1>. QED  BY <1>7 DEF p, end

LEMMA RepliesReturnHolds ==
  ASSUME PlainInterfaces
  PROVE  HostsInv /\ ReturnsInv => RepliesReturn
<1>. SUFFICES ASSUME HostsInv, ReturnsInv, NEW a \in Nodes,
                     NEW i \in UNION {Ifaces[c][a] : c \in Classes},
                     NEW f \in Families, NEW t \in Protocols, NEW port \in Ports,
                     NEW dst \in LocalAddrs[a], NEW d \in Arrivals(a, i, f, dst, t, port),
                     d.dev # Cni \/ PodNode[d.pod] = a
              PROVE  Exit(d, f, t) \subseteq {a}
  BY DEF RepliesReturn
<1>1. i[1] # "kup"
  BY DEF PlainInterfaces
<1>2. PICK r \in PreRouting(a, i, f, dst, t, port) :
        \/ /\ r.to[1] = "pod"
           /\ d = [pod |-> r.to[2], port |-> PortAfter(r, port), dev |-> Cni,
                   kept |-> Exempted(a, Cni, f, None, 0, r.to, PortAfter(r, port), t)]
        \/ /\ r.to[1] # "pod"
           /\ \E l \in Over(a, f, r) : \E q \in FarEnd(a, l) :
                \E u \in Delivers(q, l, f, r, t, port) :
                  d = [pod |-> u.to[2], port |-> PortAfter(u, PortAfter(r, port)),
                       dev |-> Dev(l.slot),
                       kept |-> Exempted(a, Dev(l.slot), f, None, 0, r.to,
                                         PortAfter(r, port), t)]
  BY ArrivalIs
<1>3. r \in host[a].dnat /\ r.iface = i /\ r.fam = f /\ InSel(r.sel, t, port)
  BY PreRoutingIn
<1>4. CASE r.to[1] = "pod"
  <2>1. d.pod = r.to[2] /\ d.port = PortAfter(r, port) /\ d.dev = Cni
    BY <1>2, <1>4
  <2>2. PodNode[r.to[2]] = a
    BY <2>1
  <2>3. ReplyMark(a, r.to[2], r.fam, t, PortAfter(r, port), CtMark(a, Cni)) = {}
    <3>1. r.iface[1] # "kup"
      BY <1>1, <1>3
    <3>. QED  BY <1>3, <1>4, <2>2, <3>1, LocalReply
  <2>. QED  BY <1>3, <2>1, <2>2, <2>3, PlainExits DEF Exit
<1>5. CASE r.to[1] # "pod"
  <2>1. PICK l \in Over(a, f, r) : \E q \in FarEnd(a, l) :
          \E u \in Delivers(q, l, f, r, t, port) :
            /\ d.pod = u.to[2] /\ d.port = PortAfter(u, PortAfter(r, port))
            /\ d.dev = Dev(l.slot)
    BY <1>2, <1>5
  <2>2. PICK q, u :
          /\ q \in FarEnd(a, l) /\ u \in Delivers(q, l, f, r, t, port)
          /\ d.pod = u.to[2] /\ d.port = PortAfter(u, PortAfter(r, port))
          /\ d.dev = Dev(l.slot)
    BY <2>1
  <2>3. l \in host[a].links /\ q = l.peer
    BY <2>2 DEF Over, FarEnd
  <2>4. q \in Nodes
    BY <2>3 DEF HostsInv, HostAgrees, LinksAgree
  <2>5. PICK k \in host[q].links : k.slot = l.slot /\ k.peer = a
    BY <2>2 DEF FarEnd
  <2>. DEFINE port1 == PortAfter(r, port)
  <2>6. u \in host[q].dnat /\ u.iface = Dev(k.slot) /\ u.fam = f /\ InSel(u.sel, t, port1)
    BY <2>2, <2>5, PreRoutingIn DEF Delivers
  <2>. HIDE DEF port1
  <2>7. /\ PodNode[u.to[2]] = q
        /\ ReplyExit(q, u.fam, ReplyMark(q, u.to[2], u.fam, t, PortAfter(u, port1),
                                         CtMark(q, Dev(k.slot)))) \subseteq {k.peer}
    BY <2>4, <2>6, LinkReply
  <2>. QED  BY <2>2, <2>5, <2>6, <2>7 DEF Exit, port1
<1>. QED  BY <1>4, <1>5

-----------------------------------------------------------------------------
(* What a flow is counted for.                                             *)

\* The two kinds of rules are told apart by the device and by the address
\* they are pinned to.
LEMMA RolesApart ==
  ASSUME HostsInv, NEW n \in Nodes, NEW x \in host[n].snap
  PROVE  /\ AcceptRule(n, host[n], x) <=> x.dst = None
         /\ AcceptRule(n, host[n], x) <=> x.iface[1] # "kup"
         /\ DeliverRule(n, host[n], x) <=> x.dst # None
         /\ x.dst \notin LocalAddrs[n]
<1>1. x.fam \in Families /\ (AcceptRule(n, host[n], x) \/ DeliverRule(n, host[n], x))
  BY DEF HostsInv, HostAgrees, ByRole
<1>2. AcceptRule(n, host[n], x) => x.dst = None /\ x.iface[1] # "kup"
  BY DEF AcceptRule
<1>3. ASSUME DeliverRule(n, host[n], x)
      PROVE  x.iface[1] = "kup" /\ x.dst # None /\ x.dst \notin LocalAddrs[n]
  <2>1. PICK l \in host[n].links : x.iface = Dev(l.slot) /\ x.dst = End(x.fam, l.slot, n, l.peer)
    BY <1>3 DEF DeliverRule
  <2>2. l.slot \in Slots
    BY DEF HostsInv, HostAgrees, LinksAgree
  <2>3. x.dst # None /\ x.dst \notin LocalAddrs[n]
    BY <1>1, <2>1, <2>2, EndFree
  <2>. QED  BY <2>1, <2>3 DEF Dev
<1>4. None \notin LocalAddrs[n]
  BY LocalsAre
<1>. QED  BY <1>1, <1>2, <1>3, <1>4

\* The link a rule's target lies on is the one the rule was written for.
LEMMA OverIs ==
  ASSUME HostsInv, NEW a \in Nodes, NEW f, NEW r \in host[a].dnat, r.fam = f,
         r.iface[1] # "kup", r.to[1] # "pod", NEW l \in Over(a, f, r)
  PROVE  /\ l \in host[a].links /\ l.slot \in Slots /\ l.peer \in Nodes /\ f \in Families
         /\ r.to = End(f, l.slot, l.peer, a) /\ r.toPort = 0
<1>1. PICK x \in host[a].snap :
        /\ r.iface = x.iface /\ r.fam = x.fam /\ r.to = x.to /\ r.toPort = x.toPort
        /\ x.fam \in Families /\ AcceptRule(a, host[a], x)
  BY SnapOf, RolesApart
<1>2. r.to # Addr(r.to[2])
  BY DEF Addr
<1>3. PICK k \in host[a].links : r.to = End(f, k.slot, k.peer, a) /\ r.toPort = 0
  BY <1>1, <1>2 DEF AcceptRule
<1>4. l \in host[a].links /\ \E own \in l.addrs : own[1] = f /\ own[2] \div 2 = r.to[2] \div 2
  BY DEF Over
<1>5. PICK own \in l.addrs : own[1] = f /\ own[2] \div 2 = r.to[2] \div 2
  BY <1>4
<1>6. LinksAgree(a, host[a])
  BY DEF HostsInv, HostAgrees
<1>7. l.slot \in Slots /\ k.slot \in Slots /\ l.peer \in Nodes
  BY <1>4, <1>6 DEF LinksAgree
<1>8. PICK g \in Families : own = End(g, l.slot, a, l.peer)
  BY <1>4, <1>6 DEF LinksAgree
<1>9. g = f
  BY <1>5, <1>7, <1>8, EndIs
<1>. DEFINE base == IF f = "v4" THEN 8192 ELSE 32768
<1>10. own[2] \div 2 = base + l.slot /\ r.to[2] \div 2 = base + k.slot
  BY <1>3, <1>7, <1>8, <1>9, EndIs
<1>11. l.slot = k.slot
  <2>1. l.slot \in Nat /\ k.slot \in Nat
    BY <1>7, SlotNat
  <2>2. base \in Nat
    OBVIOUS
  <2>. HIDE DEF base
  <2>. QED  BY <1>5, <1>10, <2>1, <2>2
<1>12. l.peer = k.peer
  BY <1>4, <1>6, <1>11 DEF LinksAgree
<1>. QED  BY <1>1, <1>3, <1>4, <1>7, <1>11, <1>12

Roles(n, flow) == {Role(x) : x \in CountFlows(n, flow)}

\* Where the client comes in, the open rules have the flow, and all accept.
LEMMA CountedIn ==
  ASSUME HostsInv, NEW a \in Nodes, NEW r \in host[a].dnat, r.iface[1] # "kup",
         NEW f, r.fam = f, NEW t, NEW port, InSel(r.sel, t, port), NEW dst \in LocalAddrs[a]
  PROVE  Roles(a, Flow(f, t, port, dst, r)) = {"accept"}
<1>. DEFINE flow == Flow(f, t, port, dst, r)
            cands == {d \in host[a].snap : /\ d.fam = flow.fam /\ d.to = flow.replySrc
                                           /\ InSel(d.sel, flow.proto, flow.port)}
            pinned == {d \in cands : d.dst = flow.origDst}
            open == {d \in cands : d.dst = None}
<1>1. /\ flow.fam = f /\ flow.replySrc = r.to /\ flow.proto = t /\ flow.port = port
      /\ flow.origDst = dst
  BY DEF Flow
<1>. HIDE DEF flow
<1>2. PICK x \in host[a].snap :
        /\ r.iface = x.iface /\ r.fam = x.fam /\ r.sel = x.sel /\ r.to = x.to
        /\ AcceptRule(a, host[a], x)
  BY SnapOf, RolesApart
<1>3. x \in open
  BY <1>1, <1>2, RolesApart
<1>4. pinned = {}
  BY <1>1, RolesApart
<1>5. \A d \in open : d.iface[1] # "kup"
  BY RolesApart
<1>6. CountFlows(a, flow) = {d.iface : d \in open}
  BY <1>4 DEF CountFlows
<1>. HIDE DEF open
<1>7. Roles(a, flow) = {"accept"}
  BY <1>3, <1>5, <1>6 DEF Role, Roles
<1>. QED  BY <1>7 DEF flow

\* Where it comes off the link, the rules pinned to the link's own address
\* have it, and all deliver.
LEMMA CountedOut ==
  ASSUME HostsInv, NEW q \in Nodes, NEW k \in host[q].links, NEW d \in host[q].dnat,
         d.iface = Dev(k.slot), NEW flow, flow.fam = d.fam, flow.replySrc = d.to,
         flow.origDst = End(d.fam, k.slot, q, k.peer), InSel(d.sel, flow.proto, flow.port)
  PROVE  Roles(q, flow) = {"deliver"}
<1>. DEFINE cands == {x \in host[q].snap : /\ x.fam = flow.fam /\ x.to = flow.replySrc
                                           /\ InSel(x.sel, flow.proto, flow.port)}
            pinned == {x \in cands : x.dst = flow.origDst}
<1>1. PICK x \in host[q].snap :
        /\ d.iface = x.iface /\ d.fam = x.fam /\ d.sel = x.sel /\ d.to = x.to
        /\ x.fam \in Families /\ (AcceptRule(q, host[q], x) \/ DeliverRule(q, host[q], x))
  BY SnapOf
<1>2. DeliverRule(q, host[q], x)
  BY <1>1 DEF AcceptRule, Dev
<1>3. x.dst = flow.origDst
  <2>1. PICK l \in host[q].links : x.iface = Dev(l.slot) /\ x.dst = End(x.fam, l.slot, q, l.peer)
    BY <1>2 DEF DeliverRule
  <2>2. l.slot = k.slot
    BY <1>1, <2>1 DEF Dev
  <2>3. l.peer = k.peer
    BY <2>2 DEF HostsInv, HostAgrees, LinksAgree
  <2>. QED  BY <1>1, <2>1, <2>2, <2>3
<1>4. flow.origDst # None
  BY <1>2, <1>3, RolesApart
<1>5. x \in pinned
  BY <1>1, <1>3
<1>6. \A y \in pinned : y.iface[1] = "kup"
  BY <1>4, RolesApart
<1>7. CountFlows(q, flow) = {y.iface : y \in pinned}
  BY <1>5 DEF CountFlows
<1>. HIDE DEF pinned
<1>. QED  BY <1>5, <1>6, <1>7 DEF Role, Roles

LEMMA FlowsByRoleHolds ==
  ASSUME PlainInterfaces
  PROVE  HostsInv => FlowsByRole
<1>. SUFFICES ASSUME HostsInv, NEW a \in Nodes,
                     NEW i \in UNION {Ifaces[c][a] : c \in Classes},
                     NEW f \in Families, NEW t \in Protocols, NEW port \in Ports,
                     NEW dst \in LocalAddrs[a], NEW r \in PreRouting(a, i, f, dst, t, port)
              PROVE  /\ Roles(a, Flow(f, t, port, dst, r)) = {"accept"}
                     /\ r.to[1] # "pod" =>
                          \A l \in Over(a, f, r) : \A q \in FarEnd(a, l) :
                            \A d \in Delivers(q, l, f, r, t, port) :
                              Roles(q, Flow(f, t, port, r.to, d)) = {"deliver"}
  BY DEF FlowsByRole, Roles
<1>1. i[1] # "kup"
  BY DEF PlainInterfaces
<1>2. r \in host[a].dnat /\ r.iface = i /\ r.fam = f /\ InSel(r.sel, t, port)
  BY PreRoutingIn
<1>3. r.iface[1] # "kup"
  BY <1>1, <1>2
<1>4. Roles(a, Flow(f, t, port, dst, r)) = {"accept"}
  BY <1>2, <1>3, CountedIn
<1>5. ASSUME r.to[1] # "pod", NEW l \in Over(a, f, r), NEW q \in FarEnd(a, l),
             NEW d \in Delivers(q, l, f, r, t, port)
      PROVE  Roles(q, Flow(f, t, port, r.to, d)) = {"deliver"}
  <2>1. /\ l \in host[a].links /\ l.peer \in Nodes
        /\ r.to = End(f, l.slot, l.peer, a) /\ r.toPort = 0
    BY <1>2, <1>3, <1>5, OverIs
  <2>2. q = l.peer /\ \E k \in host[q].links : k.slot = l.slot /\ k.peer = a
    BY DEF FarEnd
  <2>3. PICK k \in host[q].links : k.slot = l.slot /\ k.peer = a
    BY <2>2
  <2>4. PortAfter(r, port) = port
    BY <2>1 DEF PortAfter
  <2>5. d \in host[q].dnat /\ d.iface = Dev(k.slot) /\ d.fam = f /\ InSel(d.sel, t, port)
    BY <2>3, <2>4, PreRoutingIn DEF Delivers
  <2>6. q \in Nodes /\ r.to = End(f, k.slot, q, k.peer)
    BY <2>1, <2>2, <2>3
  <2>. DEFINE flow == Flow(f, t, port, r.to, d)
  <2>7. /\ flow.fam = f /\ flow.replySrc = d.to /\ flow.proto = t /\ flow.port = port
        /\ flow.origDst = r.to
    BY DEF Flow
  <2>. HIDE DEF flow
  <2>8. Roles(q, flow) = {"deliver"}
    BY <2>5, <2>6, <2>7, CountedOut
  <2>. QED  BY <2>8 DEF flow
<1>. QED  BY <1>4, <1>5

-----------------------------------------------------------------------------
(* The rule a packet meets on a host that is up to date.                   *)

UpToDate(n) == host[n] = Render(n, BuildState(n))

\* kup-steer knows every address that has a stand-in.
LEMMA SteersTo ==
  ASSUME NEW n, UpToDate(n), NEW d \in BuildState(n).dnat, NEW t, NEW port,
         InSel(d.sel, t, port), NEW dst \in Locals(n, host[n].links), dst[1] = d.fam,
         NEW v \in StandIn(Locals(n, host[n].links), dst)
  PROVE  v \in Steered(n, d.iface, d.fam, dst, t, port)
<1>. DEFINE st == BuildState(n)
            L == Locals(n, st.links)
            pairs == UNION {{x} \X StandIn(L, x) : x \in L}
            steered == {r \in st.dnat : \E x \in pairs : x[1][1] = r.fam}
            rule == [iface |-> d.iface, fam |-> d.fam, sel |-> d.sel]
<1>1. L = Locals(n, host[n].links)
  BY RenderIs DEF UpToDate
<1>2. /\ host[n].steer = {[iface |-> r.iface, fam |-> r.fam, sel |-> r.sel] : r \in steered}
      /\ host[n].map = {x \in pairs : \E r \in steered : r.fam = x[1][1]}
  BY DEF UpToDate, Render, Empty
<1>. HIDE DEF st, L
<1>3. <<dst, v>> \in pairs
  BY <1>1
<1>4. <<dst, v>>[1] = dst /\ <<dst, v>>[2] = v
  OBVIOUS
<1>. HIDE DEF pairs
<1>5. d \in steered
  BY <1>3, <1>4 DEF st
<1>. HIDE DEF steered
<1>6. rule \in host[n].steer /\ rule.iface = d.iface /\ rule.fam = d.fam /\ rule.sel = d.sel
  BY <1>2, <1>5
<1>7. <<dst, v>> \in host[n].map
  BY <1>2, <1>3, <1>4, <1>5
<1>. HIDE DEF rule
<1>. QED  BY <1>4, <1>6, <1>7 DEF Steered

\* The one rule of its device, family and port is the one a packet meets.
OneRule(n, d, t, port) ==
  /\ d \in BuildState(n).dnat /\ d.sel.first \in Nat /\ InSel(d.sel, t, port)
  /\ \A x \in BuildState(n).dnat :
       x.iface = d.iface /\ x.fam = d.fam /\ InSel(x.sel, t, port) => x = d

LEMMA MeetsRule ==
  ASSUME NEW n, UpToDate(n), NEW d, NEW t, NEW port, OneRule(n, d, t, port),
         NEW dst \in Locals(n, host[n].links), dst[1] = d.fam,
         StandIn(Locals(n, host[n].links), dst) # {},
         \/ d.dst = None /\ None \notin Locals(n, host[n].links)
         \/ d.dst = dst
  PROVE  PreRouting(n, d.iface, d.fam, dst, t, port) = {Pinned(Locals(n, host[n].links), d)}
<1>. DEFINE L == Locals(n, host[n].links)
            r == Pinned(L, d)
            S == Steered(n, d.iface, d.fam, dst, t, port)
            matching == {x \in host[n].dnat :
                           /\ x.iface = d.iface /\ x.fam = d.fam /\ InSel(x.sel, t, port)
                           /\ \E v \in S : x.dst \in {None, v}}
<1>1. /\ d \in BuildState(n).dnat /\ d.sel.first \in Nat /\ InSel(d.sel, t, port)
      /\ \A x \in BuildState(n).dnat :
           x.iface = d.iface /\ x.fam = d.fam /\ InSel(x.sel, t, port) => x = d
  BY DEF OneRule
<1>2. host[n].dnat = {Pinned(L, x) : x \in BuildState(n).dnat}
  BY RenderIs DEF UpToDate
<1>3. /\ r.iface = d.iface /\ r.fam = d.fam /\ r.sel = d.sel
      /\ \A x \in BuildState(n).dnat : /\ Pinned(L, x).iface = x.iface
                                       /\ Pinned(L, x).fam = x.fam /\ Pinned(L, x).sel = x.sel
  BY <1>1, PinnedKeeps
<1>4. \A v \in StandIn(L, dst) : v \in S
  BY <1>1, SteersTo
<1>5. \E v \in S : r.dst \in {None, v}
  <2>1. CASE d.dst = None /\ None \notin L
    <3>1. r = d
      BY <2>1 DEF Pinned
    <3>. QED  BY <1>4, <2>1, <3>1
  <2>2. CASE d.dst = dst
    <3>. DEFINE w == CHOOSE v \in StandIn(L, d.dst) : TRUE
    <3>1. w \in StandIn(L, dst)
      BY <2>2
    <3>2. r = [d EXCEPT !.dst = w]
      BY <2>2 DEF Pinned
    <3>3. r.dst = w
      <4>1. \E i, f, a, s, x, u :
              d = [iface |-> i, fam |-> f, dst |-> a, sel |-> s, to |-> x, toPort |-> u]
        BY <1>1, DnatIs DEF HereDnat, AwayDnat, LegDnat
      <4>. HIDE DEF w, r
      <4>. QED  BY <3>2, <4>1
    <3>. HIDE DEF w, r
    <3>. QED  BY <1>4, <3>1, <3>3
  <2>. QED  BY <2>1, <2>2
<1>. HIDE DEF L, S
<1>6. matching = {r}
  <2>1. r \in matching
    <3>1. r \in host[n].dnat
      BY <1>1, <1>2
    <3>. HIDE DEF r
    <3>. QED  BY <1>1, <1>3, <1>5, <3>1
  <2>2. ASSUME NEW x \in matching PROVE x = r
    <3>1. PICK y \in BuildState(n).dnat : x = Pinned(L, y)
      BY <1>2, <2>2
    <3>2. y.iface = d.iface /\ y.fam = d.fam /\ InSel(y.sel, t, port)
      BY <1>3, <2>2, <3>1
    <3>. QED  BY <1>1, <3>1, <3>2
  <2>. QED  BY <2>1, <2>2
<1>7. PreRouting(n, d.iface, d.fam, dst, t, port) =
        {x \in matching : \A q \in matching : x.sel.first <= q.sel.first}
  BY DEF PreRouting, S
<1>8. r.sel.first <= r.sel.first
  BY <1>1, <1>3
<1>. HIDE DEF matching, r
<1>. QED  BY <1>6, <1>7, <1>8 DEF r, L

-----------------------------------------------------------------------------
(* What more is asked of a cluster for Programmed=True to mean service.    *)

\* The nodes a class names could read the MTU of their underlays: 0 stands for
\* one that could not (agent.go:342).  Nothing is asked of a pod's node.
UnderlaysKnown == \A c \in Classes : \A n \in ClassNodes[c] : MTU[n] # 0

\* Classes that share an interface of a node do not accept the same port: the
\* conflicts are resolved within a class.
PortsApart ==
  \A a, b \in Existing :
    /\ Accepted(a) /\ Accepted(b)
    /\ Of(a).class # Of(b).class /\ Of(a).proto = Of(b).proto
    /\ \E n \in Nodes : InterfacesFor(a, n) \cap InterfacesFor(b, n) # {}
    => Of(a).first .. Of(a).last \cap Of(b).first .. Of(b).last = {}

\* No node has more addresses than there are stand-ins for.
StandInsSuffice ==
  \A n \in Nodes : \A x \in Locals(n, host[n].links) :
    StandIn(Locals(n, host[n].links), x) # {}

\* The links of a host are in the pool, and a host that sends what comes in to
\* the far end of one has a row in the link's class.
Reported ==
  \A n \in Nodes : \A l \in host[n].links :
    /\ pool[l.slot] # Absent
    /\ \A d \in host[n].snap :
         d.to = End(d.fam, l.slot, l.peer, n) => <<pool[l.slot].class, n>> \in rows

\* Who programs a mapping accepts for its class.
LEMMA ProgrammersIn ==
  ASSUME Objects, NEW m \in Existing, NEW n \in Programmers(m)
  PROVE  n \in Nodes /\ n \in Accepting(m) /\ n \in ClassNodes[Of(m).class] \cap nodes
<1>1. Accepting(m) \subseteq Nodes
  BY DEF Accepting, Objects
<1>2. \A v, w \in EndpointNode(m) : v = w
  <2>1. \A p, q \in Endpoint(m) : p = q
    BY OneEndpoint DEF Endpoint
  <2>. QED  BY <2>1 DEF EndpointNode
<1>3. n \in Accepting(m) \/ n \in Serving(m)
  BY ProgrammersOf DEF Candidate
<1>4. n \in Accepting(m)
  BY <1>2, <1>3 DEF Serving, First
<1>. QED  BY <1>1, <1>4 DEF Accepting

\* What the end with a row can carry, the other end can too: one without a row
\* takes any link for large enough.
LEMMA CarriesBack ==
  ASSUME UnderlaysKnown, NEW c \in Classes, NEW x \in ClassNodes[c], NEW y \in Nodes,
         <<c, x>> \in rows, NEW f, LinkCarries(f, c, x, y)
  PROVE  LinkCarries(f, c, y, x)
<1>1. x \in Nodes /\ MTU[x] \in Nat \ {0} /\ MTU[y] \in Nat
  BY PortMapsAssumption, ReturnPathAssumption DEF UnderlaysKnown
<1>2. Underlay(c, x) = MTU[x] /\ Underlay(c, y) \in Nat
  BY <1>1 DEF Underlay
<1>3. CASE Underlay(c, y) = 0
  <2>1. HasIPv6(0, MTU[x], TRUE)
    BY <1>1 DEF HasIPv6, LinkMTU, VxlanOverhead
  <2>. QED  BY <1>2, <1>3, <2>1 DEF LinkCarries
<1>4. CASE Underlay(c, y) # 0
  <2>1. HasIPv6(MTU[x], Underlay(c, y), TRUE) = HasIPv6(Underlay(c, y), MTU[x], TRUE)
    BY <1>1, <1>2, <1>4, EndsAgreeHolds DEF EndsAgree
  <2>. QED  BY <1>2, <2>1 DEF LinkCarries
<1>. QED  BY <1>3, <1>4

LEMMA LocalsFree ==
  ASSUME HostsInv, NEW n \in Nodes
  PROVE  None \notin Locals(n, host[n].links)
<1>1. None \notin LocalAddrs[n]
  BY LocalsAre
<1>2. ASSUME NEW l \in host[n].links, NEW x \in l.addrs PROVE x # None
  <2>1. l.slot \in Slots /\ \E f \in Families : x = End(f, l.slot, n, l.peer)
    BY DEF HostsInv, HostAgrees, LinksAgree
  <2>. QED  BY <2>1, EndFree
<1>. QED  BY <1>1, <1>2 DEF Locals

\* A port of an interface belongs to one mapping.
LEMMA OnePort ==
  ASSUME Objects, PortsApart, NEW n \in Nodes, NEW a \in Existing, NEW b \in Existing,
         Accepted(a), Accepted(b), Of(a).proto = Of(b).proto,
         NEW i \in InterfacesFor(a, n), i \in InterfacesFor(b, n),
         NEW port \in Of(a).first .. Of(a).last, port \in Of(b).first .. Of(b).last
  PROVE  a = b
<1>1. Of(a).first .. Of(a).last \cap Of(b).first .. Of(b).last # {}
  OBVIOUS
<1>2. Of(a).class = Of(b).class
  BY <1>1 DEF PortsApart
<1>. QED  BY <1>1, <1>2, HeldDisjointHolds DEF HeldDisjoint

\* The rule of node n for a port of an interface of mapping m.
LEMMA AcceptOnly ==
  ASSUME Objects, PlainInterfaces, PortsApart, NEW n \in Nodes, NEW m, NEW p,
         Accepts(n, m, p), NEW d \in BuildState(n).dnat, d.iface \in InterfacesFor(m, n),
         NEW port \in Of(m).first .. Of(m).last, InSel(d.sel, Of(m).proto, port)
  PROVE  \/ AcceptLink(m, n, PodNode[p]) = {} /\ d = HereDnat(m, p, d.iface, d.fam)
         \/ \E s \in AcceptLink(m, n, PodNode[p]) : d = AwayDnat(n, m, p, d.iface, s, d.fam)
<1>1. m \in Existing /\ Accepted(m) /\ p \in ChooseEndpoint(m)
  BY ProgrammersOf DEF Accepts
<1>2. d.iface[1] # "kup"
  BY <1>1, PlainFor
<1>3. ASSUME NEW o, NEW r, Accepts(n, o, r), d.iface \in InterfacesFor(o, n), d.sel = PortSel(o)
      PROVE  o = m /\ r = p
  <2>1. o \in Existing /\ Accepted(o) /\ r \in ChooseEndpoint(o)
    BY <1>3, ProgrammersOf DEF Accepts
  <2>2. Of(o).proto = Of(m).proto /\ port \in Of(o).first .. Of(o).last
    BY <1>3 DEF InSel, PortSel
  <2>3. o = m
    BY <1>1, <1>3, <2>1, <2>2, OnePort
  <2>. QED  BY <1>1, <2>1, <2>3, OneEndpoint
<1>4. ASSUME NEW o, NEW r, Accepts(n, o, r), AcceptLink(o, n, PodNode[r]) = {},
             NEW i \in InterfacesFor(o, n), NEW f, d = HereDnat(o, r, i, f)
      PROVE  AcceptLink(m, n, PodNode[p]) = {} /\ d = HereDnat(m, p, d.iface, d.fam)
  <2>1. d.iface = i /\ d.fam = f /\ d.sel = PortSel(o)
    BY <1>4 DEF HereDnat
  <2>. QED  BY <1>3, <1>4, <2>1
<1>5. ASSUME NEW o, NEW r, Accepts(n, o, r), NEW i \in InterfacesFor(o, n), NEW f,
             NEW s \in AcceptLink(o, n, PodNode[r]), d = AwayDnat(n, o, r, i, s, f)
      PROVE  \E u \in AcceptLink(m, n, PodNode[p]) : d = AwayDnat(n, m, p, d.iface, u, d.fam)
  <2>1. d.iface = i /\ d.fam = f /\ d.sel = PortSel(o)
    BY <1>5 DEF AwayDnat
  <2>. QED  BY <1>3, <1>5, <2>1
<1>6. ASSUME NEW o, NEW r, NEW s, NEW q, NEW f, d = LegDnat(n, o, r, s, q, f) PROVE FALSE
  BY <1>2, <1>6 DEF LegDnat, Dev
<1>7. CASE \E o, r : /\ Accepts(n, o, r) /\ AcceptLink(o, n, PodNode[r]) = {}
                    /\ \E i \in InterfacesFor(o, n) : \E f :
                         AcceptFamily(n, o, r, f) /\ d = HereDnat(o, r, i, f)
  BY <1>4, <1>7
<1>8. CASE \E o, r : /\ Accepts(n, o, r)
                    /\ \E i \in InterfacesFor(o, n) : \E f :
                         /\ AcceptFamily(n, o, r, f)
                         /\ \E s \in AcceptLink(o, n, PodNode[r]) : d = AwayDnat(n, o, r, i, s, f)
  BY <1>5, <1>8
<1>9. CASE \E o, r : /\ Targets(n, o, r)
                    /\ \E s, q, f : OpenLeg(n, o, r, s, q, f) /\ d = LegDnat(n, o, r, s, q, f)
  BY <1>6, <1>9
<1>. QED  BY <1>7, <1>8, <1>9, DnatIs

\* The rule of the pod's node for what comes over the link in slot s: the
\* slot's key has the class, and the class gave the port to one mapping.
LEMMA DeliverOnly ==
  ASSUME Objects, PlainInterfaces, NEW n \in Nodes, NEW m, NEW p, Targets(n, m, p),
         NEW s, NEW q, Leg(n, m, s, q), NEW d \in BuildState(n).dnat, d.iface = Dev(s),
         NEW port \in Of(m).first .. Of(m).last, InSel(d.sel, Of(m).proto, port)
  PROVE  d = LegDnat(n, m, p, s, q, d.fam)
<1>1. m \in Existing /\ Accepted(m) /\ p \in ChooseEndpoint(m)
  BY ProgrammersOf DEF Targets
<1>2. d.iface[1] = "kup"
  BY DEF Dev
<1>3. ASSUME NEW o, NEW r, Accepts(n, o, r), NEW i \in InterfacesFor(o, n), NEW f, NEW u,
             d = HereDnat(o, r, i, f) \/ d = AwayDnat(n, o, r, i, u, f)
      PROVE  FALSE
  <2>1. i[1] # "kup"
    BY <1>3, PlainFor DEF Accepts
  <2>2. d.iface = i
    BY <1>3 DEF HereDnat, AwayDnat
  <2>. QED  BY <1>2, <2>1, <2>2
<1>4. PICK o, r : Targets(n, o, r) /\
        \E u, v, f : OpenLeg(n, o, r, u, v, f) /\ d = LegDnat(n, o, r, u, v, f)
  BY <1>3, DnatIs
<1>5. PICK u, v, f : OpenLeg(n, o, r, u, v, f) /\ d = LegDnat(n, o, r, u, v, f)
  BY <1>4
<1>6. d.iface = Dev(u) /\ d.fam = f /\ d.sel = PortSel(o)
  BY <1>5 DEF LegDnat
<1>7. u = s
  BY <1>6 DEF Dev
<1>8. Of(o).class = Of(m).class /\ v = q
  <2>1. s \in SlotFor(Of(m).class, n, q) /\ s \in SlotFor(Of(o).class, n, v)
    BY <1>5, <1>7 DEF OpenLeg, Leg
  <2>. QED  BY <2>1, SlotPeer
<1>9. o \in Existing /\ Accepted(o) /\ r \in ChooseEndpoint(o)
  BY <1>4, ProgrammersOf DEF Targets
<1>10. Of(o).proto = Of(m).proto /\ port \in Of(o).first .. Of(o).last
  BY <1>6 DEF InSel, PortSel
<1>11. o = m
  <2>1. Of(o).first .. Of(o).last \cap Of(m).first .. Of(m).last # {}
    BY <1>10
  <2>. QED  BY <1>1, <1>8, <1>9, <1>10, <2>1, HeldDisjointHolds DEF HeldDisjoint
<1>12. r = p
  BY <1>1, <1>9, <1>11, OneEndpoint
<1>. QED  BY <1>5, <1>6, <1>7, <1>8, <1>11, <1>12

\* Where the pod's reply leaves when its request came by the link in slot s.
ExitOver(e, m, p, s, f, port) ==
  ReplyExit(e, f, ReplyMark(e, p, f, Of(m).proto, port, CtMark(e, Dev(s))))

\* Replies that may take the leg of slot s arrive at its far end.
LEMMA LegExit ==
  ASSUME Objects, HostsInv, OneClass, NEW e \in Nodes, UpToDate(e), NEW m, NEW p,
         Targets(e, m, p), NEW s, NEW a, NEW f, OpenLeg(e, m, p, s, a, f), NEW port,
         InSel(PodSel(m, p), Of(m).proto, port),
         NEW l \in host[a].links, l.slot = s, l.peer = e
  PROVE  ExitOver(e, m, p, s, f, port) = {a}
<1>. DEFINE ct == CtMark(e, Dev(s))
            mark == ReplyMark(e, p, f, Of(m).proto, port, ct)
            one == IF Of(m).class \in Multi THEN LegLoad(m, p, f) ELSE LegMark(m, p, s, f)
<1>1. PoolApart
  BY DEF HostsInv
<1>2. /\ Marks(host[e], Addr(p), f, Of(m).proto, port) = {one}
      /\ Of(m).class \in Multi => Saved(host[e], Dev(s)) = {LinkMark(s)}
      /\ LegRule(s, f) \in host[e].rules /\ LegGuard(s, a) \in host[e].rules
      /\ LegRoute(e, s, a, f) \in host[e].routes
  BY <1>1, LegReturns DEF UpToDate
<1>3. ct = Saved(host[e], Dev(s))
  BY DEF CtMark, Saved
<1>4. mark = {LinkMark(s)}
  <2>1. mark = IF one.kind = "Mark" THEN {one.mark} ELSE ct
    <3>. HIDE DEF one, ct
    <3>1. PICK t, x, c : t = Of(m).proto /\ x = one /\ c = ct
      OBVIOUS
    <3>2. Marks(host[e], Addr(p), f, t, port) = {x}
      BY <1>2, <3>1
    <3>3. ReplyMark(e, p, f, t, port, c) = IF x.kind = "Mark" THEN {x.mark} ELSE c
      BY <3>2, OneMark
    <3>. QED  BY <3>1, <3>3
  <2>. HIDE DEF ct, mark
  <2>. QED  BY <1>2, <1>3, <2>1 DEF LegLoad, LegMark
<1>5. Leg(e, m, s, a) /\ s \in Slots /\ f \in Families
  BY DEF OpenLeg, Leg, SlotFor, PodFamilies, Families
<1>6. PICK k \in host[e].links : k.slot = s /\ k.peer = a
  BY <1>5, LegThere, RenderIs DEF UpToDate
<1>. DEFINE tables == {r.table : r \in {x \in host[e].rules :
                                    x.pref = 102 /\ x.mark \in {LinkMark(s)} /\ x.fam = f}}
            devs == {t.dev : t \in {x \in host[e].routes : x.table \in tables /\ x.via[1] = f}}
            ways == {w \in host[e].links :
                       /\ Dev(w.slot) \in devs
                       /\ \E g \in host[e].rules :
                            g.pref = 101 /\ g.mark \in {LinkMark(s)} /\ g.to = w.peer}
<1>7. LinkTable(s) \in tables
  <2>1. /\ LegRule(s, f).pref = 102 /\ LegRule(s, f).mark = LinkMark(s)
        /\ LegRule(s, f).fam = f /\ LegRule(s, f).table = LinkTable(s)
    BY DEF LegRule
  <2>. QED  BY <1>2, <2>1
<1>8. Dev(s) \in devs
  <2>1. /\ LegRoute(e, s, a, f).table = LinkTable(s) /\ LegRoute(e, s, a, f).dev = Dev(s)
        /\ LegRoute(e, s, a, f).via[1] = f
    BY <1>5, EndIs DEF LegRoute
  <2>. HIDE DEF tables
  <2>. QED  BY <1>2, <1>7, <2>1
<1>9. k \in ways
  <2>1. LegGuard(s, a).pref = 101 /\ LegGuard(s, a).mark = LinkMark(s) /\ LegGuard(s, a).to = a
    BY DEF LegGuard
  <2>. HIDE DEF devs
  <2>. QED  BY <1>2, <1>6, <1>8, <2>1
<1>10. a \in FarEnd(e, k)
  BY <1>6 DEF FarEnd
<1>11. ReplyExit(e, f, {LinkMark(s)}) = UNION {FarEnd(e, w) : w \in ways}
  BY <1>7 DEF ReplyExit
<1>12. a \in ReplyExit(e, f, {LinkMark(s)})
  <2>. HIDE DEF ways
  <2>. QED  BY <1>9, <1>10, <1>11
<1>13. ReplyExit(e, f, {LinkMark(s)}) \subseteq {a}
  <2>1. LegRule(s, f).pref = 102 /\ LegRule(s, f).mark = LinkMark(k.slot) /\ LegRule(s, f).fam = f
    BY <1>6 DEF LegRule
  <2>2. ReplyExit(e, f, {LinkMark(k.slot)}) \subseteq {k.peer}
    BY <1>2, <2>1, MarkExits
  <2>. QED  BY <1>6, <2>2
<1>. HIDE DEF mark
<1>14. ReplyExit(e, f, mark) = {a}
  BY <1>4, <1>12, <1>13
<1>. QED  BY <1>14 DEF mark, ct, ExitOver

\* A request is served: it arrives, and wherever it does it is the chosen pod
\* at its port, the client's address kept, and the reply goes back.
Serves(m, p, a, i, f, dst, port) ==
  LET ds == Arrivals(a, i, f, dst, Of(m).proto, port) IN
  /\ ds # {}
  /\ \A d \in ds : /\ d.pod = p /\ d.kept
                   /\ InSel(PodSel(m, p), Of(m).proto, d.port)
                   /\ Exit(d, f, Of(m).proto) = {a}

\* By the pod's own node.
LEMMA HereServes ==
  ASSUME Objects, PlainInterfaces, HostsInv, ReturnsInv, PortsApart, StandInsSuffice,
         NEW m, NEW p, NEW a \in Nodes, Accepts(a, m, p), PodNode[p] = a, UpToDate(a),
         NEW i \in InterfacesFor(m, a), NEW port \in Of(m).first .. Of(m).last,
         NEW f \in PodFamilies(a, p), NEW dst \in LocalAddrs[a], dst[1] = f
  PROVE  Serves(m, p, a, i, f, dst, port)
<1>. DEFINE rule == HereDnat(m, p, i, f)
            L == Locals(a, host[a].links)
            r == Pinned(L, rule)
            t == Of(m).proto
            end == PortAfter(r, port)
<1>1. m \in Existing /\ p \in ChooseEndpoint(m) /\ i[1] # "kup" /\ Of(m).first \in Nat
  BY PlainFor DEF Accepts, Objects
<1>2. AcceptLink(m, a, PodNode[p]) = {}
  BY DEF AcceptLink
<1>3. rule \in BuildState(a).dnat
  <2>1. AcceptFamily(a, m, p, f)
    BY <1>2 DEF AcceptFamily
  <2>. QED  BY <1>2, <2>1, DnatIs
<1>4. /\ rule.iface = i /\ rule.fam = f /\ rule.dst = None /\ rule.sel = PortSel(m)
      /\ rule.to = Addr(p) /\ rule.toPort = ToPort(m, p)
  BY DEF HereDnat
<1>5. InSel(PortSel(m), t, port) /\ PortSel(m).first = Of(m).first
  BY DEF InSel, PortSel
<1>6. ASSUME NEW x \in BuildState(a).dnat, x.iface = i, x.fam = f, InSel(x.sel, t, port)
      PROVE  x = rule
  BY <1>2, <1>6, AcceptOnly
<1>7. dst \in L /\ StandIn(L, dst) # {} /\ None \notin L
  BY LocalsFree DEF Locals, StandInsSuffice
<1>. HIDE DEF rule, L, t
<1>8. PreRouting(a, i, f, dst, t, port) = {r}
  <2>1. OneRule(a, rule, t, port)
    BY <1>1, <1>3, <1>4, <1>5, <1>6 DEF OneRule
  <2>2. PICK d, u : d = rule /\ u = t
    OBVIOUS
  <2>3. PreRouting(a, d.iface, d.fam, dst, u, port) = {Pinned(L, d)}
    BY <1>4, <1>7, <2>1, <2>2, MeetsRule DEF L
  <2>. QED  BY <1>4, <2>2, <2>3
<1>9. /\ r \in host[a].dnat /\ r.iface = i /\ r.fam = f /\ r.sel = PortSel(m)
      /\ r.to = Addr(p) /\ r.toPort = ToPort(m, p)
  <2>1. r \in host[a].dnat
    BY <1>8, PreRoutingIn
  <2>. QED  BY <1>3, <1>4, <2>1, PinnedKeeps
<1>. HIDE DEF r
<1>10. r.to[1] = "pod" /\ r.to[2] = p
  BY <1>9 DEF Addr
<1>11. InSel(PodSel(m, p), t, end)
  BY <1>1, <1>9, PodPortIn DEF PortSel, t
<1>12. Exempted(a, Cni, f, None, 0, r.to, end, t)
  <2>1. HereExempt(m, p, f) \in host[a].exempt
    <3>1. AcceptFamily(a, m, p, f)
      BY <1>2 DEF AcceptFamily
    <3>2. HereExempt(m, p, f) \in AcceptSide(a, m, p).exempt
      BY <1>2, <3>1, AcceptEmits
    <3>3. HereExempt(m, p, f) \in BuildState(a).exempt
      BY <3>2, StateField
    <3>. QED  BY <3>3, RenderIs DEF UpToDate
  <2>2. /\ HereExempt(m, p, f).fam = f /\ HereExempt(m, p, f).negate = FALSE
        /\ HereExempt(m, p, f).oif = Cni /\ HereExempt(m, p, f).dst = r.to
        /\ HereExempt(m, p, f).sel = PodSel(m, p)
    BY <1>9 DEF HereExempt
  <2>. HIDE DEF end
  <2>. QED  BY <1>11, <2>1, <2>2 DEF Exempted
<1>. DEFINE arrival == [pod |-> r.to[2], port |-> end, dev |-> Cni,
                        kept |-> Exempted(a, Cni, f, None, 0, r.to, end, t)]
<1>13. \A d : d \in Arrivals(a, i, f, dst, t, port) <=> d = arrival
  BY <1>8, <1>10, ArrivalIs
<1>14. /\ arrival.pod = p /\ arrival.kept /\ arrival.port = end /\ arrival.dev = Cni
  BY <1>10, <1>12
<1>15. Exit(arrival, f, t) = {a}
  <2>1. ReplyMark(a, p, f, t, end, CtMark(a, Cni)) = {}
    <3>1. r.iface[1] # "kup" /\ PodNode[r.to[2]] = a /\ InSel(r.sel, t, port)
      BY <1>1, <1>5, <1>9, <1>10
    <3>2. ReplyMark(a, r.to[2], r.fam, t, PortAfter(r, port), CtMark(a, Cni)) = {}
      BY <1>9, <1>10, <3>1, LocalReply
    <3>. QED  BY <1>9, <1>10, <3>2
  <2>. HIDE DEF arrival, end
  <2>. QED  BY <1>14, <2>1, PlainExits DEF Exit
<1>. HIDE DEF arrival, end
<1>. QED  BY <1>11, <1>13, <1>14, <1>15 DEF Serves, t

\* The two ends of the link in slot s, between a programmer of m and the
\* node of its pod.
LEMMA BothLinks ==
  ASSUME Objects, UnderlaysKnown, Reported, NEW m, NEW p, NEW a \in Nodes, Accepts(a, m, p),
         NEW e, e = PodNode[p], a # e, UpToDate(a), UpToDate(e),
         NEW s \in SlotFor(Of(m).class, a, e), NEW i \in InterfacesFor(m, a),
         NEW f, f \in PodFamilies(a, p), f \in PodFamilies(e, p), LinkCarries(f, Of(m).class, a, e)
  PROVE  /\ e \in Nodes /\ s \in Slots /\ f \in Families
         /\ Targets(e, m, p) /\ OpenLeg(e, m, p, s, a, f)
         /\ \E l \in host[a].links : l.slot = s /\ l.peer = e /\ End(f, s, a, e) \in l.addrs
         /\ \E l \in host[e].links : l.slot = s /\ l.peer = a /\ End(f, s, e, a) \in l.addrs
<1>1. /\ e \in Nodes /\ s \in Slots /\ f \in Families
      /\ f = "v6" => "v6" \in PodFamilies(a, p) /\ "v6" \in PodFamilies(e, p)
  BY PortMapsAssumption
  DEF Accepts, Objects, ChooseEndpoint, Candidates, SlotFor, PodFamilies, Families
<1>2. Targets(e, m, p) /\ Leg(e, m, s, a)
  <2>1. s \in SlotFor(Of(m).class, e, a)
    BY DEF SlotFor, Key
  <2>. QED  BY <2>1 DEF Accepts, Targets, Leg
<1>3. ASSUME NEW c, NEW x, NEW y, LinkCarries(f, c, x, y), NEW dual, f = "v6" => dual
      PROVE  End(f, s, x, y) \in LinkDevice(c, s, x, y, dual).addrs
  BY <1>1, <1>3 DEF LinkDevice, Families
<1>4. s \in AcceptLink(m, a, PodNode[p])
  BY DEF AcceptLink
<1>5. PICK l \in host[a].links :
        /\ l.slot = s /\ l.peer = e
        /\ LinkDevice(Of(m).class, s, a, e, "v6" \in PodFamilies(a, p)).addrs \subseteq l.addrs
  BY <1>4, AcceptLinkThere, RenderIs DEF UpToDate
<1>6. PICK k \in host[e].links :
        /\ k.slot = s /\ k.peer = a
        /\ LinkDevice(Of(m).class, s, e, a, "v6" \in PodFamilies(e, p)).addrs \subseteq k.addrs
  BY <1>2, LegThere, RenderIs DEF UpToDate
<1>7. /\ Of(m).class \in Classes /\ a \in ClassNodes[Of(m).class]
      /\ <<Of(m).class, a>> \in rows
  <2>. DEFINE d == AwayDnat(a, m, p, i, s, f)
  <2>1. m \in Existing /\ Of(m).class \in Classes /\ a \in ClassNodes[Of(m).class]
    BY ProgrammersIn DEF Accepts, Objects
  <2>2. AcceptFamily(a, m, p, f)
    BY DEF AcceptFamily
  <2>3. d \in BuildState(a).dnat
    BY <1>4, <2>2, DnatIs
  <2>4. d \in host[a].snap
    BY <2>3, RenderIs DEF UpToDate
  <2>5. d.to = End(f, s, e, a) /\ d.fam = f
    BY DEF AwayDnat
  <2>6. pool[s].class = Of(m).class
    BY DEF SlotFor, Key
  <2>. HIDE DEF d
  <2>. QED  BY <1>5, <2>1, <2>4, <2>5, <2>6 DEF Reported
<1>8. LinkCarries(f, Of(m).class, e, a)
  BY <1>1, <1>7, CarriesBack
<1>9. End(f, s, a, e) \in l.addrs /\ End(f, s, e, a) \in k.addrs
  BY <1>1, <1>3, <1>5, <1>6, <1>8
<1>. QED  BY <1>1, <1>2, <1>5, <1>6, <1>8, <1>9 DEF OpenLeg

\* The programmer sends the request to the far end of its link.
SendsOver(m, a, e, s, i, f, dst, port, r) ==
  /\ PreRouting(a, i, f, dst, Of(m).proto, port) = {r}
  /\ r \in host[a].dnat /\ r.iface = i /\ r.fam = f
  /\ r.to = End(f, s, e, a) /\ r.toPort = 0
  /\ Exempted(a, Dev(s), f, None, 0, r.to, port, Of(m).proto)

LEMMA AwayAccepts ==
  ASSUME Objects, PlainInterfaces, HostsInv, PortsApart, StandInsSuffice,
         NEW m, NEW p, NEW a \in Nodes, Accepts(a, m, p), NEW e, e = PodNode[p], a # e,
         UpToDate(a), NEW s \in SlotFor(Of(m).class, a, e),
         NEW i \in InterfacesFor(m, a), NEW port \in Of(m).first .. Of(m).last,
         NEW f \in PodFamilies(a, p), LinkCarries(f, Of(m).class, a, e), NEW dst \in LocalAddrs[a], dst[1] = f
  PROVE  \E r : SendsOver(m, a, e, s, i, f, dst, port, r)
<1>. DEFINE rule == AwayDnat(a, m, p, i, s, f)
            L == Locals(a, host[a].links)
            r == Pinned(L, rule)
            t == Of(m).proto
            pass == AwayExempt(a, m, p, s, f)
<1>1. /\ m \in Existing /\ p \in ChooseEndpoint(m) /\ Of(m).first \in Nat
      /\ Of(m).class \in Classes /\ PoolApart
  BY DEF Accepts, Objects, HostsInv
<1>2. AcceptLink(m, a, PodNode[p]) = SlotFor(Of(m).class, a, e) /\ AcceptFamily(a, m, p, f)
  BY DEF AcceptLink, AcceptFamily
<1>3. rule \in BuildState(a).dnat
  BY <1>2, DnatIs
<1>4. /\ rule.iface = i /\ rule.fam = f /\ rule.dst = None /\ rule.sel = PortSel(m)
      /\ rule.to = End(f, s, e, a) /\ rule.toPort = 0
  BY DEF AwayDnat
<1>5. InSel(PortSel(m), t, port) /\ PortSel(m).first = Of(m).first
  BY DEF InSel, PortSel
<1>6. ASSUME NEW x \in BuildState(a).dnat, x.iface = i, x.fam = f, InSel(x.sel, t, port)
      PROVE  x = rule
  <2>1. PICK u \in SlotFor(Of(m).class, a, e) : x = AwayDnat(a, m, p, i, u, f)
    BY <1>2, <1>6, AcceptOnly
  <2>2. u = s
    BY <1>1, SlotUnique
  <2>. QED  BY <2>1, <2>2
<1>7. dst \in L /\ StandIn(L, dst) # {} /\ None \notin L
  BY LocalsFree DEF Locals, StandInsSuffice
<1>8. pass \in host[a].exempt
  <2>1. pass \in AcceptSide(a, m, p).exempt
    BY <1>2, AcceptEmits
  <2>2. pass \in BuildState(a).exempt
    BY <2>1, StateField
  <2>. QED  BY <2>2, RenderIs DEF UpToDate
<1>9. /\ pass.fam = f /\ pass.negate = FALSE /\ pass.oif = Dev(s)
      /\ pass.dst = End(f, s, e, a) /\ pass.sel = PortSel(m)
  BY DEF AwayExempt
<1>. HIDE DEF rule, L, t, pass
<1>10. PreRouting(a, i, f, dst, t, port) = {r}
  <2>1. OneRule(a, rule, t, port)
    BY <1>1, <1>3, <1>4, <1>5, <1>6 DEF OneRule
  <2>2. PICK d, u : d = rule /\ u = t
    OBVIOUS
  <2>3. PreRouting(a, d.iface, d.fam, dst, u, port) = {Pinned(L, d)}
    BY <1>4, <1>7, <2>1, <2>2, MeetsRule DEF L
  <2>. QED  BY <1>4, <2>2, <2>3
<1>11. /\ r \in host[a].dnat /\ r.iface = i /\ r.fam = f
       /\ r.to = End(f, s, e, a) /\ r.toPort = 0
  <2>1. r \in host[a].dnat
    BY <1>10, PreRoutingIn
  <2>. QED  BY <1>3, <1>4, <2>1, PinnedKeeps
<1>. HIDE DEF r
<1>12. Exempted(a, Dev(s), f, None, 0, r.to, port, t)
  BY <1>5, <1>8, <1>9, <1>11 DEF Exempted
<1>. QED  BY <1>10, <1>11, <1>12 DEF t, SendsOver

\* The pod's node translates what comes off the link to the pod.
TakesOff(m, p, e, s, f, dst, port, u) ==
  /\ PreRouting(e, Dev(s), f, dst, Of(m).proto, port) = {u}
  /\ u.to = Addr(p)
  /\ InSel(PodSel(m, p), Of(m).proto, PortAfter(u, port))

LEMMA LegDelivers ==
  ASSUME Objects, PlainInterfaces, HostsInv, StandInsSuffice,
         NEW m, NEW p, NEW e \in Nodes, Targets(e, m, p), UpToDate(e), NEW s, NEW a, NEW f,
         OpenLeg(e, m, p, s, a, f), NEW port \in Of(m).first .. Of(m).last,
         NEW dst, dst = End(f, s, e, a), dst \in Locals(e, host[e].links)
  PROVE  \E u : TakesOff(m, p, e, s, f, dst, port, u)
<1>. DEFINE rule == LegDnat(e, m, p, s, a, f)
            L == Locals(e, host[e].links)
            u == Pinned(L, rule)
            t == Of(m).proto
<1>1. /\ m \in Existing /\ p \in ChooseEndpoint(m) /\ Of(m).first \in Nat
      /\ Leg(e, m, s, a) /\ s \in Slots /\ f \in Families
  BY DEF Targets, Objects, OpenLeg, Leg, SlotFor, PodFamilies, Families
<1>2. rule \in BuildState(e).dnat
  BY DnatIs
<1>3. /\ rule.iface = Dev(s) /\ rule.fam = f /\ rule.dst = dst /\ rule.sel = PortSel(m)
      /\ rule.to = Addr(p) /\ rule.toPort = ToPort(m, p)
  BY DEF LegDnat
<1>4. /\ InSel(PortSel(m), t, port) /\ PortSel(m).first = Of(m).first
      /\ port \in PortSel(m).first .. PortSel(m).last
  BY DEF InSel, PortSel
<1>5. ASSUME NEW x \in BuildState(e).dnat, x.iface = Dev(s), x.fam = f, InSel(x.sel, t, port)
      PROVE  x = rule
  BY <1>1, <1>5, DeliverOnly
<1>6. dst \in L /\ StandIn(L, dst) # {} /\ dst[1] = f
  <2>1. dst[1] = f
    BY <1>1, EndIs
  <2>. QED  BY <2>1 DEF StandInsSuffice
<1>. HIDE DEF rule, L, t
<1>7. PreRouting(e, Dev(s), f, dst, t, port) = {u}
  <2>1. OneRule(e, rule, t, port)
    BY <1>1, <1>2, <1>3, <1>4, <1>5 DEF OneRule
  <2>2. PICK d, v : d = rule /\ v = t
    OBVIOUS
  <2>3. PreRouting(e, d.iface, d.fam, dst, v, port) = {Pinned(L, d)}
    BY <1>3, <1>6, <2>1, <2>2, MeetsRule DEF L
  <2>. QED  BY <1>3, <2>2, <2>3
<1>8. u.to = Addr(p) /\ u.toPort = ToPort(m, p)
  BY <1>2, <1>3, PinnedKeeps
<1>. HIDE DEF u
<1>9. InSel(PodSel(m, p), t, PortAfter(u, port))
  BY <1>1, <1>4, <1>8, PodPortIn DEF t
<1>. QED  BY <1>7, <1>8, <1>9 DEF t, TakesOff

\* By another node, over the link.
LEMMA AwayServes ==
  ASSUME Objects, PlainInterfaces, UnderlaysKnown, HostsInv, OneClass, Reported, PortsApart,
         StandInsSuffice, NEW m, NEW p, NEW a \in Nodes, Accepts(a, m, p),
         NEW e, e = PodNode[p], a # e, UpToDate(a), UpToDate(e),
         NEW s \in SlotFor(Of(m).class, a, e),
         NEW i \in InterfacesFor(m, a), NEW port \in Of(m).first .. Of(m).last,
         NEW f \in PodFamilies(a, p), f \in PodFamilies(e, p), LinkCarries(f, Of(m).class, a, e),
         NEW dst \in LocalAddrs[a], dst[1] = f
  PROVE  Serves(m, p, a, i, f, dst, port)
<1>. DEFINE t == Of(m).proto
<1>1. /\ e \in Nodes /\ s \in Slots /\ f \in Families
      /\ Targets(e, m, p) /\ OpenLeg(e, m, p, s, a, f)
  BY BothLinks
<1>2. PICK l0 \in host[a].links : l0.slot = s /\ l0.peer = e /\ End(f, s, a, e) \in l0.addrs
  BY BothLinks
<1>3. PICK k \in host[e].links : k.slot = s /\ k.peer = a /\ End(f, s, e, a) \in k.addrs
  BY BothLinks
<1>4. PICK r : /\ PreRouting(a, i, f, dst, t, port) = {r}
               /\ r \in host[a].dnat /\ r.iface = i /\ r.fam = f
               /\ r.to = End(f, s, e, a) /\ r.toPort = 0
               /\ Exempted(a, Dev(s), f, None, 0, r.to, port, t)
  <2>1. PICK r : SendsOver(m, a, e, s, i, f, dst, port, r)
    BY AwayAccepts
  <2>. QED  BY <2>1 DEF SendsOver
<1>5. PICK u : /\ PreRouting(e, Dev(s), f, r.to, t, port) = {u}
               /\ u.to = Addr(p) /\ InSel(PodSel(m, p), t, PortAfter(u, port))
  <2>1. r.to \in Locals(e, host[e].links)
    BY <1>3, <1>4 DEF Locals
  <2>2. PICK x : x = r.to
    OBVIOUS
  <2>3. PICK u : TakesOff(m, p, e, s, f, x, port, u)
    BY <1>1, <1>4, <2>1, <2>2, LegDelivers
  <2>. QED  BY <2>2, <2>3 DEF TakesOff
<1>6. i[1] # "kup" /\ r.to[1] # "pod" /\ PortAfter(r, port) = port
  BY <1>1, <1>4, PlainFor, EndIs DEF Accepts, Families, PortAfter
<1>7. l0 \in Over(a, f, r)
  <2>1. /\ End(f, s, a, e)[1] = f
        /\ End(f, s, a, e)[2] \div 2 = End(f, s, e, a)[2] \div 2
    BY <1>1, EndIs
  <2>. QED  BY <1>2, <1>4, <2>1 DEF Over
<1>8. ASSUME NEW l \in Over(a, f, r) PROVE l.slot = s /\ l.peer = e
  <2>1. l \in host[a].links /\ l.slot \in Slots /\ r.to = End(f, l.slot, l.peer, a)
    BY <1>4, <1>6, OverIs
  <2>. DEFINE base == IF f = "v4" THEN 8192 ELSE 32768
  <2>2. r.to[2] \div 2 = base + l.slot /\ r.to[2] \div 2 = base + s
    <3>1. End(f, l.slot, l.peer, a)[2] \div 2 = base + l.slot
      BY <1>1, <2>1, EndIs
    <3>2. End(f, s, e, a)[2] \div 2 = base + s
      BY <1>1, EndIs
    <3>. HIDE DEF base
    <3>. QED  BY <1>4, <2>1, <3>1, <3>2
  <2>3. l.slot \in Nat /\ s \in Nat /\ base \in Nat
    BY <1>1, <2>1, SlotNat
  <2>. HIDE DEF base
  <2>4. l.slot = s
    BY <2>2, <2>3
  <2>. QED  BY <1>2, <2>1, <2>4 DEF HostsInv, HostAgrees, LinksAgree
<1>9. e \in FarEnd(a, l0) /\ \A l \in Over(a, f, r) : FarEnd(a, l) \subseteq {e}
  BY <1>2, <1>3, <1>8 DEF FarEnd
<1>10. \A l \in Over(a, f, r) : Delivers(e, l, f, r, t, port) = {u}
  BY <1>5, <1>6, <1>8 DEF Delivers
<1>. HIDE DEF t
<1>. DEFINE end == PortAfter(u, port)
            kept == Exempted(a, Dev(s), f, None, 0, r.to, port, t)
            arrival == [pod |-> u.to[2], port |-> end, dev |-> Dev(s), kept |-> kept]
<1>11. ASSUME NEW d PROVE d \in Arrivals(a, i, f, dst, t, port) <=> d = arrival
  <2>1. d \in Arrivals(a, i, f, dst, t, port) <=>
          \E l \in Over(a, f, r) : \E q \in FarEnd(a, l) :
            \E w \in Delivers(q, l, f, r, t, port) :
              d = [pod |-> w.to[2], port |-> PortAfter(w, port), dev |-> Dev(l.slot),
                   kept |-> Exempted(a, Dev(l.slot), f, None, 0, r.to, port, t)]
    BY <1>4, <1>6, ArrivalIs
  <2>2. ASSUME d \in Arrivals(a, i, f, dst, t, port) PROVE d = arrival
    BY <1>8, <1>9, <1>10, <2>1, <2>2
  <2>3. l0 \in Over(a, f, r) /\ e \in FarEnd(a, l0) /\ u \in Delivers(e, l0, f, r, t, port)
        /\ l0.slot = s
    BY <1>2, <1>7, <1>9, <1>10
  <2>. QED  BY <2>1, <2>2, <2>3
<1>12. /\ arrival.pod = p /\ arrival.port = end /\ arrival.dev = Dev(s) /\ arrival.kept
  <2>1. u.to[2] = p
    BY <1>5 DEF Addr
  <2>. QED  BY <1>4, <2>1
<1>13. Exit(arrival, f, t) = {a}
  <2>. HIDE DEF end, kept
  <2>1. InSel(PodSel(m, p), Of(m).proto, end)
    BY <1>5 DEF end, t
  <2>2. PICK x : x = end
    OBVIOUS
  <2>3. ExitOver(e, m, p, s, f, x) = {a}
    BY <1>1, <1>2, <2>1, <2>2, LegExit
  <2>. HIDE DEF arrival
  <2>. QED  BY <1>12, <2>2, <2>3 DEF Exit, ExitOver, t
<1>14. InSel(PodSel(m, p), t, end)
  BY <1>5
<1>. HIDE DEF arrival, end
<1>. QED  BY <1>11, <1>12, <1>13, <1>14 DEF Serves, t

LEMMA ProgrammedServesHolds ==
  ASSUME PlainInterfaces, UnderlaysKnown
  PROVE  Objects /\ HostsInv /\ Reported => (OneClass /\ PortsApart /\ StandInsSuffice
                                             => ProgrammedServes)
<1>. SUFFICES ASSUME Objects, HostsInv, Reported, OneClass, PortsApart, StandInsSuffice,
                     NEW m \in Existing, Programmed(m),
                     \A n \in Nodes : host[n] = Render(n, BuildState(n)),
                     NEW p \in Endpoint(m), NEW a \in Programmers(m),
                     NEW i \in InterfacesFor(m, a), NEW port \in Of(m).first .. Of(m).last,
                     NEW f \in BothEnds(m, a, p), NEW dst \in LocalAddrs[a], dst[1] = f
              PROVE  Serves(m, p, a, i, f, dst, port)
  BY DEF ProgrammedServes, Serves
<1>1. a \in Nodes /\ \A n \in Nodes : UpToDate(n)
  BY ProgrammersIn DEF UpToDate
<1>2. Accepts(a, m, p)
  BY ProgrammersOf DEF Accepts
<1>3. f \in PodFamilies(a, p) /\ f \in PodFamilies(PodNode[p], p)
  BY DEF BothEnds
<1>4. CASE PodNode[p] = a
  <2>1. ReturnsInv
    BY HostReturnsHolds DEF ReturnsInv, HostsInv
  <2>. QED  BY <1>1, <1>2, <1>3, <1>4, <2>1, HereServes
<1>5. CASE PodNode[p] # a
  <2>. DEFINE e == PodNode[p]
  <2>1. e \in Nodes
    BY PortMapsAssumption DEF Endpoint, ChooseEndpoint, Candidates, Objects
  <2>2. LinkCarries(f, Of(m).class, a, e)
    BY <1>5 DEF BothEnds
  <2>3. SlotFor(Of(m).class, a, e) # {}
    BY <1>5 DEF Programmed, EndpointNode
  <2>4. PICK s : s \in SlotFor(Of(m).class, a, e)
    BY <2>3
  <2>. HIDE DEF e
  <2>5. e = PodNode[p] /\ a # e /\ UpToDate(a) /\ UpToDate(e)
    BY <1>1, <1>5, <2>1 DEF e
  <2>. QED  BY <1>1, <1>2, <1>3, <2>2, <2>4, <2>5, AwayServes
<1>. QED  BY <1>4, <1>5

\* A pass leaves a host that has reported.
LEMMA PassReports ==
  ASSUME Objects, NEW n \in Nodes, NEW l \in BuildState(n).links
  PROVE  /\ pool[l.slot] # Absent
         /\ \A d \in BuildState(n).dnat :
              d.to = End(d.fam, l.slot, l.peer, n) => <<pool[l.slot].class, n>> \in ClassRows(n)
<1>1. PICK k \in Devices(n) : l.slot = k.slot /\ l.peer = k.peer
  BY DeviceLinks
<1>2. PICK m \in Existing : \E q, s, dual :
        /\ s \in SlotFor(Of(m).class, n, q) /\ s \in Slots
        /\ k = LinkDevice(Of(m).class, s, n, q, dual)
  BY DeviceIs
<1>. PICK q, s, dual : /\ s \in SlotFor(Of(m).class, n, q) /\ s \in Slots
                      /\ k = LinkDevice(Of(m).class, s, n, q, dual)
  BY <1>2
<1>3. l.slot = s /\ l.peer = q /\ pool[s] = Key(Of(m).class, n, q) /\ q \in Nodes
  BY <1>1 DEF LinkDevice, SlotFor, Objects, Key
<1>4. pool[l.slot] # Absent
  <2>1. Of(m).class \in Classes
    BY DEF Objects
  <2>. QED  BY <1>3, <2>1, ReturnPathAssumption DEF Key
<1>5. ASSUME NEW d \in BuildState(n).dnat, d.to = End(d.fam, l.slot, l.peer, n)
      PROVE  <<pool[l.slot].class, n>> \in ClassRows(n)
  <2>1. ASSUME d.fam \in Families, NEW p, d.to = Addr(p) PROVE FALSE
    <3>1. End(d.fam, s, q, n)[1] = d.fam
      BY <2>1, EndIs
    <3>. QED  BY <1>3, <1>5, <2>1, <3>1 DEF Addr, Families
  <2>2. \A x, p, f : f \in PodFamilies(x, p) => f \in Families
    BY DEF PodFamilies, Families
  <2>3. PICK v, p : /\ Accepts(n, v, p)
                    /\ \E i \in InterfacesFor(v, n) : \E f :
                         /\ AcceptFamily(n, v, p, f)
                         /\ \E u \in AcceptLink(v, n, PodNode[p]) :
                              d = AwayDnat(n, v, p, i, u, f)
    <3>1. ASSUME NEW v, NEW p, NEW i, NEW f, AcceptFamily(n, v, p, f), d = HereDnat(v, p, i, f)
          PROVE  FALSE
      BY <2>1, <2>2, <3>1 DEF HereDnat, AcceptFamily
    <3>2. ASSUME NEW v, NEW p, NEW u, NEW w, NEW f, OpenLeg(n, v, p, u, w, f),
                 d = LegDnat(n, v, p, u, w, f)
          PROVE  FALSE
      BY <2>1, <2>2, <3>2 DEF LegDnat, OpenLeg
    <3>. QED  BY <3>1, <3>2, DnatIs
  <2>4. PICK i, f, u : /\ AcceptFamily(n, v, p, f) /\ u \in AcceptLink(v, n, PodNode[p])
                       /\ d = AwayDnat(n, v, p, i, u, f)
    BY <2>3
  <2>5. /\ f \in Families /\ d.fam = f /\ d.to = End(f, u, PodNode[p], n)
        /\ u \in Slots /\ pool[u].class = Of(v).class
    BY <2>2, <2>4 DEF AcceptFamily, AwayDnat, AcceptLink, SlotFor, Key
  <2>6. u = s
    <3>. DEFINE base == IF f = "v4" THEN 8192 ELSE 32768
    <3>1. End(f, s, q, n)[2] \div 2 = base + s
      BY <2>5, EndIs
    <3>2. End(f, u, PodNode[p], n)[2] \div 2 = base + u
      BY <2>5, EndIs
    <3>3. s \in Nat /\ u \in Nat /\ base \in Nat
      BY <2>5, SlotNat
    <3>. HIDE DEF base
    <3>. QED  BY <1>3, <1>5, <2>5, <3>1, <3>2, <3>3
  <2>7. n \in ClassNodes[Of(v).class] \cap nodes /\ Of(v).class \in Classes
    BY <2>3, ProgrammersIn DEF Accepts, Objects
  <2>. QED  BY <1>3, <2>5, <2>6, <2>7 DEF ClassRows
<1>. QED  BY <1>4, <1>5

LEMMA ReportedNext ==
  Objects /\ HostsInv /\ Reported /\ [RPNext]_rpvars => Reported'
<1>. SUFFICES ASSUME Objects, HostsInv, Reported, [RPNext]_rpvars PROVE Reported'
  OBVIOUS
<1>1. DOMAIN host = Nodes /\ \A n \in Nodes : \A l \in host[n].links : l.slot \in Slots
  BY DEF HostsInv, HostAgrees, LinksAgree
<1>2. ASSUME NEW n \in Nodes, Pass(n) PROVE Reported'
  <2>1. /\ host'[n] = Render(n, BuildState(n)) /\ \A k \in Nodes \ {n} : host'[k] = host[k]
        /\ pool' = pool /\ rows' = rows \cup ClassRows(n)
    BY <1>1, <1>2 DEF Pass
  <2>2. host'[n].links = BuildState(n).links /\ host'[n].snap = BuildState(n).dnat
    BY <2>1, RenderIs
  <2>3. ASSUME NEW l \in BuildState(n).links
        PROVE  /\ pool[l.slot] # Absent
               /\ \A d \in BuildState(n).dnat :
                    d.to = End(d.fam, l.slot, l.peer, n) =>
                      <<pool[l.slot].class, n>> \in ClassRows(n)
    BY PassReports
  <2>. QED  BY <2>1, <2>2, <2>3 DEF Reported, End
<1>3. ASSUME NEW n \in Nodes, Stop(n) PROVE Reported'
  <2>1. /\ host'[n].links = {} /\ \A k \in Nodes \ {n} : host'[k] = host[k]
        /\ pool' = pool /\ rows' = rows
    BY <1>1, <1>3 DEF Stop, Empty
  <2>. QED  BY <2>1 DEF Reported, End
<1>4. ASSUME host' = host, rows' = rows,
             \A n \in Nodes : \A l \in host[n].links : pool'[l.slot] = pool[l.slot]
      PROVE  Reported'
  BY <1>4 DEF Reported, End
<1>5. CASE LinkLands
  <2>1. PICK s \in First({t \in Slots : pool[t] = Absent}), np \in NeededPairs :
          pool' = [pool EXCEPT ![s] = Key(np.class, np.peer, np.holder)]
    BY <1>5 DEF LinkLands
  <2>2. pool[s] = Absent
    BY <2>1 DEF First
  <2>3. \A n \in Nodes : \A l \in host[n].links : pool'[l.slot] = pool[l.slot]
    BY <1>1, <2>1, <2>2 DEF Reported, HostsInv, PoolApart
  <2>. QED  BY <1>4, <1>5, <2>3 DEF LinkLands
<1>6. ASSUME NEW s \in Slots, LinkReleased(s) PROVE Reported'
  <2>1. \A n \in Nodes : \A l \in host[n].links : pool'[l.slot] = pool[l.slot]
    BY <1>6 DEF LinkReleased
  <2>. QED  BY <1>4, <1>6, <2>1 DEF LinkReleased
<1>7. CASE host' = host /\ rows' = rows /\ pool' = pool
  BY <1>4, <1>7
<1>. QED  BY <1>2, <1>3, <1>5, <1>6, <1>7 DEF RPNext, rpvars, ObjectChanges

-----------------------------------------------------------------------------
(* At all times.                                                           *)

LEMMA HostsAlways ==
  ASSUME PlainInterfaces
  PROVE  RPSpec => []HostsInv
<1>1. RPInit => HostsInv
  BY HostsInit
<1>2. Objects /\ HostsInv /\ [RPNext]_rpvars => HostsInv'
  BY HostsNext
<1>. QED  BY <1>1, <1>2, RPObjectsAlways, PTL DEF RPSpec

LEMMA ReturnsAlways ==
  ASSUME PlainInterfaces
  PROVE  RPSpec /\ []OneClass => []ReturnsInv
<1>1. RPInit => ReturnsInv
  BY HostsInit
<1>2. Objects /\ HostsInv /\ OneClass /\ ReturnsInv /\ [RPNext]_rpvars => ReturnsInv'
  BY ReturnsNext
<1>3. RPSpec => []HostsInv
  BY HostsAlways
<1>. QED  BY <1>1, <1>2, <1>3, RPObjectsAlways, PTL DEF RPSpec

(***************************************************************************)
(* "A reply has to leave by the link its request arrived on" (emitMapping, *)
(* reconcile.go:408): in a cluster that never accepts two classes'         *)
(* mappings of one Service port, the rules of emitMapping send every reply *)
(* out by the node that took the request, at any pool, any number of nodes *)
(* and any age of either node's rules.                                     *)
(***************************************************************************)
THEOREM ReturnPathRepliesReturn ==
  ASSUME PlainInterfaces
  PROVE  RPSpec /\ []OneClass => []RepliesReturn
<1>1. HostsInv /\ ReturnsInv => RepliesReturn
  BY RepliesReturnHolds
<1>2. RPSpec => []HostsInv
  BY HostsAlways
<1>3. RPSpec /\ []OneClass => []ReturnsInv
  BY ReturnsAlways
<1>. QED  BY <1>1, <1>2, <1>3, PTL

(***************************************************************************)
(* CountFlows (conntrack.go) counts an open flow as accept on the node the *)
(* client came in by and as deliver on the node it left the link on,       *)
(* whatever classes share the pod and its port: the pinned destination     *)
(* tells the two kinds of rules apart.                                     *)
(***************************************************************************)
THEOREM ReturnPathFlowsByRole ==
  ASSUME PlainInterfaces
  PROVE  RPSpec => []FlowsByRole
<1>1. HostsInv => FlowsByRole
  BY FlowsByRoleHolds
<1>2. RPSpec => []HostsInv
  BY HostsAlways
<1>. QED  BY <1>1, <1>2, PTL

(***************************************************************************)
(* Programmed=True (resolveProgrammed, reconcile.go) tells the truth once  *)
(* every agent has made its pass: at each programming node a client's      *)
(* request to any port of the mapping, on any of its interfaces and in     *)
(* each family both nodes deliver in and that node's end of the link       *)
(* carries, reaches the chosen pod with the client's address, and its      *)
(* answer comes back through that node.  The pod may be on any node, in    *)
(* the class or not: a pod's node outside the class writes no row          *)
(* (buildClassStatus), so the ends may size their link differently, and    *)
(* the difference is never to the request's disadvantage.                  *)
(*                                                                         *)
(* The conditions are the cluster's: the class's own nodes know their      *)
(* MTU, a Service port has one class, no port is given twice on an         *)
(* interface that classes share, and there are stand-ins for all the       *)
(* addresses of a node.                                                    *)
(***************************************************************************)
THEOREM ReturnPathProgrammedServes ==
  ASSUME PlainInterfaces, UnderlaysKnown
  PROVE  RPSpec => [](OneClass /\ PortsApart /\ StandInsSuffice => ProgrammedServes)
<1>1. RPInit => Reported
  BY DEF RPInit, Reported, Empty
<1>2. Objects /\ HostsInv /\ Reported /\ [RPNext]_rpvars => Reported'
  BY ReportedNext
<1>3. Objects /\ HostsInv /\ Reported => (OneClass /\ PortsApart /\ StandInsSuffice
                                         => ProgrammedServes)
  BY ProgrammedServesHolds
<1>4. RPSpec => []HostsInv
  BY HostsAlways
<1>. QED  BY <1>1, <1>2, <1>3, <1>4, RPObjectsAlways, PTL DEF RPSpec

=============================================================================
