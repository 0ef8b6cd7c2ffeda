----------------------------- MODULE ReturnPath -----------------------------
(***************************************************************************)
(* What the agents write for PortMaps and what a packet meets: the rules   *)
(* emitMapping emits (internal/reconcile/reconcile.go), the order Render   *)
(* puts them in (internal/datapath/render.go) and what each one does to a  *)
(* packet (nft.go), composed over the client's node and the pod's node.    *)
(*                                                                         *)
(* PortMaps gives the objects and the decisions.  Every agent computes its *)
(* host's rules from the objects as they are at its own pass, so between   *)
(* passes the two ends of a path may have been written at different times. *)
(* The pool of Links is the one LinkPool describes, without its races: one *)
(* Link per class and pair of nodes, no slot in two hands.                 *)
(*                                                                         *)
(* The kernel, the host's firewall and the CNI are external: netfilter     *)
(* applies the first nat rule that matches and every mangle rule that      *)
(* matches, in order; the firewall drops what is addressed to the node     *)
(* itself; conntrack translates a reply back on the node that translated   *)
(* the request; the CNI delivers what is addressed to a pod.               *)
(***************************************************************************)
EXTENDS PortMaps, SlotNumbers

CONSTANTS
  Offered,     \* Offered[n]: what users write under name n, with interfaces
  NodeSets,    \* the sets of Node objects the cluster passes through
  Ifaces,      \* Ifaces[c][n]: the interfaces class c gives node n
  Slots,       \* the slots of the pool
  Pods6,       \* the pods the Service's IPv6 slice lists too
  Forward6,    \* the nodes whose host forwards IPv6
  MTU,         \* MTU[n]: the node's underlay
  LocalAddrs,  \* LocalAddrs[n]: the node's own addresses, <<family, number>>
  MaxChanges,  \* bound on object changes and stops
  None         \* no address, no mark

Families == {"v4", "v6"}

ASSUME ReturnPathAssumption ==
  /\ \A s \in UNION {Offered[n] : n \in Names} :
       /\ [class |-> s.class, flaw |-> s.flaw, proto |-> s.proto, first |-> s.first,
           last |-> s.last, service |-> s.service] \in PortMapSpec
       /\ s.interfaces \subseteq UNION {Ifaces[c][n] : c \in Classes, n \in Nodes}
  /\ NodeSets \subseteq SUBSET Nodes
  /\ Slots \subseteq 0 .. LinkSlots - 1 /\ Pods6 \subseteq Pods
  /\ Forward6 \subseteq Nodes /\ MTU \in [Nodes -> Nat]
  /\ \A n \in Nodes : LocalAddrs[n] \subseteq Families \X (0 .. LinkSubnet - 1)
  /\ None \notin Families \X Nat
  /\ \A c \in Classes, x, y \in Nodes : Absent # [class |-> c, peers |-> {x, y}]
  /\ MaxChanges \in Nat

VARIABLES
  pool,     \* pool[s]: the key of the Link in slot s, or Absent
  host,     \* host[n]: the rules and devices node n has
  rows,     \* the rows of the class statuses: <<class, node>>
  changes   \* object changes so far

rpvars == <<vars, pool, host, rows, changes>>

\* A State before it is rendered, and the host without rules.  snap is the
\* DNAT part of the State as recordApply keeps it for the metrics.
NoState ==
  [dnat |-> {}, exempt |-> {}, mangle |-> {}, links |-> {}, rules |-> {}, routes |-> {}]

Empty ==
  [dnat |-> {}, exempt |-> {}, mangle |-> {}, links |-> {}, rules |-> {}, routes |-> {},
   steer |-> {}, map |-> {}, snap |-> {}]

-----------------------------------------------------------------------------
(* Links and their ends.                                                   *)

\* classLinkKey: the class and its two nodes.
Key(c, x, y) == [class |-> c, peers |-> {x, y}]

\* slotFor and buildLinkParams: the slot once the Link is there, if both nodes
\* have an address.
SlotFor(c, x, y) == {s \in Slots : pool[s] = Key(c, x, y) /\ {x, y} \subseteq nodes}

Dev(s) == <<"kup", s>>

\* The address of node this on its link to peer, in a family.
End(f, s, this, peer) ==
  <<f, Ends(IF f = "v4" THEN Slash31(s) ELSE Slash127(s), this < peer)[1]>>

\* classUnderlay: a node's underlay as its row in the class has it.  It is 0
\* before the node's first pass, and for good for a pod's node that the class
\* does not name.
Underlay(c, n) == IF <<c, n>> \in rows THEN MTU[n] ELSE 0

\* Mutant of LinkCarries: each end goes by its own underlay alone.
LinkCarriesOwn(f, c, this, peer) ==
  f = "v4" \/ HasIPv6(Underlay(c, this), 0, TRUE)

LinkCarries(f, c, this, peer) ==
  f = "v4" \/ HasIPv6(Underlay(c, this), Underlay(c, peer), TRUE)

\* linkDevice: the /127 is there for a mapping delivered over IPv6.
LinkDevice(c, s, this, peer, dual) ==
  [slot |-> s, peer |-> peer,
   addrs |-> {End(f, s, this, peer) :
                f \in {g \in Families : (dual \/ g = "v4") /\ LinkCarries(g, c, this, peer)}}]

-----------------------------------------------------------------------------
(* What a mapping asks of node n.                                          *)

\* podAddrs: the families this node delivers to pod p in.
PodFamilies(n, p) == {"v4"} \cup IF n \in Forward6 /\ p \in Pods6 THEN {"v6"} ELSE {}

Addr(p) == <<"pod", p>>

\* The CNI's devices, cilium_*.
Cni == <<"cni">>

\* portSel and podPort: the ports the client dials and those the pod sees.
\* toPort is 0 where they are the same.
PortSel(m) == [proto |-> Of(m).proto, first |-> Of(m).first, last |-> Of(m).last]

ToPort(m, p) ==
  IF Of(m).first = Of(m).last /\ PodPort[p] \notin {0, Of(m).first} THEN PodPort[p] ELSE 0

PodSel(m, p) ==
  LET t == ToPort(m, p) IN
  IF t = 0 THEN PortSel(m) ELSE [PortSel(m) EXCEPT !.first = t, !.last = t]

InterfacesFor(m, n) ==
  LET have == Ifaces[Of(m).class][n] IN
  IF Of(m).interfaces = {} THEN have ELSE have \cap Of(m).interfaces

\* The programmer's own link to the pod's node, once it has landed.
AcceptLink(m, n, e) == IF n = e THEN {} ELSE SlotFor(Of(m).class, n, e)

\* postrouting sees the port the DNAT wrote: over a link still the dialed one.
ExemptSel(m, p, link) == IF link = {} THEN PodSel(m, p) ELSE PortSel(m)

\* A programmer translates what arrives on its interfaces to the pod when it
\* has it (or the link has not landed) and to the far end of its link
\* otherwise, where the port stays the one the client dialed.  The exemption
\* keeps the CNI from rewriting the client's address.
AcceptSide(n, m, p) ==
  LET c == Of(m).class
      e == PodNode[p]
      link == AcceptLink(m, n, e)
      fams == {f \in PodFamilies(n, p) : link = {} \/ LinkCarries(f, c, n, e)}
      target(f) == IF link = {} THEN {Addr(p)} ELSE {End(f, s, e, n) : s \in link}
      oif == IF link = {} THEN {Cni} ELSE {Dev(s) : s \in link}
  IN [NoState EXCEPT
        !.dnat = UNION {{[iface |-> i, fam |-> f, dst |-> None, sel |-> PortSel(m), to |-> t,
                          toPort |-> IF link = {} THEN ToPort(m, p) ELSE 0] :
                         i \in InterfacesFor(m, n), t \in target(f)} : f \in fams},
        !.exempt = UNION {{[oif |-> o, negate |-> FALSE, fam |-> f, src |-> None, dst |-> t,
                            sel |-> ExemptSel(m, p, link)] :
                           o \in oif, t \in target(f)} : f \in fams},
        !.links = {LinkDevice(c, s, n, e, "v6" \in PodFamilies(n, p)) : s \in link}]

\* Mutant of ReplyMarks: under Multi too each link has a mark rule.
MarkAlways(m, p, ways, fams) ==
  {[kind |-> "Mark", src |-> Addr(p), fam |-> w[3], sel |-> PodSel(m, p),
    mark |-> LinkMark(w[1])] : w \in ways}

\* How replies are told apart.  Single: every reply of the pod's port carries
\* the one link's mark.  Multi: the request's link is saved in the flow and
\* restored on its reply.  ways are the links <<slot, peer, family>>.
ReplyMarks(m, p, ways, fams) ==
  IF Of(m).class \in Multi
    THEN {[kind |-> "CtSave", iface |-> Dev(w[1]), mark |-> LinkMark(w[1])] : w \in ways} \cup
         {[kind |-> "CtLoad", src |-> Addr(p), fam |-> f, sel |-> PodSel(m, p), mark |-> 0] :
            f \in fams}
    ELSE {[kind |-> "Mark", src |-> Addr(p), fam |-> w[3], sel |-> PodSel(m, p),
           mark |-> LinkMark(w[1])] : w \in ways}

\* The pod's node translates what arrives over each remote programmer's link
\* to the pod, and sends the pod's replies back by a link: a mark, a rule per
\* family from the mark to the link's table and its route, and the loop guard
\* for the encapsulated packet.
TargetSide(n, m, p, programmers) ==
  LET c == Of(m).class
      links == UNION {SlotFor(c, n, q) \X {q} : q \in programmers \ {n}}
      dual == "v6" \in PodFamilies(n, p)
      fams == {"v4"} \cup {f \in PodFamilies(n, p) : \E l \in links : LinkCarries(f, c, n, l[2])}
      ways == {<<l[1], l[2], f>> : l \in links, f \in fams}
      open == {w \in ways : LinkCarries(w[3], c, n, w[2])}
  IN [dnat |-> {[iface |-> Dev(w[1]), fam |-> w[3], dst |-> End(w[3], w[1], n, w[2]),
                 sel |-> PortSel(m), to |-> Addr(p), toPort |-> ToPort(m, p)] : w \in open},
      exempt |-> {[oif |-> Cni, negate |-> TRUE, fam |-> f, src |-> Addr(p), dst |-> None,
                   sel |-> PodSel(m, p)] : f \in fams},
      mangle |-> ReplyMarks(m, p, open, fams),
      links |-> {LinkDevice(c, l[1], n, l[2], dual) : l \in links},
      rules |-> {[pref |-> 101, mark |-> LinkMark(l[1]), fam |-> "v4", to |-> l[2],
                  table |-> 254] : l \in links} \cup
                {[pref |-> 102, mark |-> LinkMark(w[1]), fam |-> w[3], to |-> None,
                  table |-> LinkTable(w[1])] : w \in open},
      routes |-> {[table |-> LinkTable(w[1]), dev |-> Dev(w[1]),
                   via |-> End(w[3], w[1], w[2], n)] : w \in open}]

\* Everything one mapping asks of a node.
EmitMapping(n, m, p, programmers) ==
  (IF n \in programmers THEN {AcceptSide(n, m, p)} ELSE {}) \cup
  (IF n = PodNode[p] /\ programmers \ {n} # {}
     THEN {TargetSide(n, m, p, programmers)} ELSE {})

\* buildState: the union over the mappings (sorted and without duplicates),
\* every copy of a link with the /127 if one has it.
BuildState(n) ==
  LET parts == UNION {UNION {EmitMapping(n, m, p, P) :
                               p \in ChooseEndpoint(m), P \in {Programmers(m)}} :
                      m \in Existing}
      devices == UNION {h.links : h \in parts}
      unified(l) ==
        [l EXCEPT !.addrs = UNION {k.addrs : k \in {x \in devices : x.slot = l.slot}}]
  IN [f \in DOMAIN NoState |->
        IF f = "links" THEN {unified(l) : l \in devices} ELSE UNION {h[f] : h \in parts}]

-----------------------------------------------------------------------------
(* Rendering: stand-ins for the node's own addresses.                      *)

Locals(n, links) == LocalAddrs[n] \cup UNION {l.addrs : l \in links}

\* steerPairs: numbered by family in address order, as far as they go.
StandIn(locals, a) ==
  LET rank == Cardinality({b \in locals : b[1] = a[1] /\ b[2] <= a[2]}) IN
  IF a[1] = "v4" THEN (IF rank <= StandIns THEN {<<"v4", SteerV4 + rank>>} ELSE {})
  ELSE {<<"v6", "fd6b:7570::", rank>>}

\* A rule pinned to a local address is pinned to its stand-in instead.
Pinned(locals, d) ==
  IF d.dst \in locals /\ StandIn(locals, d.dst) # {}
    THEN [d EXCEPT !.dst = CHOOSE v \in StandIn(locals, d.dst) : TRUE] ELSE d

\* Render: a steer rule beside each DNAT rule of a family with stand-ins.
Render(n, st) ==
  LET locals == Locals(n, st.links)
      pairs == UNION {{a} \X StandIn(locals, a) : a \in locals}
      steered == {d \in st.dnat : \E x \in pairs : x[1][1] = d.fam}
  IN [f \in DOMAIN Empty |->
        CASE f = "dnat" -> {Pinned(locals, d) : d \in st.dnat}
          [] f = "steer" -> {[iface |-> d.iface, fam |-> d.fam, sel |-> d.sel] : d \in steered}
          [] f = "snap" -> st.dnat
          [] f = "map" -> {x \in pairs : \E d \in steered : d.fam = x[1][1]}
          [] OTHER -> st[f]]

-----------------------------------------------------------------------------
(* What a packet meets.                                                    *)

InSel(sel, proto, port) == sel.proto = proto /\ port \in sel.first .. sel.last

\* kup-steer: the stand-in of the address a mapped packet is for.
Steered(n, iface, fam, dst, proto, port) ==
  IF \E r \in host[n].steer : r.iface = iface /\ r.fam = fam /\ InSel(r.sel, proto, port)
    THEN {x[2] : x \in {y \in host[n].map : y[1] = dst}} ELSE {}

\* Prerouting on a packet for one of the node's own addresses: the firewall
\* drops it unless kup-steer has rewritten it; of the kup-pre rules that then
\* match, sortRules has put the one with the lowest first port first.
PreRouting(n, iface, fam, dst, proto, port) ==
  LET matching == {r \in host[n].dnat :
                     /\ r.iface = iface /\ r.fam = fam /\ InSel(r.sel, proto, port)
                     /\ \E d \in Steered(n, iface, fam, dst, proto, port) : r.dst \in {None, d}}
  IN {r \in matching : \A q \in matching : r.sel.first <= q.sel.first}

PortAfter(r, port) == IF r.toPort = 0 THEN port ELSE r.toPort

\* kup-mangle on a request: the link it came by, if it is to be remembered.
CtMark(n, iface) ==
  {r.mark : r \in {x \in host[n].mangle : x.kind = "CtSave" /\ x.iface = iface}}

\* sortRules within kup-mangle: first port, then kind, then mark.
RunsAfter(r, q) ==
  \/ r.sel.first > q.sel.first
  \/ /\ r.sel.first = q.sel.first
     /\ \/ r.kind = "CtLoad" /\ q.kind = "Mark"
        \/ r.kind = q.kind /\ r.mark > q.mark

\* kup-mangle on a pod's reply: no rule ends the chain, the last one decides.
\* The mark is a set of at most one; ct is what the flow remembers.
ReplyMark(n, p, fam, proto, port, ct) ==
  LET matching == {r \in host[n].mangle : /\ r.kind # "CtSave"
                                          /\ r.src = Addr(p) /\ r.fam = fam
                                          /\ InSel(r.sel, proto, port)}
      last == {r \in matching : \A q \in matching \ {r} : RunsAfter(r, q)}
  IN UNION {IF r.kind = "Mark" THEN {r.mark} ELSE ct : r \in last}

\* The far end of a link, if it has the device too.
FarEnd(n, l) == {q \in {l.peer} : \E k \in host[q].links : k.slot = l.slot /\ k.peer = n}

\* Where a reply with this mark leaves the cluster: by the link of the table
\* its rule names, if the guard lets the encapsulated packet out; by the
\* node's own uplink when no rule matches the mark.
ReplyExit(n, fam, mark) ==
  LET tables == {r.table : r \in {x \in host[n].rules :
                                    x.pref = 102 /\ x.mark \in mark /\ x.fam = fam}}
      devs == {t.dev : t \in {x \in host[n].routes : x.table \in tables /\ x.via[1] = fam}}
      ways == {l \in host[n].links :
                 /\ Dev(l.slot) \in devs
                 /\ \E g \in host[n].rules : g.pref = 101 /\ g.mark \in mark /\ g.to = l.peer}
  IN IF tables = {} THEN {n} ELSE UNION {FarEnd(n, l) : l \in ways}

\* The masquerade of the CNI passes a packet by.
Exempted(n, oif, fam, src, sport, dst, dport, proto) ==
  \E x \in host[n].exempt :
    /\ x.fam = fam
    /\ IF x.negate THEN x.oif # oif ELSE x.oif = oif
    /\ \/ x.src = src /\ InSel(x.sel, proto, sport)
       \/ x.dst = dst /\ InSel(x.sel, proto, dport)

\* The links a rule's target lies on, and the far end's rules for what comes
\* over one of them.
Over(a, fam, r) ==
  {l \in host[a].links : \E own \in l.addrs : own[1] = fam /\ own[2] \div 2 = r.to[2] \div 2}

Delivers(q, l, fam, r, proto, port) ==
  PreRouting(q, Dev(l.slot), fam, r.to, proto, PortAfter(r, port))

\* A request to a port of an interface of node a, for its address dst: the
\* pods it reaches, the port it has there, the device it came by, and whether
\* the client's address was kept on the way out of a.
Arrivals(a, iface, fam, dst, proto, port) ==
  LET first == PreRouting(a, iface, fam, dst, proto, port)
      direct == {r \in first : r.to[1] = "pod"}
      kept(r, oif) == Exempted(a, oif, fam, None, 0, r.to, PortAfter(r, port), proto)
  IN {[pod |-> r.to[2], port |-> PortAfter(r, port), dev |-> Cni, kept |-> kept(r, Cni)] :
        r \in direct} \cup
     UNION {UNION {{[pod |-> t.to[2], port |-> PortAfter(t, PortAfter(r, port)),
                     dev |-> Dev(l.slot), kept |-> kept(r, Dev(l.slot))] :
                      t \in UNION {Delivers(q, l, fam, r, proto, port) : q \in FarEnd(a, l)}} :
                   l \in Over(a, fam, r)} : r \in first \ direct}

\* The node a pod's reply to such an arrival leaves the cluster by.
Exit(d, fam, proto) ==
  LET e == PodNode[d.pod] IN
  ReplyExit(e, fam, ReplyMark(e, d.pod, fam, proto, d.port, CtMark(e, d.dev)))

-----------------------------------------------------------------------------
(* Status.                                                                 *)

\* resolveProgrammed: the serving node's row, an interface there, and a link
\* for every programmer off the pod's node.
Programmed(m) ==
  /\ Programmers(m) # {}
  /\ \A s \in Serving(m) : <<Of(m).class, s>> \in rows
  /\ \A s \in Serving(m) : InterfacesFor(m, s) # {}
  /\ \A e \in EndpointNode(m) : \A q \in Programmers(m) \ {e} :
       SlotFor(Of(m).class, q, e) # {}

-----------------------------------------------------------------------------
(* Metrics.                                                                *)

Role(iface) == IF iface[1] = "kup" THEN "deliver" ELSE "accept"

\* Mutant of CountFlows: a rule's pinned destination is not looked at.
CountFlowsAnyDst(n, flow) ==
  {d.iface : d \in {x \in host[n].snap : /\ x.fam = flow.fam /\ x.to = flow.replySrc
                                         /\ InSel(x.sel, flow.proto, flow.port)}}

\* CountFlows: the interfaces of the rules a conntrack entry may be counted
\* for, those pinned to its original destination before those that are not
\* (the first of them in the order of the State gets it).
CountFlows(n, flow) ==
  LET cands == {d \in host[n].snap : /\ d.fam = flow.fam /\ d.to = flow.replySrc
                                     /\ InSel(d.sel, flow.proto, flow.port)}
      pinned == {d \in cands : d.dst = flow.origDst}
      open == {d \in cands : d.dst = None}
  IN {d.iface : d \in IF pinned # {} THEN pinned ELSE open}

-----------------------------------------------------------------------------
(* Behaviour.                                                              *)

RPInit ==
  /\ portmaps = [n \in Names |-> Absent]
  /\ ready = {}
  /\ nodes = Nodes
  /\ now = 0
  /\ pool = [s \in Slots |-> Absent]
  /\ host = [n \in Nodes |-> Empty]
  /\ rows = {}
  /\ changes = 0

\* One object changes.
ObjectChanges ==
  /\ changes < MaxChanges
  /\ changes' = changes + 1
  /\ \/ \E n \in Names : Delete(n) \/ \E s \in Offered[n] : Create(n, s)
     \/ \E p \in Pods : PodChanges(ready \cup {p}) \/ PodChanges(ready \ {p})
     \/ \E N \in NodeSets : NodeChanges(N)
  /\ UNCHANGED <<pool, host, rows>>

\* buildClassStatus: a node has a row in each class it accepts for, no other.
ClassRows(n) == {c \in Classes : n \in ClassNodes[c] \cap nodes} \X {n}

\* The node's agent computes, applies and reports.
Pass(n) ==
  /\ host' = [host EXCEPT ![n] = Render(n, BuildState(n))]
  /\ rows' = rows \cup ClassRows(n)
  /\ UNCHANGED <<vars, pool, changes>>

\* Teardown: the agent stops and takes its rules and devices with it.
Stop(n) ==
  /\ changes < MaxChanges
  /\ changes' = changes + 1
  /\ host[n] # Empty
  /\ host' = [host EXCEPT ![n] = Empty]
  /\ UNCHANGED <<vars, pool, rows>>

\* A needed pair without a Link gets the lowest free slot.
LinkLands ==
  /\ \E s \in First({t \in Slots : pool[t] = Absent}), np \in NeededPairs :
       /\ \A t \in Slots : pool[t] # Key(np.class, np.peer, np.holder)
       /\ pool' = [pool EXCEPT ![s] = Key(np.class, np.peer, np.holder)]
  /\ UNCHANGED <<vars, host, rows, changes>>

\* A Link no mapping needs goes after its grace, in which every agent has had
\* a pass (LinkRelease is about that grace).
LinkReleased(s) ==
  /\ pool[s] # Absent
  /\ \A n \in Nodes : \A l \in host[n].links : l.slot # s
  /\ \A np \in NeededPairs : pool[s] # Key(np.class, np.peer, np.holder)
  /\ pool' = [pool EXCEPT ![s] = Absent]
  /\ UNCHANGED <<vars, host, rows, changes>>

RPNext ==
  \/ ObjectChanges
  \/ \E n \in Nodes : Pass(n) \/ Stop(n)
  \/ LinkLands
  \/ \E s \in Slots : LinkReleased(s)

RPSpec == RPInit /\ [][RPNext]_rpvars

-----------------------------------------------------------------------------
(* Properties.                                                             *)

\* The client gets its answer from where it asked, or none: a request that was
\* delivered locally or over a return link has its reply leave the cluster by
\* the node that accepted it, however old the rules of either end are.
\* "A reply has to leave by the link its request arrived on" (emitMapping,
\* reconcile.go:408).
RepliesReturn ==
  \A a \in Nodes : \A i \in UNION {Ifaces[c][a] : c \in Classes} :
    \A f \in Families, t \in Protocols, port \in Ports :
      \A dst \in LocalAddrs[a] : \A d \in Arrivals(a, i, f, dst, t, port) :
        d.dev # Cni \/ PodNode[d.pod] = a => Exit(d, f, t) \subseteq {a}

\* The entry that rule r leaves in conntrack for a flow to dst.
Flow(fam, proto, port, dst, r) ==
  [fam |-> fam, proto |-> proto, port |-> port, origDst |-> dst, replySrc |-> r.to]

\* Every open flow is counted once on each node it crosses: as accept where the
\* client came in, as deliver where it came out of a return link, although a
\* pod's node under Multi has rules of both kinds for one pod and port.
FlowsByRole ==
  \A a \in Nodes : \A i \in UNION {Ifaces[c][a] : c \in Classes} :
    \A f \in Families, t \in Protocols, port \in Ports :
      \A dst \in LocalAddrs[a] : \A r \in PreRouting(a, i, f, dst, t, port) :
        /\ {Role(x) : x \in CountFlows(a, Flow(f, t, port, dst, r))} = {"accept"}
        /\ r.to[1] # "pod" =>
             \A l \in Over(a, f, r) : \A q \in FarEnd(a, l) :
               \A d \in Delivers(q, l, f, r, t, port) :
                 {Role(x) : x \in CountFlows(q, Flow(f, t, port, r.to, d))} = {"deliver"}

\* The families both nodes deliver the pod in and the programming node has a
\* way in: what its end of the link carries.  The pod's node may think more of
\* the link than the other end does, but never less.
BothEnds(m, a, p) ==
  {f \in PodFamilies(a, p) \cap PodFamilies(PodNode[p], p) :
     a = PodNode[p] \/ LinkCarries(f, Of(m).class, a, PodNode[p])}

\* Programmed=True tells the truth once the agents have caught up: at every
\* programming node, on every port and interface of the mapping, a request
\* reaches the chosen pod on its own port with the client's address kept, and
\* the reply goes back through that node.  This is so although a pod's node
\* outside the class has no row, and the ends of its link size it differently.
ProgrammedServes ==
  \A m \in Existing :
    Programmed(m) /\ (\A n \in Nodes : host[n] = Render(n, BuildState(n))) =>
      \A p \in Endpoint(m) : \A a \in Programmers(m) :
        \A i \in InterfacesFor(m, a), port \in Of(m).first .. Of(m).last :
          \A f \in BothEnds(m, a, p) : \A dst \in {x \in LocalAddrs[a] : x[1] = f} :
            LET ds == Arrivals(a, i, f, dst, Of(m).proto, port) IN
            /\ ds # {}
            /\ \A d \in ds : /\ d.pod = p /\ d.kept
                             /\ InSel(PodSel(m, p), Of(m).proto, d.port)
                             /\ Exit(d, f, Of(m).proto) = {a}

=============================================================================
