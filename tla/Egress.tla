------------------------------- MODULE Egress -------------------------------
(***************************************************************************)
(* Egress: pods whose default-route traffic leaves by another node         *)
(* (internal/reconcile/egress.go, with buildInputs, the writes of the two  *)
(* statuses and the keep state of the shutdown).                           *)
(*                                                                         *)
(* Every agent decides every Egress from its own caches.  The pod's node   *)
(* marks the pod's flows and routes them into a link or a blackhole, the   *)
(* egress node takes them off the link and sends the replies back, and     *)
(* each writes the class row that the other one's decision waits for.      *)
(*                                                                         *)
(* Abstractions:                                                           *)
(*  - Nodes, classes and Egresses are numbers, in the order of the names;  *)
(*  - a pod that is absent, unscheduled, finished or without an address is *)
(*    the same to selectedPods: Absent;                                    *)
(*  - a link is its key, the class and the pair of nodes.  Links land in   *)
(*    and leave the pool as LinkPool says; here only that they do;         *)
(*  - a rule at egressDivertPref, its suppress rule and the default route  *)
(*    of its table come and go together: a way, <<mark, family>>;          *)
(*  - a pass programs the host and writes the statuses in one step (the    *)
(*    views it reads may be old by any amount), and a failed apply leaves  *)
(*    the host as it was; NodeDatapath has what lies in between.           *)
(***************************************************************************)
EXTENDS Integers, FiniteSets, FiniteSetsExt

CONSTANTS
  Nodes,       \* node names, numbers in sorted order; one agent each
  Pods,        \* pods of one namespace
  Egresses,    \* Egress names of that namespace, numbers in sorted order
  Classes,     \* EgressClass names, numbers in sorted order
  Labels,      \* what a selector asks for and a pod has
  PoolSize,    \* linkSlots
  Moves,       \* the kinds of change that happen, see Others
  MaxChanges,  \* bound on the changes in one behaviour
  MaxFaults,   \* bound on failed applies, crashes and shutdowns
  Absent,      \* no such object
  NoNode,      \* the egress node of a class that names no Node: ""
  Blocked      \* EgressBlockedMark and its table

Families == {4, 6}
Keys == {<<c, P>> : c \in Classes, P \in {{m, n} : m, n \in Nodes}}

EgressObject == [at : 1 .. 2, class : Classes, sel : Labels, closed : BOOLEAN]
PodObject == [node : Nodes, labels : SUBSET Labels, fams : SUBSET Families \ {{}}]
NodeObject == [ready : BOOLEAN, cidrs : BOOLEAN, addr : BOOLEAN]
\* rows[n]: none, or what n wrote: whether a link to it carries IPv6 (it
\* forwards, and its MTU is enough).  full: the condition that says the pool
\* is exhausted.
ClassObject == [node : Nodes, open : BOOLEAN,
                rows : [Nodes -> {"none", "v4", "v6"}], full : BOOLEAN]

World == [egress : [Egresses -> EgressObject \cup {Absent}],
          pod    : [Pods -> PodObject \cup {Absent}],
          node   : [Nodes -> NodeObject \cup {Absent}],
          class  : [Classes -> ClassObject \cup {Absent}],
          link   : SUBSET Keys]
Kinds == {"egress", "pod", "node", "class", "link"}

Marks == Keys \cup {Blocked}
\* What one node holds: the marks of kup-egress, the devices, the links the
\* gateway half serves, and the ways.
HostState == [marks   : SUBSET (Pods \X Families \X Marks),
              devices : SUBSET [key : Keys, v6 : BOOLEAN],
              gateway : SUBSET Keys,
              ways    : SUBSET (Marks \X Families)]
Nothing == [marks |-> {}, devices |-> {}, gateway |-> {}, ways |-> {}]

Paths == {"Link", "Local", "Blocked", "Direct"}
Reasons == {"NodeNotFound", "Conflict", "CIDRsUnknown", "Exhausted",
            "PathDown", "AllPodsRouted"}
\* The two conditions: Accepted, and the reason of Programmed or "unset".
Status == [node : Nodes \cup {NoNode},
           paths : SUBSET (Pods \X Families \X Paths),
           accepted : BOOLEAN, programmed : Reasons \cup {"unset"}]

ASSUME EgressAssumption ==
  /\ NoNode \notin Nodes /\ Blocked \notin Keys
  /\ Absent \notin ClassObject
  /\ MaxChanges \in Nat /\ MaxFaults \in Nat

VARIABLES
  world,     \* the objects in the API server
  status,    \* status[e] of an Egress, Absent until written
  view,      \* view[a][kind]: agent a's cache of a kind
  six,       \* six[n]: host n forwards no IPv6 ("none"), forwards it on an
             \* underlay too small for a link with IPv6 ("narrow"), or "full"
  host,      \* host[n]: what is programmed on n
  keep,      \* keep[n]: what n's shutdown will apply, Absent before a pass
  lapsed,    \* ghost: the <<pod, family>> not under a fail-closed Egress
             \* at all times so far
  moved,     \* ghost: a pod was relabelled or a class changed
  changes, faults

vars == <<world, status, view, six, host, keep, lapsed, moved, changes, faults>>

-----------------------------------------------------------------------------
(* The decisions, from a view v.                                           *)

\* The class exists and selects the namespace.
Ok(v, e) ==
  /\ v.egress[e] # Absent
  /\ v.class[v.egress[e].class] # Absent
  /\ v.class[v.egress[e].class].open

SelectedPods(v, e) ==
  {p \in Pods : v.pod[p] # Absent /\ v.egress[e].sel \in v.pod[p].labels}

\* The order of resolveEgresses: creation, then name.
Earlier(v, d, e) ==
  \/ v.egress[d].at < v.egress[e].at
  \/ v.egress[d].at = v.egress[e].at /\ d < e

Contends(v, e, p) == Ok(v, e) /\ p \in SelectedPods(v, e)

\* Of the accepted Egresses that select a pod, the earliest claims it.
Decides(v, e, p) ==
  /\ Contends(v, e, p)
  /\ \A d \in Egresses \ {e} : Contends(v, d, p) => Earlier(v, e, d)

\* The egress node: the class's node if it is a Node.
Gate(v, e) ==
  LET n == v.class[v.egress[e].class].node
  IN  IF v.node[n] # Absent THEN n ELSE NoNode

NodeOf(v, p) == v.pod[p].node

Decided(v) == {x \in Egresses \X Pods : Decides(v, x[1], x[2])}

PodCIDRsKnown(v) ==
  /\ \A n \in Nodes : v.node[n] # Absent => v.node[n].cidrs
  /\ \E n \in Nodes : v.node[n] # Absent

\* nodeReady, and that buildLinkParams finds an address.
NodeReady(v, n) == v.node[n] # Absent /\ v.node[n].ready
HasAddr(v, n) == v.node[n].addr

\* Mutant of Path6: a link that carries no IPv6 leaves IPv6 as it is.
Path6Open(local, linked, has6, down) ==
  IF local THEN "Local" ELSE IF has6 THEN "Link" ELSE IF linked THEN "Direct" ELSE down

\* Mutant of Path6: it is set on the link alone.
Path6Unset(local, linked, has6, down) == IF has6 THEN "Link" ELSE "unset"

Path6(local, linked, has6, down) ==
  IF local THEN "Local" ELSE IF has6 THEN "Link" ELSE down

\* decidePaths: one pod under the Egress that decides it.  Its path is the
\* link when all that both ends need is there, over IPv6 only when both rows
\* say so; the field needs is the test of addEgressNeeds.
EgressPod(v, e, p) ==
  LET c == v.egress[e].class
      g == Gate(v, e)
      n == NodeOf(v, p)
      row == v.class[c].rows
      needs == g # NoNode /\ g # n /\ 4 \in v.pod[p].fams
      linked == /\ needs
                /\ PodCIDRsKnown(v)
                /\ NodeReady(v, g) /\ NodeReady(v, n)
                /\ <<c, {g, n}>> \in v.link
                /\ row[g] # "none" /\ row[n] # "none"
                /\ HasAddr(v, g) /\ HasAddr(v, n)
      has6 == linked /\ 6 \in v.pod[p].fams /\ row[g] = "v6" /\ row[n] = "v6"
      down == IF v.egress[e].closed THEN "Blocked" ELSE "Direct"
  IN [eg |-> e, class |-> c, gate |-> g, pod |-> p, node |-> n,
      fams |-> v.pod[p].fams, closed |-> v.egress[e].closed,
      key |-> <<c, {g, n}>>, needs |-> needs, linked |-> linked, has6 |-> has6,
      path |-> IF g = n THEN "Local" ELSE IF linked THEN "Link" ELSE down,
      path6 |-> Path6(g = n, linked, has6, down)]

\* resolveEgresses and decidePaths: a record for each pod that is decided.
Decisions(v) == {EgressPod(v, x[1], x[2]) : x \in Decided(v)}

PathOf(d, f) == IF f = 4 THEN d.path ELSE d.path6

Needed(D) == {d.key : d \in {x \in D : x.needs}}

\* allocateLinks: the missing keys in order take what is free.
KeyOrder(k) == (k[1] * (Max(Nodes) + 1) + Min(k[2])) * (Max(Nodes) + 1) + Max(k[2])
Exhausted(v, D, c) ==
  \E k \in Needed(D) \ v.link :
    /\ k[1] = c
    /\ Cardinality(v.link)
         + Cardinality({j \in Needed(D) \ v.link : KeyOrder(j) < KeyOrder(k)}) >= PoolSize

-----------------------------------------------------------------------------
(* What the decisions D give to node n, whose host forwards IPv6 or not (F). *)

\* Mutant of UnifyLinkAddr6: every copy of a link stays as it was emitted.
KeepCopies(L) == L

\* unifyLinkAddr6: every copy of a link carries IPv6 when one of them does.
UnifyLinkAddr6(L) ==
  {[key |-> d.key, v6 |-> \E x \in L : x.key = d.key /\ x.v6] : d \in L}

\* The families node n handles for a pod of its own.
Here(n, D, F) ==
  {x \in D \X Families : x[1].node = n /\ x[2] \in x[1].fams /\ (x[2] = 6 => F)}

MarkOf(x) == IF PathOf(x[1], x[2]) = "Link" THEN x[1].key ELSE Blocked

\* emitEgress: emitEgressPodNode, emitBlocked and emitEgressGateway.
EmitEgress(n, D, F) ==
  LET M == {x \in Here(n, D, F) : PathOf(x[1], x[2]) \in {"Link", "Blocked"}}
      L == {d \in D : d.linked /\ n \in d.key[2]}
      G == {d \in L : d.gate = n}
  IN [marks   |-> {<<x[1].pod, x[2], MarkOf(x)>> : x \in M},
      devices |-> UnifyLinkAddr6({[key |-> d.key, v6 |-> d.has6 /\ F] : d \in L}),
      gateway |-> {d.key : d \in G},
      ways    |-> {<<MarkOf(x), x[2]>> : x \in M}
                    \cup {<<d.key, 4>> : d \in G}
                    \cup {<<d.key, 6>> : d \in {y \in G : y.has6 /\ F}}]

BlackHole(B) == [Nothing EXCEPT !.marks = {<<x[1].pod, x[2], Blocked>> : x \in B},
                                !.ways = {<<Blocked, x[2]>> : x \in B}]

\* keepState: every fail-closed pod here that is not local, in the blackhole.
KeepState(n, D, F) ==
  BlackHole({x \in Here(n, D, F) : x[1].closed /\ x[1].path # "Local"})

-----------------------------------------------------------------------------
(* What node n writes to the API server.                                   *)

\* Mutant of TakesPart: the egress node alone writes a row.
TakesPartGate(n, v, D, c) == v.class[c].node = n

\* buildEgressClassStatus: the classes n has a row in.
TakesPart(n, v, D, c) ==
  v.class[c].node = n \/ \E d \in D : d.class = c /\ d.node = n

WriteEgressClass(n, v, D, c) ==
  IF v.class[c] # Absent /\ world.class[c] # Absent /\ TakesPart(n, v, D, c)
    THEN [world.class[c] EXCEPT !.rows[n] = IF six[n] = "full" THEN "v6" ELSE "v4",
                                !.full = Exhausted(v, D, c)]
    ELSE world.class[c]

\* The egress node writes the status, or without one the first Node.
Owner(v, e) ==
  IF Ok(v, e) /\ Gate(v, e) # NoNode
    THEN Gate(v, e)
    ELSE IF \A n \in Nodes : v.node[n] = Absent
           THEN NoNode
           ELSE Min({n \in Nodes : v.node[n] # Absent})

Pathless(d) == d.path \notin {"Link", "Local"}

\* egressProgrammed: the first reason that applies.
Programmed(v, D, e) ==
  LET mine == {d \in D : d.eg = e} IN
  CASE Gate(v, e) = NoNode                         -> "NodeNotFound"
    [] SelectedPods(v, e) # {d.pod : d \in mine}   -> "Conflict"
    [] ~PodCIDRsKnown(v)                           -> "CIDRsUnknown"
    [] Exhausted(v, D, v.egress[e].class)          -> "Exhausted"
    [] \E d \in mine : Pathless(d)                 -> "PathDown"
    [] OTHER                                       -> "AllPodsRouted"

\* buildEgressStatus, merged by writeEgress: node and pods are replaced, of
\* the conditions only those that are given. An Egress that is refused gets no
\* Programmed, so the one it had stays.
EgressStatus(v, D, e) ==
  [node   |-> IF Ok(v, e) THEN Gate(v, e) ELSE NoNode,
   paths  |-> {<<x[1].pod, x[2], PathOf(x[1], x[2])>> :
                 x \in {y \in D \X Families :
                          y[1].eg = e /\ y[2] \in {4} \cup y[1].fams}},
   accepted   |-> Ok(v, e),
   programmed |-> IF Ok(v, e) THEN Programmed(v, D, e)
                  ELSE IF status[e] = Absent THEN "unset" ELSE status[e].programmed]

WriteEgress(n, v, D, e) ==
  IF v.egress[e] # Absent /\ world.egress[e] # Absent /\ Owner(v, e) = n
    THEN EgressStatus(v, D, e)
    ELSE status[e]

-----------------------------------------------------------------------------
\* The pod is under a fail-closed Egress of a class whose node is another.
Secured(w, p, f) ==
  /\ \E e \in Egresses : /\ Decides(w, e, p)
                         /\ w.egress[e].closed
                         /\ w.class[w.egress[e].class].node # NodeOf(w, p)
  /\ f \in w.pod[p].fams

Lapsed(w, fw) ==
  {x \in Pods \X Families :
     ~(Secured(w, x[1], x[2]) /\ (x[2] = 6 => fw[NodeOf(w, x[1])] # "none"))}

TypeOK ==
  /\ world \in World
  /\ status \in [Egresses -> Status \cup {Absent}]
  /\ view \in [Nodes -> World]
  /\ six \in [Nodes -> {"none", "narrow", "full"}]
  /\ host \in [Nodes -> HostState]
  /\ keep \in [Nodes -> HostState \cup {Absent}]
  /\ lapsed \subseteq Pods \X Families /\ moved \in BOOLEAN
  /\ changes \in 0 .. MaxChanges /\ faults \in 0 .. MaxFaults

\* The agents start on hosts that hold nothing, with their caches synced.
StartIn(worlds, fw) ==
  /\ world \in worlds
  /\ status = [e \in Egresses |-> Absent]
  /\ view = [n \in Nodes |-> world]
  /\ six = fw
  /\ host = [n \in Nodes |-> Nothing]
  /\ keep = [n \in Nodes |-> Absent]
  /\ lapsed = Lapsed(world, six) /\ moved = FALSE
  /\ changes = 0 /\ faults = 0

-----------------------------------------------------------------------------
(* The environment.                                                        *)

Change(w, fw) ==
  /\ changes < MaxChanges
  /\ <<w, fw>> # <<world, six>>
  /\ world' = w
  /\ six' = fw
  /\ changes' = changes + 1
  /\ lapsed' = lapsed \cup Lapsed(w, fw)
  /\ moved' = \/ moved
              \/ w.class # world.class
              \/ \E p \in Pods : world.pod[p] # Absent /\ w.pod[p] # world.pod[p]
  /\ UNCHANGED <<view, host, keep, faults>>

\* A user creates, edits or deletes an Egress; its class never changes.
EgressChanges(e) ==
  /\ "egress" \in Moves
  /\ \E x \in EgressObject \cup {Absent} :
       /\ world.egress[e] # Absent /\ x # Absent =>
            x.class = world.egress[e].class /\ x.at = world.egress[e].at
       /\ Change([world EXCEPT !.egress[e] = x], six)
       /\ status' = IF x = Absent THEN [status EXCEPT ![e] = Absent] ELSE status

\* Pods come and go; a pod stays on its node and keeps its addresses.
PodChanges(p) ==
  /\ "pod" \in Moves
  /\ \E x \in PodObject \cup {Absent} :
       /\ world.pod[p] = Absent \/ x = Absent
       /\ Change([world EXCEPT !.pod[p] = x], six)
  /\ UNCHANGED status

Relabel(p) ==
  /\ "relabel" \in Moves /\ world.pod[p] # Absent
  /\ \E L \in SUBSET Labels : Change([world EXCEPT !.pod[p].labels = L], six)
  /\ UNCHANGED status

NodeChanges(n) ==
  /\ "node" \in Moves
  /\ \E x \in NodeObject \cup {Absent} : Change([world EXCEPT !.node[n] = x], six)
  /\ UNCHANGED status

\* A class is created, without rows, or deleted; it names another node, or
\* stops or starts to select the namespace.
ClassChanges(c) ==
  /\ "class" \in Moves
  /\ \/ /\ world.class[c] = Absent
        /\ \E n \in Nodes, o \in BOOLEAN :
             Change([world EXCEPT !.class[c] =
                       [node |-> n, open |-> o, full |-> FALSE,
                        rows |-> [m \in Nodes |-> "none"]]], six)
     \/ /\ world.class[c] # Absent
        /\ \/ Change([world EXCEPT !.class[c] = Absent], six)
           \/ \E n \in Nodes, o \in BOOLEAN :
                Change([world EXCEPT !.class[c].node = n, !.class[c].open = o], six)
  /\ UNCHANGED status

\* Forwarding is a sysctl of the host, and the MTU a link's: no watch
\* reports either.
HostChanges(n) ==
  /\ "host" \in Moves
  /\ \E x \in {"none", "narrow", "full"} : Change(world, [six EXCEPT ![n] = x])
  /\ UNCHANGED status

\* The pool, as LinkPool has it: an end that needs a pair gets its Link while
\* there is a slot, and the Link of a pair that no agent has seen needed for
\* unusedLinkAge is released.
LinkLands(k) ==
  /\ k \notin world.link
  /\ Cardinality(world.link) < PoolSize
  /\ world' = [world EXCEPT !.link = @ \cup {k}]
  /\ \E a \in k[2] : k \in Needed(Decisions(view[a]))
  /\ UNCHANGED <<status, view, six, host, keep, lapsed, moved, changes, faults>>

LinkReleased(k) ==
  /\ k \in world.link
  /\ world' = [world EXCEPT !.link = @ \ {k}]
  /\ \A a \in Nodes : k \notin Needed(Decisions(view[a]))
  /\ UNCHANGED <<status, view, six, host, keep, lapsed, moved, changes, faults>>

\* Each kind has a watch of its own.
See(a, kind) ==
  /\ view[a][kind] # world[kind]
  /\ view' = [view EXCEPT ![a][kind] = world[kind]]
  /\ UNCHANGED <<world, status, six, host, keep, lapsed, moved, changes, faults>>

Watch(a) == \E kind \in Kinds : See(a, kind)

-----------------------------------------------------------------------------
(* The agent.                                                              *)

\* Compute, apply, write the class rows and the statuses this node owns.
Pass(a) ==
  \E D \in {Decisions(view[a])}, F \in {six[a] # "none"} :
    /\ keep' = [keep EXCEPT ![a] = KeepState(a, D, F)]
    /\ host' = [host EXCEPT ![a] = EmitEgress(a, D, F)]
    /\ world' = [world EXCEPT !.class =
                   [c \in Classes |-> WriteEgressClass(a, view[a], D, c)]]
    /\ status' = [e \in Egresses |-> WriteEgress(a, view[a], D, e)]
    /\ <<keep, host, world, status>>' # <<keep, host, world, status>>
    /\ UNCHANGED <<view, six, lapsed, moved, changes, faults>>

Fault == faults < MaxFaults /\ faults' = faults + 1

\* The keep state is stored before the apply, which then fails.
ApplyFails(a) ==
  /\ Fault
  /\ keep' = [keep EXCEPT ![a] = KeepState(a, Decisions(view[a]), six[a] # "none")]
  /\ UNCHANGED <<world, status, view, six, host, lapsed, moved, changes>>

\* The next agent starts with no keep state and lists everything afresh.
Crash(a) ==
  /\ Fault
  /\ keep' = [keep EXCEPT ![a] = Absent]
  /\ view' = [view EXCEPT ![a] = world]
  /\ UNCHANGED <<world, status, six, host, lapsed, moved, changes>>

\* A clean shutdown applies the keep state, or tears down when that is empty
\* or when there was no pass yet (the run datapath_gap has this case; here
\* the node's pods are taken to have lapsed).
Shutdown(a) ==
  /\ Fault
  /\ host' = [host EXCEPT ![a] = IF keep[a] = Absent THEN Nothing ELSE keep[a]]
  /\ lapsed' = IF keep[a] = Absent
                 THEN lapsed \cup {x \in Pods \X Families :
                                     world.pod[x[1]] # Absent /\ NodeOf(world, x[1]) = a}
                 ELSE lapsed
  /\ keep' = [keep EXCEPT ![a] = Absent]
  /\ view' = [view EXCEPT ![a] = world]
  /\ UNCHANGED <<world, status, six, moved, changes>>

-----------------------------------------------------------------------------
Others ==
  \/ \E e \in Egresses : EgressChanges(e)
  \/ \E p \in Pods : PodChanges(p) \/ Relabel(p)
  \/ \E n \in Nodes : NodeChanges(n) \/ HostChanges(n)
  \/ \E c \in Classes : ClassChanges(c)

Pool == \E k \in Keys : LinkLands(k) \/ LinkReleased(k)

Next ==
  \/ Others
  \/ Pool
  \/ \E a \in Nodes : \/ Watch(a)
                      \/ Pass(a) \/ ApplyFails(a) \/ Crash(a) \/ Shutdown(a)

\* Watches deliver, a pass runs at least every hostPollPeriod, and the pool
\* settles (LinkPool's Settles).
Fairness ==
  /\ \A a \in Nodes : WF_vars(Pass(a)) /\ WF_vars(Watch(a))
  /\ WF_vars(Pool)

-----------------------------------------------------------------------------
(* Where traffic goes.                                                     *)

\* A default-route packet of pod p in family f, with what hosts h hold: no
\* mark, or a mark without a way, and the main table sends it out of the
\* pod's own node.
Leaves(h, n, p, f) ==
  LET marks == {m \in Marks : <<p, f, m>> \in h[n].marks /\ <<m, f>> \in h[n].ways}
      Carries(x, k) == \E d \in h[x].devices : d.key = k /\ (f = 6 => d.v6)
  IN IF marks = {} THEN "Direct"
     ELSE IF marks = {Blocked} THEN "Blocked"
     ELSE IF \E k \in marks \ {Blocked} : \E g \in k[2] \ {n} :
               /\ Carries(n, k) /\ Carries(g, k)
               /\ k \in h[g].gateway /\ <<k, f>> \in h[g].ways
            THEN "Link" ELSE "Lost"

\* The step does not let the pod go.
KeepsHold(p, f) ==
  Leaves(host, NodeOf(world, p), p, f) # "Direct"
    => Leaves(host', NodeOf(world, p), p, f) # "Direct"

\* A pod that was under a fail-closed Egress all the time, once held, never
\* leaves from its own node again, in a family its host forwards: not when its
\* Link, a class row or a Node goes, not when IPv6 alone is down, not over a
\* change of Egresses, a failed pass or a restart (decidePaths, keepState).
\* Not claimed once a pod or a class was edited (moved): caches of different
\* ages (buildInputs) may then release a pod that no true state releases.
StaysHeld ==
  [][\A x \in (Pods \X Families) \ lapsed' : ~moved' => KeepsHold(x[1], x[2])]_vars

\* One device per link on a host, and it has IPv6 when IPv6 is sent into it
\* (several pods, some of them without IPv6, emit the same link).
OneDevice ==
  \A n \in Nodes : \A d \in host[n].devices :
    /\ \A x \in host[n].devices : x.key = d.key => x = d
    /\ <<d.key, 6>> \in host[n].ways => d.v6

\* What a pod's path should be when everything that can be up is up.
Intended(w, e, p, f) ==
  LET g == Gate(w, e)
      n == NodeOf(w, p)
      Up(m) == NodeReady(w, m) /\ HasAddr(w, m) /\ (f = 6 => six[m] = "full")
  IN CASE g = n -> "Local"
       [] /\ g # NoNode /\ 4 \in w.pod[p].fams
          /\ PodCIDRsKnown(w) /\ Up(g) /\ Up(n) -> "Link"
       [] w.egress[e].closed -> "Blocked"
       [] OTHER -> "Direct"

\* Every selected pod's traffic goes where the objects say, the pods nobody
\* selects leave directly, and the status says so.
Settled ==
  /\ \A e \in Egresses, p \in Pods : Decides(world, e, p) =>
       \A f \in world.pod[p].fams :
         LET want == Intended(world, e, p, f) IN
         /\ (f = 6 => six[NodeOf(world, p)] # "none") =>
              Leaves(host, NodeOf(world, p), p, f)
                = IF want = "Local" THEN "Direct" ELSE want
         /\ status[e] # Absent /\ status[e].accepted /\ <<p, f, want>> \in status[e].paths
         /\ want \in {"Blocked", "Direct"} /\ f = 4 => status[e].programmed # "AllPodsRouted"
  /\ \A p \in Pods : 
       world.pod[p] # Absent /\ (\A e \in Egresses : ~Decides(world, e, p)) =>
         \A n \in Nodes, f \in Families : Leaves(host, n, p, f) = "Direct"

\* Once the changes end, both ends and the status agree on the path of every
\* pod, whatever order the rows, the Link and the caches came in (decidePaths
\* is level-driven and waits for the other end's row).
EgressSettles == <>[](Settled \/ \A n \in Nodes : world.node[n] = Absent)

=============================================================================
