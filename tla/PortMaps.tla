------------------------------ MODULE PortMaps ------------------------------
(***************************************************************************)
(* What Compute decides about PortMaps, for whatever PortMaps, endpoints   *)
(* and nodes exist: which are accepted (internal/reconcile/conflicts.go),  *)
(* which endpoint each one delivers to and which nodes program it          *)
(* (endpoints.go), which return links that needs (links.go), and who       *)
(* writes its status (status.go).                                          *)
(*                                                                         *)
(* The variables are the cluster's objects; they change freely.  All the   *)
(* decisions are functions of them, the same on every agent that sees the  *)
(* same objects.                                                           *)
(*                                                                         *)
(* Names are numbers in bytewise order: PortMaps (namespace and name),     *)
(* pods (targetRef) and nodes.  A Service port is one value.  Port bounds  *)
(* and reserved ports are those of every class.                            *)
(***************************************************************************)
EXTENDS Integers, FiniteSets, Sequences

CONSTANTS
  Names, Classes, Protocols, Services,
  Ports,       \* the port numbers a PortMap may name
  MinPort, MaxPort, Reserved,
  Flaws,       \* why a class may refuse a PortMap whatever its port
  Nodes,       \* nodes the cluster may have
  ClassNodes,  \* ClassNodes[c]: the nodes class c names
  Multi,       \* the classes with servingMode Multi
  NoReturn,    \* the classes with returnPath None
  Pods, PodService, PodNode, PodPort,
  MaxSeconds,  \* bound on creation timestamps
  Absent

ASSUME PortMapsAssumption ==
  /\ Names \subseteq Nat /\ Nodes \subseteq Nat /\ Pods \subseteq Nat
  /\ Ports \subseteq Nat /\ MinPort \in Nat /\ MaxPort \in Nat
  /\ Flaws \subseteq {"None", "ClassNotFound", "NamespaceNotSelected",
                      "InterfaceNotInClass"}
  /\ ClassNodes \in [Classes -> SUBSET Nodes]
  /\ Multi \subseteq Classes /\ NoReturn \subseteq Classes
  /\ PodService \in [Pods -> Services] /\ PodNode \in [Pods -> Nodes]
  /\ PodPort \in [Pods -> Nat]          \* 0: the slice gives no number
  /\ MaxSeconds \in Nat

VARIABLES
  portmaps,  \* portmaps[n]: the PortMap called n, or Absent
  ready,     \* the pods with a ready endpoint
  nodes,     \* the Node objects of the cluster
  now        \* the API server's clock, in seconds

vars == <<portmaps, ready, nodes, now>>

PortMapSpec ==
  [class : Classes, flaw : Flaws, proto : Protocols, first : Ports, last : Ports,
   service : Services]

Existing == {n \in Names : portmaps[n] # Absent}

Of(n) == portmaps[n].spec

-----------------------------------------------------------------------------
(* Acceptance.                                                             *)

\* Mutant of Earlier: the name alone decides.
EarlierName(a, b) == a < b

\* Creation time, then name.
Earlier(a, b) ==
  \/ portmaps[a].created < portmaps[b].created
  \/ portmaps[a].created = portmaps[b].created /\ a < b

\* gatherCandidates: the ready endpoints of the mapping's Service port.
Candidates(n) == {p \in ready : PodService[p] = Of(n).service}

\* A ready endpoint lists another number than the mapping's port.
DifferingPort(n) == \E p \in Candidates(n) : PodPort[p] \notin {0, Of(n).first}

Translates(n) == Of(n).first = Of(n).last /\ DifferingPort(n)

\* Mutant of EitherTranslates: only the later mapping is asked.
LaterTranslates(o, n) == Translates(n)

EitherTranslates(o, n) == Translates(o) \/ Translates(n)

\* The earlier mappings on the same Service port when either translates.
SharedTarget(n) ==
  {o \in Existing : /\ Earlier(o, n)
                    /\ Of(o).proto = Of(n).proto
                    /\ Of(o).service = Of(n).service
                    /\ EitherTranslates(o, n)}

\* validateStandalone: the first check that fails gives the reason.
Checks(n) ==
  LET m == Of(n) IN
  <<[reason |-> "ClassNotFound",        fails |-> m.flaw = "ClassNotFound"],
    [reason |-> "InvalidPortRange",     fails |-> m.last < m.first],
    [reason |-> "NamespaceNotSelected", fails |-> m.flaw = "NamespaceNotSelected"],
    [reason |-> "PortOutOfRange",       fails |-> m.first < MinPort \/ m.last > MaxPort],
    [reason |-> "PortReserved",         fails |-> m.first .. m.last \cap Reserved # {}],
    [reason |-> "InterfaceNotInClass",  fails |-> m.flaw = "InterfaceNotInClass"],
    [reason |-> "RangeTranslation",     fails |-> m.first # m.last /\ DifferingPort(n)],
    [reason |-> "TargetPortInUse",      fails |-> SharedTarget(n) # {}]>>

FirstFailure(checks) ==
  LET failing == {i \in DOMAIN checks : checks[i].fails} IN
  IF failing = {} THEN "Valid"
  ELSE checks[CHOOSE i \in failing : \A j \in failing : i <= j].reason

ValidateStandalone(n) == FirstFailure(Checks(n))

\* Mutant of Overlap: ranges that share one port at their ends are let pass.
OverlapInside(m, h) == m.first < h.last /\ h.first < m.last

\* Two inclusive intervals.
Overlap(m, h) == m.first <= h.last /\ h.first <= m.last

\* Mutant of Taken: holders of the other protocol block too.
TakenAnyProtocol(n, held) == \E h \in held : Overlap(Of(n), Of(h))

\* firstOverlap: does a held mapping of the group take one of n's ports?
Taken(n, held) ==
  \E h \in held : Of(h).proto = Of(n).proto /\ Overlap(Of(n), Of(h))

Group(c) == {n \in Existing : Of(n).class = c}

\* resolveConflicts: a class's mappings are taken earliest first, and one that
\* passes every check holds its ports unless an earlier holder has one of them.
\* This is what the loop's holders satisfy; ConflictLoop has the loop itself.
Held(c) ==
  LET valid == {n \in Group(c) : ValidateStandalone(n) = "Valid"} IN
  CHOOSE H \in SUBSET valid :
    \A n \in valid : n \in H <=> ~Taken(n, {h \in H : Earlier(h, n)})

Accepted(n) == n \in Held(Of(n).class)

Reason(n) ==
  IF ValidateStandalone(n) # "Valid" THEN ValidateStandalone(n)
  ELSE IF Accepted(n) THEN "Valid" ELSE "PortConflict"

-----------------------------------------------------------------------------
(* Endpoint and roles of an accepted mapping.                              *)

\* The nodes the class names that the cluster has.
Accepting(n) ==
  IF Of(n).flaw = "ClassNotFound" THEN {} ELSE ClassNodes[Of(n).class] \cap nodes

\* Mutant of Preferred: the first by targetRef, wherever it runs.
PreferredByName(n, p, q) == p < q

\* Pods on an accepting node first, by node; then by targetRef.
Preferred(n, p, q) ==
  LET here(x) == PodNode[x] \in Accepting(n) IN
  \/ here(p) /\ ~here(q)
  \/ here(p) /\ here(q) /\ PodNode[p] < PodNode[q]
  \/ /\ IF here(p) THEN here(q) /\ PodNode[p] = PodNode[q] ELSE ~here(q)
     /\ p < q

ChooseEndpoint(n) ==
  {p \in Candidates(n) : \A q \in Candidates(n) \ {p} : Preferred(n, p, q)}

\* Endpoint and serving node are sets of at most one element: {} is nil.
Endpoint(n) == IF Accepted(n) THEN ChooseEndpoint(n) ELSE {}

EndpointNode(n) == {PodNode[p] : p \in Endpoint(n)}

First(S) == {x \in S : \A y \in S : x <= y}

Serving(n) ==
  IF ~Accepted(n) THEN {}
  ELSE IF EndpointNode(n) \cap Accepting(n) # {} THEN EndpointNode(n)
  ELSE First(Accepting(n))

\* Before the refusal of a return path: all accepting nodes, or the one.
Candidate(n) == IF Of(n).class \in Multi THEN Accepting(n) ELSE Serving(n)

\* Mutant of Remote: only the serving node is asked.
RemoteServing(n) == Serving(n) \ EndpointNode(n) # {}

Remote(n) == Candidate(n) \ EndpointNode(n) # {}

\* decideRole: who writes the mapping's rules.
Programmers(n) ==
  IF \/ Endpoint(n) = {}
     \/ Remote(n) /\ Of(n).class \in NoReturn
    THEN {} ELSE Candidate(n)

\* neededPairs: a link for every programmer off the pod's node, proposed by
\* that node.
NeededPairs ==
  UNION {{[class |-> Of(n).class, peer |-> p, holder |-> h] :
            p \in Programmers(n) \ EndpointNode(n), h \in EndpointNode(n)} :
         n \in {x \in Existing : Remote(x)}}

\* Mutant of StatusOwner: an endpoint-less mapping falls to the class's nodes.
OwnerInClass(n) ==
  IF Serving(n) # {} THEN Serving(n)
  ELSE IF EndpointNode(n) # {} THEN EndpointNode(n)
  ELSE First(ClassNodes[Of(n).class])

\* statusOwner: the first of these that there is.
StatusOwner(n) ==
  IF Serving(n) # {} THEN Serving(n)
  ELSE IF EndpointNode(n) # {} THEN EndpointNode(n)
  ELSE IF Accepting(n) # {} THEN First(Accepting(n))
  ELSE First(nodes)

-----------------------------------------------------------------------------
(* The objects come and go.                                                *)

Init ==
  /\ portmaps = [n \in Names |-> Absent]
  /\ ready \in SUBSET Pods
  /\ nodes \in SUBSET Nodes
  /\ now = 0

Create(n, s) ==
  /\ portmaps[n] = Absent
  /\ portmaps' = [portmaps EXCEPT ![n] = [spec |-> s, created |-> now]]
  /\ UNCHANGED <<ready, nodes, now>>

Delete(n) ==
  /\ portmaps[n] # Absent
  /\ portmaps' = [portmaps EXCEPT ![n] = Absent]
  /\ UNCHANGED <<ready, nodes, now>>

PodChanges(R) ==
  /\ R # ready
  /\ ready' = R
  /\ UNCHANGED <<portmaps, nodes, now>>

NodeChanges(N) ==
  /\ N # nodes
  /\ nodes' = N
  /\ UNCHANGED <<portmaps, ready, now>>

Second ==
  /\ now < MaxSeconds
  /\ now' = now + 1
  /\ UNCHANGED <<portmaps, ready, nodes>>

Next ==
  \/ \E n \in Names : Delete(n) \/ \E s \in PortMapSpec : Create(n, s)
  \/ \E R \in SUBSET Pods : PodChanges(R)
  \/ \E N \in SUBSET Nodes : NodeChanges(N)
  \/ Second

Spec == Init /\ [][Next]_vars

-----------------------------------------------------------------------------
(* Properties.                                                             *)

\* The mappings a class has accepted claim every port of a protocol at most
\* once.
HeldDisjoint ==
  \A a, b \in Existing :
    /\ a # b /\ Accepted(a) /\ Accepted(b)
    /\ Of(a).class = Of(b).class /\ Of(a).proto = Of(b).proto
    => Of(a).first .. Of(a).last \cap Of(b).first .. Of(b).last = {}

\* A mapping is refused with PortConflict only when an earlier mapping that is
\* itself accepted has one of its ports: a refused mapping blocks no other.
ConflictHasHolder ==
  \A n \in Existing :
    Reason(n) = "PortConflict" =>
      \E h \in Existing :
        /\ Accepted(h) /\ Earlier(h, n)
        /\ Of(h).class = Of(n).class /\ Of(h).proto = Of(n).proto
        /\ Of(h).first .. Of(h).last \cap Of(n).first .. Of(n).last # {}

\* A pod's node tells replies apart by pod address and port.  Of the accepted
\* mappings on one Service port, if one translates it is alone.
OneReturnRule ==
  \A a, b \in Existing :
    /\ a # b /\ Accepted(a) /\ Accepted(b)
    /\ Of(a).proto = Of(b).proto /\ Of(a).service = Of(b).service
    => ~Translates(a) /\ ~Translates(b)

\* Whoever comes a second later changes nothing for those who were there:
\* neither takes a port from them nor gives one back.
LaterChangesNothing ==
  [][\A n \in Names :
       /\ portmaps[n] = Absent /\ portmaps'[n] # Absent
       /\ \A o \in Existing : portmaps[o].created < now
       => \A o \in Existing : Reason(o)' = Reason(o)]_vars

\* Every node that forwards a mapping has a way back for the replies: it has
\* the pod, or a return link to the pod's node is asked for.
WayBack ==
  \A n \in Existing : \A p \in Programmers(n) :
    \/ p \in EndpointNode(n)
    \/ /\ Of(n).class \notin NoReturn
       /\ \E np \in NeededPairs : /\ np.class = Of(n).class /\ np.peer = p
                                  /\ np.holder \in EndpointNode(n)

\* Under Single no return link is asked for while an accepting node has a
\* ready pod of the mapping.
LocalFirst ==
  \A n \in Existing :
    /\ Accepted(n) /\ Of(n).class \notin Multi
    /\ \E p \in Candidates(n) : PodNode[p] \in Accepting(n)
    => Programmers(n) \subseteq EndpointNode(n) /\ Programmers(n) # {}

\* Each mapping's status has one writer, and its agent is in the cluster, as
\* long as the node of the chosen endpoint is: the fallbacks of statusOwner
\* cover refused mappings, missing endpoints and classes that select no node.
OneWriter ==
  \A n \in Existing :
    nodes # {} /\ EndpointNode(n) \subseteq nodes => \E w \in nodes : StatusOwner(n) = {w}

=============================================================================
