---------------------------- MODULE StatusWrites ----------------------------
(***************************************************************************)
(* The status writes of the agents (internal/agent/status.go, and the      *)
(* decisions of internal/reconcile/status.go and reconcile.go they carry): *)
(* every accepting node keeps its own row in the status of the class, and  *)
(* the node that owns a PortMap writes its conditions, which depend on the *)
(* serving node's row.                                                     *)
(*                                                                         *)
(* A write reads the object from the informer cache, merges what this node *)
(* owns into it, and sends the result with the resourceVersion it read; on *)
(* a conflict it does so again, a few times.  The client is the manager's, *)
(* so the object read again is the cached one, which may still be old.     *)
(*                                                                         *)
(* One class, whose nodes all accept, and one PortMap with a local pod:    *)
(* its serving node owns it while it is accepted, and the first node by    *)
(* name while it is refused.  What PortMaps.tla decides is here a world    *)
(* that changes and that each agent sees late.                             *)
(***************************************************************************)
EXTENDS Integers, FiniteSets, Sequences

CONSTANTS
  Nodes,
  FirstNode,   \* the first accepting node by name
  MaxTries,    \* retry.DefaultRetry: how often a write is tried
  MaxChanges,  \* bound on changes of the world and of the hosts
  MaxFaults,   \* bound on failed writes and restarts
  NoRow        \* a node has no row in the class status

ASSUME StatusAssumption ==
  /\ IsFiniteSet(Nodes) /\ FirstNode \in Nodes
  /\ MaxTries \in Nat \ {0}
  /\ MaxChanges \in Nat /\ MaxFaults \in Nat
  /\ NoRow \notin BOOLEAN

VARIABLES
  world,    \* is the PortMap accepted, and who serves it
  resolves, \* resolves[a]: the class's interfaces resolve on a's host
  class,    \* the class status: a row for each node
  pm,       \* the PortMap status: the conditions Accepted and Programmed
  view,     \* view[a]: the world in a's caches
  cache,    \* cache[a]: the two objects in a's cache
  behind,   \* behind[a]: the objects whose cached version is not the server's
  pass,     \* pass[a]: the writes a still has to make
  changes, faults

server == <<class, pm>>
seen == <<view, cache, behind>>
vars == <<world, resolves, server, seen, pass, changes, faults>>

Row == BOOLEAN \cup {NoRow}                  \* NodeStatus.Ready
Condition == {"unset", "true", "false"}
Rows == [Nodes -> Row]
PortMapStatus == [accepted : Condition, programmed : Condition]
World == [accepted : BOOLEAN, serving : Nodes]
Objects == {"pm", "class"}

\* desired: what Compute decided; a condition it does not set is "unset".
Pass == [todo : {<<>>, <<"pm">>, <<"class">>, <<"pm", "class">>},
         desired : PortMapStatus, row : Row, tries : 0 .. MaxTries - 1]

Idle == [todo |-> <<>>, desired |-> [accepted |-> "unset", programmed |-> "unset"],
         row |-> NoRow, tries |-> 0]

TypeOK ==
  /\ world \in World /\ view \in [Nodes -> World]
  /\ resolves \in [Nodes -> BOOLEAN]
  /\ class \in Rows /\ pm \in PortMapStatus
  /\ cache \in [Nodes -> [class : Rows, pm : PortMapStatus]]
  /\ behind \in [Nodes -> SUBSET Objects]
  /\ pass \in [Nodes -> Pass]
  /\ changes \in 0 .. MaxChanges /\ faults \in 0 .. MaxFaults

NoRows == [n \in Nodes |-> NoRow]
NoStatus == [accepted |-> "unset", programmed |-> "unset"]

Init ==
  /\ world \in World
  /\ resolves = [n \in Nodes |-> TRUE]
  /\ class = NoRows /\ pm = NoStatus
  /\ view = [a \in Nodes |-> world]
  /\ cache = [a \in Nodes |-> [class |-> NoRows, pm |-> NoStatus]]
  /\ behind = [a \in Nodes |-> {}]
  /\ pass = [a \in Nodes |-> Idle]
  /\ changes = 0 /\ faults = 0

-----------------------------------------------------------------------------
(* The environment.                                                        *)

Change == changes < MaxChanges /\ changes' = changes + 1 /\ UNCHANGED faults
Fault == faults < MaxFaults /\ faults' = faults + 1 /\ UNCHANGED changes

WorldChanges(w) ==
  /\ Change /\ w # world
  /\ world' = w
  /\ UNCHANGED <<resolves, server, seen, pass>>

HostChanges(a) ==
  /\ Change
  /\ resolves' = [resolves EXCEPT ![a] = ~@]
  /\ UNCHANGED <<world, server, seen, pass>>

SeeWorld(a) ==
  /\ view[a] # world
  /\ view' = [view EXCEPT ![a] = world]
  /\ UNCHANGED <<world, resolves, server, cache, behind, pass, changes, faults>>

\* PortMaps and classes come over two watches.
SeeObject(a, o) ==
  /\ o \in behind[a]
  /\ cache' = [cache EXCEPT ![a] = IF o = "pm" THEN [@ EXCEPT !.pm = pm]
                                               ELSE [@ EXCEPT !.class = class]]
  /\ behind' = [behind EXCEPT ![a] = @ \ {o}]
  /\ UNCHANGED <<world, resolves, server, view, pass, changes, faults>>

-----------------------------------------------------------------------------
(* The agent.                                                              *)

Cond(b) == IF b THEN "true" ELSE "false"

\* buildPortMapStatus: Programmed is set for an accepted mapping alone, and
\* waits for a ready row of the serving node (resolveProgrammed).
Desired(a) ==
  [accepted   |-> Cond(view[a].accepted),
   programmed |-> IF view[a].accepted
                    THEN Cond(cache[a].class[view[a].serving] = TRUE)
                    ELSE "unset"]

\* statusOwner: a refused mapping has no serving node and no endpoint.
Owner(a) == a = IF view[a].accepted THEN view[a].serving ELSE FirstNode

\* Mutant of MergePortMap: a condition that is there is left as it is.
MergeUnset(have, want) ==
  [c \in {"accepted", "programmed"} |-> IF have[c] # "unset" THEN have[c] ELSE want[c]]

\* SetStatusCondition: a condition that is not among the desired ones stays.
MergePortMap(have, want) ==
  [c \in {"accepted", "programmed"} |-> IF want[c] = "unset" THEN have[c] ELSE want[c]]

\* upsertNodeRow.
MergeClass(have, a, row) == [have EXCEPT ![a] = row]

\* Compute and the apply: what this pass will write.  A pass that would
\* write nothing is a stuttering step.
Compute(a) ==
  LET d == Desired(a)
      p == Owner(a) /\ MergePortMap(cache[a].pm, d) # cache[a].pm
      c == cache[a].class[a] # resolves[a]
  IN
  /\ pass[a] = Idle
  /\ p \/ c
  /\ pass' = [pass EXCEPT ![a] =
       [todo    |-> IF Owner(a) THEN <<"pm", "class">> ELSE <<"class">>,
        desired |-> d, row |-> resolves[a], tries |-> 0]]
  /\ UNCHANGED <<world, resolves, server, seen, changes, faults>>

\* The pass after its first write is dealt with.
After(p) ==
  IF Len(p.todo) = 1 THEN Idle ELSE [p EXCEPT !.todo = Tail(@), !.tries = 0]

Merged(a, o) ==
  IF o = "pm" THEN MergePortMap(cache[a].pm, pass[a].desired)
              ELSE MergeClass(cache[a].class, a, pass[a].row)

Cached(a, o) == IF o = "pm" THEN cache[a].pm ELSE cache[a].class

\* Mutant of SameVersion: an update always gets through.
AnyVersion(a, o) == TRUE

\* The cached version is the server's.
SameVersion(a, o) == o \notin behind[a]

\* writePortMap, writeClass: nothing to change, or the update is taken.
WriteOrSkip(a, o) ==
  /\ pass' = [pass EXCEPT ![a] = After(@)]
  /\ IF Merged(a, o) = Cached(a, o)
       THEN UNCHANGED <<server, behind>>
       ELSE /\ SameVersion(a, o)
            /\ IF o = "pm" THEN pm' = Merged(a, o) /\ UNCHANGED class
                           ELSE class' = Merged(a, o) /\ UNCHANGED pm
            /\ behind' = [b \in Nodes |-> behind[b] \cup {o}]

\* Mutant of Again: a conflict is retried for as long as there is one.
AgainAlways(p) == TRUE

\* RetryOnConflict has a try left.
Again(p) == p.tries + 1 < MaxTries

\* A conflict: the write is tried again, or given up for this pass.
Retried(p) == IF Again(p) THEN [p EXCEPT !.tries = @ + 1] ELSE After(p)

Conflict(a, o) ==
  /\ Merged(a, o) # Cached(a, o) /\ ~SameVersion(a, o)
  /\ pass' = [pass EXCEPT ![a] = Retried(@)]
  /\ UNCHANGED <<server, behind>>

WriteStatus(a) ==
  /\ pass[a].todo # <<>>
  /\ LET o == Head(pass[a].todo) IN WriteOrSkip(a, o) \/ Conflict(a, o)
  /\ UNCHANGED <<world, resolves, view, cache, changes, faults>>

\* Another error: the object is left, the others are still written.
WriteFails(a) ==
  /\ pass[a].todo # <<>> /\ Fault
  /\ pass' = [pass EXCEPT ![a] = After(@)]
  /\ UNCHANGED <<world, resolves, server, seen>>

Restart(a) ==
  /\ Fault
  /\ pass' = [pass EXCEPT ![a] = Idle]
  /\ view' = [view EXCEPT ![a] = world]
  /\ cache' = [cache EXCEPT ![a] = [class |-> class, pm |-> pm]]
  /\ behind' = [behind EXCEPT ![a] = {}]
  /\ UNCHANGED <<world, resolves, server>>

AgentStep(a) == Compute(a) \/ WriteStatus(a)

Next ==
  \/ \E w \in World : WorldChanges(w)
  \/ \E a \in Nodes :
       \/ HostChanges(a) \/ SeeWorld(a) \/ AgentStep(a)
       \/ WriteFails(a) \/ Restart(a)
       \/ \E o \in Objects : SeeObject(a, o)

Spec == Init /\ [][Next]_vars

\* Passes run and make their writes; watches deliver.
Fairness ==
  \A a \in Nodes :
    /\ WF_vars(AgentStep(a)) /\ WF_vars(SeeWorld(a))
    /\ \A o \in Objects : WF_vars(SeeObject(a, o))

FairSpec == Spec /\ Fairness

-----------------------------------------------------------------------------
(* Properties.                                                             *)

\* Two agents touching different rows never clobber each other: a write of
\* one node leaves every other row as it is in the server at that moment,
\* however old the copy was that it merged its own row into.
OwnRowOnly ==
  [][\A a \in Nodes : WriteStatus(a) => \A b \in Nodes \ {a} : class'[b] = class[b]]_vars

\* Once the world and the hosts are still, every row says what its host says,
\* and the PortMap's conditions say what its owner decides, although owners
\* change hands and old owners finish old passes.
StatusSettles ==
  <>[](/\ \A a \in Nodes : class[a] = resolves[a]
       /\ pm.accepted = Cond(world.accepted)
       /\ world.accepted => pm.programmed = Cond(resolves[world.serving]))

=============================================================================
