------------------------------ MODULE LinkPool ------------------------------
(***************************************************************************)
(* The cluster-wide pool of return-link slots (internal/reconcile/links.go *)
(* and writeLinks in internal/agent/status.go).                            *)
(*                                                                         *)
(* A slot is claimed by creating the Link object that carries its number.  *)
(* There is no leader: every node's agent reads the Links and the needed   *)
(* pairs from its own informer cache, computes the allocation, programs    *)
(* its host, and then writes to the pool.  What arbitrates is the API      *)
(* server alone: a create fails when the name is taken, and an update or a *)
(* delete fails unless the object is still the version the pass read.      *)
(*                                                                         *)
(* Data that is abstracted:                                                *)
(*  - a key (class kind, class name, sorted peers) is a number; the order  *)
(*    of numbers is the sorted order of the key strings;                   *)
(*  - a resourceVersion is never compared with anything but itself, so the *)
(*    model keeps the set of slots whose copy is out of date (behind for   *)
(*    the cache, stale for a pass) instead of the versions;                *)
(*  - UnusedSince is kept as the age it has, saturated at MaxAge + 1, so   *)
(*    that time can run for ever.                                          *)
(***************************************************************************)
EXTENDS Integers, FiniteSets

CONSTANTS
  Nodes,       \* the nodes of the cluster, one agent each
  Keys,        \* the class/pair keys, numbers in sorted order
  Peers,       \* Peers[k] is the pair of nodes of key k
  NSlots,      \* linkSlots: the size of the pool
  BadSlots,    \* slots held by Link objects with a malformed spec
  MaxAge,      \* unusedLinkAge, in ticks
  MaxChanges,  \* bound on the changes of need in one behaviour
  MaxFaults,   \* bound on the errors and restarts in one behaviour
  Free,        \* the key of a slot that has no Link object
  Malformed    \* the key of a Link whose spec names no pair

ASSUME PoolAssumption ==
  /\ IsFiniteSet(Keys) /\ Keys \subseteq Nat
  /\ Peers \in [Keys -> SUBSET Nodes]
  /\ NSlots \in Nat
  /\ BadSlots \subseteq 0 .. NSlots - 1
  /\ MaxAge \in Nat
  /\ MaxChanges \in Nat /\ MaxFaults \in Nat
  /\ Free \notin Keys /\ Malformed \notin Keys /\ Free # Malformed

Slots == 0 .. NSlots - 1

Unset == -1                       \* UnusedSince is nil
Ages == {Unset} \cup 0 .. MaxAge + 1

Link == [key : Keys \cup {Free, Malformed}, age : Ages]
NoLink == [key |-> Free, age |-> Unset]

VARIABLES
  link,      \* the Link objects in the API server, by slot
  holders,   \* holders[k]: the nodes whose pods need k now; {} is unneeded
  cache,     \* cache[a]: the Links in agent a's informer cache
  behind,    \* behind[a]: slots whose cached version is not the server's
  view,      \* view[a]: holders, as agent a's cache has it
  pass,      \* pass[a]: the reconcile pass agent a is in
  prog,      \* prog[a]: the <<key, slot>> pairs on a's host
  released,  \* the <<key, slot>> claims that were deleted at least once
  changes,   \* changes of need so far
  faults     \* errors and restarts so far

vars == <<link, holders, cache, behind, view, pass, prog, released, changes, faults>>

Claims == Keys \X Slots

-----------------------------------------------------------------------------
(* The allocation, computed from a cache c and a view v of the needs.      *)

Needed(v, k) == v[k] # {}

\* byKey: of the Links of a key, the one on the lowest slot is used.
ByKey(c, k, s) ==
  /\ c[s].key = k
  /\ \A t \in Slots : t < s => c[t].key # k

\* The needed keys that have no Link yet.
Missing(c, v) == {k \in Keys : Needed(v, k) /\ \A s \in Slots : c[s].key # k}

\* Slots no object holds.  A malformed Link still holds its slot.
FreeSlots(c) == {s \in Slots : c[s].key = Free}

\* newly: the missing keys, in order, take the free slots, lowest first.
\* A key that finds none is left out (its class is reported as exhausted).
Newly(c, v, k, s) ==
  /\ k \in Missing(c, v)
  /\ s \in FreeSlots(c)
  /\ Cardinality({j \in Missing(c, v) : j < k})
       = Cardinality({t \in FreeSlots(c) : t < s})

\* Mutant of Desired: the host is programmed with proposed slots too.
DesiredProposed(a, c, v) ==
  {p \in Claims : /\ a \in Peers[p[1]]
                  /\ Needed(v, p[1])
                  /\ ByKey(c, p[1], p[2]) \/ Newly(c, v, p[1], p[2])}

\* What goes to the host: only slots whose Link is in the cache, on the two
\* nodes of the pair.
Desired(a, c, v) ==
  {p \in Claims : /\ a \in Peers[p[1]]
                  /\ Needed(v, p[1])
                  /\ ByKey(c, p[1], p[2])}

-----------------------------------------------------------------------------
(* The writes of one pass (linkActions).                                   *)

Ops == {"create", "clear", "set", "dedupe", "release"}
Write == [op : Ops, slot : Slots, key : Keys]

\* Only a holder of the pair proposes its Link.
CreateDue(a, c, v, w) ==
  /\ w.op = "create"
  /\ Newly(c, v, w.key, w.slot)
  /\ a \in v[w.key]

\* Mutant of DedupeDue: nobody deletes a duplicate.
DedupeNever(a, c, v, w) == FALSE

\* A duplicate is judged before its UnusedSince is; only a holder deletes it.
DedupeDue(a, c, v, w) ==
  /\ w.op = "dedupe"
  /\ c[w.slot].key = w.key
  /\ Needed(v, w.key)
  /\ ~ByKey(c, w.key, w.slot)
  /\ a \in v[w.key]

\* Mutant of ClearDue: UnusedSince stays on a Link that is needed again.
ClearNever(c, v, w) == FALSE

ClearDue(c, v, w) ==
  /\ w.op = "clear"
  /\ c[w.slot].key = w.key
  /\ Needed(v, w.key)
  /\ ByKey(c, w.key, w.slot)
  /\ c[w.slot].age # Unset

SetDue(c, v, w) ==
  /\ w.op = "set"
  /\ c[w.slot].key = w.key
  /\ ~Needed(v, w.key)
  /\ c[w.slot].age = Unset

\* Any agent releases a Link that was unused for longer than the limit.
ReleaseDue(c, v, w) ==
  /\ w.op = "release"
  /\ c[w.slot].key = w.key
  /\ ~Needed(v, w.key)
  /\ c[w.slot].age > MaxAge

LinkActions(a, c, v) ==
  {w \in Write : \/ CreateDue(a, c, v, w)
                 \/ DedupeDue(a, c, v, w)
                 \/ ClearDue(c, v, w)
                 \/ SetDue(c, v, w)
                 \/ ReleaseDue(c, v, w)}

\* writeLinks makes all creates, then all status updates, then all deletes,
\* each group in slot order (a later key is created on a later slot).
Group(op) == CASE op = "create"              -> 0
               [] op \in {"clear", "set"}      -> 1
               [] op \in {"dedupe", "release"} -> 2

Before(w, x) ==
  \/ Group(w.op) < Group(x.op)
  \/ Group(w.op) = Group(x.op) /\ w.slot <= x.slot

NextWrite(W) == {w \in W : \A x \in W : Before(w, x)}

-----------------------------------------------------------------------------
\* The writes a pass still has to make, and those of their slots whose
\* version in the server is no longer the one the pass read.
Pass == [writes : SUBSET Write, stale : SUBSET Slots]

Idle == [writes |-> {}, stale |-> {}]

SlotsOf(W) == {w.slot : w \in W}

\* The pass after one more write is out of the way; it ends with the last.
AfterWrite(p, w) ==
  [writes |-> p.writes \ {w},
   stale  |-> p.stale \cap SlotsOf(p.writes \ {w})]

\* Mutant of Outdated: a pass in progress keeps believing its versions.
NeverOutdated(p, s) == p

\* A slot has a new version in the server: every copy of the old is out of
\* date.
OutOfDate(s) == behind' = [b \in Nodes |-> behind[b] \cup {s}]

Outdated(p, s) == [p EXCEPT !.stale = @ \cup ({s} \cap SlotsOf(p.writes))]

TypeOK ==
  /\ link \in [Slots -> Link]
  /\ holders \in [Keys -> SUBSET Nodes]
  /\ cache \in [Nodes -> [Slots -> Link]]
  /\ behind \in [Nodes -> SUBSET Slots]
  /\ view \in [Nodes -> [Keys -> SUBSET Nodes]]
  /\ pass \in [Nodes -> Pass]
  /\ prog \in [Nodes -> SUBSET Claims]
  /\ released \subseteq Claims
  /\ changes \in 0 .. MaxChanges
  /\ faults \in 0 .. MaxFaults

EmptyPool ==
  [s \in Slots |-> [key |-> IF s \in BadSlots THEN Malformed ELSE Free,
                    age |-> Unset]]

Init ==
  /\ link = EmptyPool
  /\ holders \in [Keys -> SUBSET Nodes]
  /\ \A k \in Keys : holders[k] \subseteq Peers[k]
  /\ cache = [a \in Nodes |-> EmptyPool]
  /\ behind = [a \in Nodes |-> {}]
  /\ view = [a \in Nodes |-> holders]
  /\ pass = [a \in Nodes |-> Idle]
  /\ prog = [a \in Nodes |-> {}]
  /\ released = {}
  /\ changes = 0
  /\ faults = 0

-----------------------------------------------------------------------------
(* The environment.                                                        *)

Fault == faults < MaxFaults /\ faults' = faults + 1

\* PortMaps, Egresses and pods come, go and move: other pods need the pair.
NeedChanges(k, H) ==
  /\ changes < MaxChanges
  /\ H # holders[k]
  /\ holders' = [holders EXCEPT ![k] = H]
  /\ changes' = changes + 1
  /\ UNCHANGED <<link, cache, behind, view, pass, prog, released, faults>>

\* The other informers catch up on what makes k needed.
SeeNeed(a, k) ==
  /\ view[a][k] # holders[k]
  /\ view' = [view EXCEPT ![a][k] = holders[k]]
  /\ UNCHANGED <<link, holders, cache, behind, pass, prog, released, changes, faults>>

\* The Link informer catches up.  It is one watch, so it never shows a write
\* without the writes before it.
SeeLinks(a) ==
  /\ behind[a] # {}
  /\ cache' = [cache EXCEPT ![a] = link]
  /\ behind' = [behind EXCEPT ![a] = {}]
  /\ UNCHANGED <<link, holders, view, pass, prog, released, changes, faults>>

\* Mutant of Older: the age of every Link runs, needed or not.
OlderAlways(l) == [l EXCEPT !.age = @ + 1]

Older(l) == IF l.age \in 0 .. MaxAge THEN [l EXCEPT !.age = @ + 1] ELSE l

\* Time passes; every copy of an UnusedSince gets older with it.
Tick ==
  /\ link' = [s \in Slots |-> Older(link[s])]
  /\ cache' = [a \in Nodes |-> [s \in Slots |-> Older(cache[a][s])]]
  /\ UNCHANGED <<holders, behind, view, pass, prog, released, changes, faults>>

-----------------------------------------------------------------------------
(* The agent.                                                              *)

\* Reconcile, up to its writes: the inputs are read from the cache as it is,
\* and the host is programmed before anything is written.  The cache may lag
\* by any amount, so programming the host in the same step loses nothing; a
\* pass with nothing to program and nothing to write is a stuttering step.
Reconcile(a) ==
  LET D == Desired(a, cache[a], view[a])
      W == LinkActions(a, cache[a], view[a])
  IN
  /\ pass[a].writes = {}
  /\ D # prog[a] \/ W # {}
  /\ prog' = [prog EXCEPT ![a] = D]
  /\ pass' = [pass EXCEPT ![a] = [writes |-> W,
                                  stale  |-> behind[a] \cap SlotsOf(W)]]
  /\ UNCHANGED <<link, holders, cache, behind, view, released, changes, faults>>

\* A failed apply ends the pass.  It adds what is missing before it removes
\* what is stale, and may stop anywhere.
ApplyFails(a) ==
  /\ Fault
  /\ pass[a].writes = {}
  /\ LET D == Desired(a, cache[a], view[a]) IN
     \E P \in SUBSET (prog[a] \cup D) :
       /\ prog[a] \subseteq P \/ D \subseteq P
       /\ prog' = [prog EXCEPT ![a] = P]
  /\ UNCHANGED <<link, holders, cache, behind, view, pass, released, changes>>

\* The API server takes the write: the object has a new version, and every
\* copy of the old one is out of date, the writer's own too.
Store(a, w, l) ==
  /\ link' = [link EXCEPT ![w.slot] = l]
  /\ OutOfDate(w.slot)
  /\ pass' = [b \in Nodes |->
                Outdated(IF b = a THEN AfterWrite(pass[a], w) ELSE pass[b],
                         w.slot)]

\* AlreadyExists, Conflict and NotFound: the decision is dropped.
Drop(a, w) ==
  /\ pass' = [pass EXCEPT ![a] = AfterWrite(@, w)]
  /\ UNCHANGED <<link, behind>>

\* Mutant of SameVersion: a write carries no precondition, and fails only when
\* the object is gone.
AnyVersion(a, w) == link[w.slot].key # Free

\* The version the pass read is the version the server has.
SameVersion(a, w) == w.slot \notin pass[a].stale

CreateLink(a, w) ==
  /\ w.op = "create"
  /\ IF link[w.slot].key = Free
       THEN Store(a, w, [key |-> w.key, age |-> Unset])
       ELSE Drop(a, w)
  /\ UNCHANGED released

UpdateLink(a, w) ==
  /\ w.op \in {"clear", "set"}
  /\ IF SameVersion(a, w)
       THEN Store(a, w, [link[w.slot] EXCEPT
                           !.age = IF w.op = "set" THEN 0 ELSE Unset])
       ELSE Drop(a, w)
  /\ UNCHANGED released

DeleteLink(a, w) ==
  /\ w.op \in {"dedupe", "release"}
  /\ IF SameVersion(a, w)
       THEN /\ Store(a, w, NoLink)
            /\ released' = released \cup {<<link[w.slot].key, w.slot>>}
       ELSE /\ Drop(a, w)
            /\ UNCHANGED released

\* writeLinks: the next write of the pass.
WriteLink(a) ==
  /\ \E w \in NextWrite(pass[a].writes) :
        CreateLink(a, w) \/ UpdateLink(a, w) \/ DeleteLink(a, w)
  /\ UNCHANGED <<holders, cache, view, prog, changes, faults>>

\* Any other error is remembered for the caller and the loop goes on.
WriteFails(a) ==
  /\ Fault
  /\ \E w \in NextWrite(pass[a].writes) : Drop(a, w)
  /\ UNCHANGED <<holders, cache, view, prog, released, changes>>

\* The agent dies and is started again: the pass is gone and the caches are
\* listed afresh.  The host keeps what was programmed after a crash, and
\* nothing of it after a shutdown.
Restart(a) ==
  /\ Fault
  /\ \E P \in {prog[a], {}} : prog' = [prog EXCEPT ![a] = P]
  /\ pass' = [pass EXCEPT ![a] = Idle]
  /\ cache' = [cache EXCEPT ![a] = link]
  /\ behind' = [behind EXCEPT ![a] = {}]
  /\ view' = [view EXCEPT ![a] = holders]
  /\ UNCHANGED <<link, holders, released, changes>>

-----------------------------------------------------------------------------
AgentStep(a) == Reconcile(a) \/ WriteLink(a)

Faults(a) == ApplyFails(a) \/ WriteFails(a) \/ Restart(a)

Others ==
  \/ \E k \in Keys : \E H \in SUBSET Peers[k] : NeedChanges(k, H)
  \/ \E a \in Nodes, k \in Keys : SeeNeed(a, k)
  \/ \E a \in Nodes : SeeLinks(a) \/ AgentStep(a) \/ Faults(a)

Next == Tick \/ Others

Spec == Init /\ [][Next]_vars

\* The clock runs, watches deliver, and a pass runs at least every
\* hostPollPeriod and executes its steps.
Fairness ==
  /\ WF_vars(Tick)
  /\ \A a \in Nodes :
       /\ WF_vars(AgentStep(a))
       /\ WF_vars(SeeLinks(a))
       /\ \A k \in Keys : WF_vars(SeeNeed(a, k))

FairSpec == Spec /\ Fairness

-----------------------------------------------------------------------------
(* Properties.                                                             *)

\* A slot number becomes a device, a VNI, a mark and a routing table on the
\* hosts.  Two hosts never hold the same slot for two different keys unless
\* one of the two claims was deleted in between: a slot whose create lost the
\* race is never programmed (slotFor hands out landed slots only).
NoSharedSlot ==
  \A a, b \in Nodes : \A p \in prog[a], q \in prog[b] :
    p[2] = q[2] /\ p[1] # q[1] => p \in released \/ q \in released

\* A claim never passes from one key to another, and a Link leaves the pool
\* only if at that very moment it has been unused for longer than the limit,
\* or it duplicates a claim of its key on a lower slot.  Decisions are taken
\* long before the delete arrives; the resourceVersion precondition in
\* writeLinks is what makes this hold.
LinksLeaveUnusedOrDuplicate ==
  [][\A s \in Slots :
       link[s].key \in Keys /\ link'[s].key # link[s].key =>
         /\ link'[s].key = Free
         /\ \/ link[s].age > MaxAge
            \/ \E t \in Slots : /\ t < s
                                /\ \/ link[t].key = link[s].key
                                   \/ <<link[s].key, t>> \in released]_vars

\* The claim was accepted by the API server: it stands, or it was deleted
\* since.
Accepted(p) == link[p[2]].key = p[1] \/ p \in released

\* What the agents hold against the server.  A cached Link was accepted, and a
\* copy that is not known to be behind equals the server's object.  A host
\* carries accepted claims only.  A write that has not lost its version still
\* finds the Link it was decided for, and one that is to be released is still
\* unused for too long; a duplicate has an accepted claim below it.  This is
\* the optimistic concurrency that writeLinks and slotFor rest on.
CacheCoherent ==
  \A a \in Nodes, s \in Slots :
    /\ cache[a][s].key \in Keys => Accepted(<<cache[a][s].key, s>>)
    /\ s \notin behind[a] => cache[a][s] = link[s]

ProgAccepted == \A a \in Nodes : \A p \in prog[a] : Accepted(p)

WritesCoherent ==
  \A a \in Nodes : \A w \in pass[a].writes :
    /\ w.op # "create" /\ w.slot \notin pass[a].stale =>
         /\ link[w.slot].key = w.key
         /\ w.op = "release" => link[w.slot].age > MaxAge
    /\ w.op = "dedupe" =>
         \E t \in Slots : t < w.slot /\ Accepted(<<w.key, t>>)

Coherent == CacheCoherent /\ ProgAccepted /\ WritesCoherent

\* Every needed key has one Link, both ends of the pair have programmed its
\* slot and nothing else, and an unneeded key has no Link and no device.
Converged ==
  \A k \in Keys :
    LET claims == {s \in Slots : link[s].key = k} IN
    /\ Cardinality(claims) = IF holders[k] = {} THEN 0 ELSE 1
    /\ \A a \in Nodes : {s \in Slots : <<k, s>> \in prog[a]}
                          = IF a \in Peers[k] THEN claims ELSE {}

\* Once the disturbances end, the agents settle on one Link per needed pair,
\* whatever duplicates, lost races and stale decisions there were
\* (allocateLinks and linkActions are level-driven).
Settles == <>[]Converged

\* The agents together implement the leases: what any of them stores, deletes
\* or programs is a step LinkLease allows (writeLinks, slotFor).
Lease == INSTANCE LinkLease
  WITH lease <- [s \in Slots |-> link[s].key],
       idle  <- {s \in Slots : link[s].key \in Keys /\ link[s].age > MaxAge},
       past  <- released,
       used  <- prog

\* Every behaviour of the pool is one of LinkLease.
ImplementsLease == Lease!Spec

=============================================================================
