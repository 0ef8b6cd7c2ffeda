# A TLA+ model of kuport

kuport publishes Service ports on chosen nodes and steers pod egress over
links between nodes. It runs as a DaemonSet: one agent per node, no leader and
no controller. Every agent reads the whole cluster from its informer caches,
computes its node's desired state with a pure function, writes that to the
kernel, and writes the part of the API status it owns. This directory holds a
model of the parts where that can go wrong in ways a unit test hardly reaches,
the TLC runs that check it, and proofs about it.

## The system

| Part | State | Operations | Code |
| --- | --- | --- | --- |
| Link pool | Link objects `slot-<n>` with UnusedSince; each agent's cache of them | allocate, propose, deduplicate, set/clear UnusedSince, release | `internal/reconcile/links.go`, `writeLinks` in `internal/agent/status.go` |
| PortMap decisions | none (a function of the objects) | validate, resolve conflicts, choose endpoint, decide roles, choose status owner | `internal/reconcile/conflicts.go`, `endpoints.go`, `status.go` |
| Datapath state of a mapping | none | DNAT, exemption, mark, link, rule and route of each node of a mapping | `emitMapping` in `internal/reconcile/reconcile.go` |
| Egress decisions | none | select pods, decide link / blocked / local per family, keep state, class rows and status | `internal/reconcile/egress.go` |
| Slot numbers | none | mark, table, VNI, addresses and MTU of a slot; stand-in addresses | `internal/reconcile/links.go`, `internal/datapath/steer.go` |
| Agent loop | the applied State and when, the keep State | a pass; skip, apply, repair; shutdown | `internal/agent/agent.go`, `shutdown.go` |
| Node datapath | VXLAN devices, one nftables table, routing rules, routing tables | Apply (links, nftables, rules, routes), Teardown | `internal/datapath/apply.go`, `netlink.go`, `nft.go` |
| Status writing | class status rows, PortMap and Egress conditions | read, merge own part, update, retry | `internal/agent/status.go` |
| Counter totals | totals per rule key; live counters in the kernel | fold, apply, scrape | `internal/datapath/counters.go`, `internal/metrics/collector.go` |
| Metrics endpoint | the snapshot of the last apply (owners of rules); listeners | record, scrape, dump flows, bind, serve | `internal/metrics`, `internal/agent/metrics.go`, `internal/reconcile/metrics.go`, `internal/datapath/conntrack.go` |
| Rendering | none | State to nftables expressions | `internal/datapath/render.go`, `nft.go` |

The agents interact through the API server alone: an agent's Link or status row
reaches another agent by its watch, late. On one node the reconcile goroutine,
the shutdown goroutine and the metrics scrapes share the kernel and the mutex
of `Counters`; the shutdown goroutine reads what the last pass stored in
`keep`. What PortMaps and Egresses need is the input of the link pool; the
slots that have landed decide what the datapath gets; the class row that a node
writes decides the Programmed condition that another pass, perhaps another
node's, writes.

What makes it hard:

* decisions are taken on copies that may be old, and written later, against
  objects that others write at the same time (pool, status);
* netlink has no transactions, so an apply is many kernel states, can fail or be
  killed in any of them, and traffic meets each;
* a State that was applied is trusted without looking, for a while;
* shutdown runs beside a pass that is under way;
* counters are moved from the kernel to memory just before the kernel's are
  destroyed, unless the destroying step fails, and a scrape joins them with
  owners it read at another moment;
* a packet's way lies over two nodes whose rules two agents wrote at different
  times, through chains whose order decides.

`PROJECT.json` lists these hazards one by one with the line where each bites.

What correctness means here: no slot is used for two pairs, claims are not taken
from those who need them, and the pool comes to rest (link pool); the kernel is
what the record says, and becomes what the computation says (datapath); a
fail-closed pod stays blocked over a clean shutdown; accepted mappings do not
overlap and are stable; who forwards has a way back, and a reply leaves by the
node that took the request; Programmed is honest; a status row is written by
its node alone and ends up true; totals are conserved and charged to their
owner.

## Modules

| Module | Models | Variables against the code |
| --- | --- | --- |
| `LinkPool` | the pool and every agent's view of it | `link` the Link objects by slot; `holders` the `needed` map as it truly is; `cache`, `behind` the Link informer and which copies are old; `view` the needs as seen; `pass` the `LinkActions` still to be written, and which of their resourceVersions are old; `prog` the slots on the host; `released` is a ghost |
| `LinkLease` | what the pool promises, without agents and caches | `lease` a slot's key; `idle`, `past`; `used` what each host works with |
| `LinkRelease` | `LinkPool` under the timing `docs/decisions.md` assumes | `quiet` counts the ticks at which no host carried a slot |
| `NodeDatapath` | agent loop, shutdown and kernel of one node, through one pod | `host` the kernel; `keep`, `applied`, `age` the fields of `Reconciler`; `work`, `stop` the two goroutines' calls still to make; `lock` the mutex of `Counters`; `exit`, `drifted` are ghosts |
| `SlotNumbers` | the numbers of a slot, as operators, and what must hold of them | none |
| `ReturnPath` | extends `PortMaps` and `SlotNumbers`: the rules of every node and a packet's way through them | `pool` the Links; `host` what Render gave each node, with `snap` the DNAT part recorded for the metrics; `rows` the class rows, as pairs of class and node: of accepting nodes that made a pass |
| `Egress` | the decisions about Egresses on every agent, their hosts and statuses | `world` the objects; `view` each agent's cache by kind; `six` whether a host forwards IPv6; `host`, `keep`, `status`; `lapsed`, `moved` are ghosts |
| `Metrics` | extends `Counters`: owner index, snapshot and collector | `pass`, `index`, `applied` the reconcile loop; `snap` of `Reconciler`; `pc`, `loaded` each scrape; `late` dumps nobody waits for; `serves`, `ever`, `own` are ghosts |
| `Counters` | totals, live table and scrapes | `live`, `held`, `stage` (the mutex and how far `FoldAndApply` is); `sent`, `missed`, `folded`, `skipped`, `failed` are ghosts |
| `PortMaps` | the decisions about PortMaps | `portmaps`, `ready`, `nodes`, `now`: the objects; the decisions are operators named after the functions |
| `ConflictLoop` | the loop of `resolveConflicts` as written, against what `PortMaps` says it finds | none of its own |
| `StatusWrites` | class rows and PortMap conditions written by several agents | `class`, `pm` in the server, `cache`, `behind`, `view` per agent, `pass` the writes still to make with the retry count |
| `LinkPool_proof`, `NodeDatapath_proof`, `Egress_proof`, `StatusWrites_proof`, `PortMaps_proof`, `SlotNumbers_proof`, `Counters_proof`, `ReturnPath_proof` | proofs | |
| `MC*` | instances for TLC | |

Each action is one handler or one step that others can see between. `LinkPool`
and `StatusWrites` make one API write per step, `NodeDatapath` one netlink call
or one nftables commit per step; `ReturnPath` and `Egress` take a whole pass as
one step, since what they compare is the outcome of passes at different times,
and `NodeDatapath` has what lies inside one. A pass that would change nothing is a
stuttering step and not an action, so that fairness means progress.

Abstractions worth knowing:

* A resourceVersion is compared with itself only; the models keep the set of
  copies that are old instead of version numbers.
* The informer of one kind shows writes in their order and may lag by any
  amount. In `LinkPool` the Links and the needs are separate watches; in
  `StatusWrites` so are the PortMap, the class and everything else.
* `LinkPool` computes the allocation and programs the host in one step. The
  cache the step reads may be arbitrarily old, so every interleaving with other
  agents is still there. A pass's apply may fail (`ApplyFails`), which leaves
  any mixture the order add-then-remove can leave.
* A key is a number, and the order of numbers stands for the order of strings.
* UnusedSince is an age that saturates just above `MaxAge`; agents' clocks agree.
* `NodeDatapath` reads listings afresh before each call where the code lists
  once per stage, and takes LinkAdd or the retarget, AddrAdd, MTU and SetUp of one
  device as one step (`Carries`); an apply that stops among them leaves a device
  the next one completes. Of the two address families it has the first: the second
  makes the calls of `applyLinkAddr6` after those, which also remove an address.
  The MTU of a device decides nothing the properties are about. `SlotOf` says which links
  share a slot. Links that share one are taken to give the node opposite ends of
  the /31: with equal ends both have one gateway and one address, and the
  retarget is complete.
* In `ReturnPath` the kernel, the CNI and the host's firewall are external: first
  matching nat rule, every matching mangle rule in order, the firewall drops what
  is addressed to the node, conntrack undoes a translation where it was made. An
  address is a family and a number, with the numbers of `SlotNumbers` for link
  ends and stand-ins. Agents compute from the current objects, but each at its
  own time, so any two hosts may be of different ages.
* In `Egress` every kind of object has its own cache per agent, which jumps to
  the current list at any time. Links land and leave as the pool lets them.
* In `Metrics` an owner's labels are one series, and a rule's key is a member of
  `Series`; an index says which owners a rule counts for.
* `PortMaps` gives a class's holders by what the loop's result satisfies: a
  mapping that passes its checks holds its ports unless an earlier holder has
  one of them. `ConflictLoop` has the sorted walk, and `LoopDecides` compares the
  two in every state; `PortMaps_proof` shows that exactly one set satisfies it.
* `StatusWrites` reads through the cache on every retry, because `r.Client` is
  the manager's cached client; the comments in `status.go` call this a fresh
  read. What the properties rest on is the version check of the update.
* `Counters` leaves out a table that something else deletes; then counts would
  be lost without any agent acting.

## Runs

Every run takes about two minutes at most with two workers.

| Run | Question | Bounds |
| --- | --- | --- |
| `link_pool_safety` | no shared slots, coherent copies, Links leave only unused or duplicate; the pool implements `LinkLease` | two agents, two keys of one node pair, three slots of which one is held by a malformed Link, one change of need, one fault |
| `link_pool_live` | the pool settles | two agents, two keys, exactly two slots, one change of need |
| `link_release` | a slot was quiet for the whole age before its release | one key, two slots, age 1, four changes of need, one fault |
| `datapath` | applied record, kept blackhole, links before commit; the kernel settles | two links, two changes of path, two faults (failed call, drift, crash), two shutdowns |
| `metrics` | conservation, monotone scrapes, each owner its own traffic, scrapes end | two series, two packets each, two applies, two owners with indexes that move, share and drop rules, two scrapes, one fault |
| `portmap_conflicts` | acceptance, and the loop that computes it | three PortMaps, two classes, two protocols, two ports (four intervals, an inverted one too), two seconds, a pod that translates one of the ports |
| `return_path` | replies return, Programmed is honest, flows count for their role; endpoint, way back and writer | two PortMaps of three classes (a serving mode and a return path each) or of none, one of them a range, one translated; three nodes of which one takes no traffic and one has a small MTU; three pods, one dual stack; slots 0, 255 and 256, at the edges of the mark's byte; four changes |
| `egress` | held pods stay held, links agree on IPv6, both ends and statuses settle | two nodes, two pods (one without IPv6), two Egresses, one class, one slot, one change of any kind, one fault (failed apply, crash or shutdown) |
| `status` | a write changes its own row alone; status settles | two agents, two tries, one change, one fault |

Why these are enough to mean something: the races of the pool need two agents
that want the same free slot, and one agent that creates twice; both happen with
two agents and three slots, and a third agent adds only another copy that is
old. A fault in the middle of anything needs one fault. An apply over the
leftovers of another needs two changes and two links. A conflict of three
mappings (a refused one between two others) is the smallest in which a refused
mapping could block. Two owners and two rules are enough for a rule to move, to
be shared and to be dropped between a scrape's two reads. Deadlock is checked
except in `StatusWrites`, `Egress` and `Metrics`, where the agents and scrapes
really have nothing to do once the bounded changes are over.

Runs that are expected to find a violation state what a document or a comment
of the repository says and the code does not do:

| Run | Statement | What happens |
| --- | --- | --- |
| `datapath_gap` | the pod stays blocked through the gap (`docs/decisions.md:283`) | an agent stopped before its first pass has no keep state and tears the blackhole down |
| `datapath_reuse` | "what is stale is updated in place, and what kuport finds under its own names and no longer wants is removed" (`apply.go:79`) | a slot passes to a link of which the node has the other end; the device keeps the old IPv4 end, and the new default route is refused before the old one is deleted, in this apply and in every later one |
| `return_classes` | "a reply has to leave by the link its request arrived on" (`reconcile.go:408`) | two Single classes with different serving nodes publish one Service port; both are accepted, and on the pod's node the last mark rule takes all replies |

That a slot can pass directly from one pair to another on a node follows from
`LinkPool`: releases and new claims that happen between two of the node's
passes, because its watch lags or its agent is down, reach it as one change.

Disagreements met while modelling that have no run of their own:

* `docs/development.md:77` says "On shutdown the agent removes its table, links,
  rules and routes". Teardown takes no mutex and Apply looks at its context only
  once, so an apply under way at SIGTERM goes on beside it and may leave its
  table, rules or device behind. In `NodeDatapath`: Sigterm after BeginApply,
  the teardown's steps, then the rest of the apply's.
* `docs/metrics.md:182` says "a scrape never counts the old table twice". A fold
  followed by an apply that fails before its nftables commit leaves the folded
  counters live, and they are counted again. `Conserved` keeps such folds apart.
* `docs/metrics.md:183` says "The totals reset only when the agent restarts". An
  owner's series sums the rules it has now. When a mapping's pod changes, its
  rules have other keys, and the series drops to what those have counted; a key
  that passes to another PortMap takes its packets along. `OwnTraffic` is about
  owners whose rules are all they ever had.
* `docs/api.md:231` says Programmed is true when "the serving node has written
  its rules". `buildPortMapStatus` sets it for accepted mappings alone, and
  `writePortMap` only adds and replaces conditions, so a PortMap refused after it
  was programmed keeps Programmed=True. `StatusSettles` speaks of accepted ones.
  `writeEgress` merges alike, and a refused Egress keeps its Programmed too
  (`EgressStatus`); `EgressSettles` speaks of Egresses that decide about a pod.
* `inputs.go:17-18` says a pass "sees a consistent point-in-time view of every
  object". Each kind has its own watch. When an Egress and the labels of its pod
  are changed together, so that the pod is under a fail-closed Egress at every
  moment, a pass that has the new labels and the old Egresses (or the reverse)
  takes the pod for unselected and releases it. `StaysHeld` therefore stops at a
  change of pods or classes (`moved`).
* `reconcile.go:349-356` says a pod elsewhere is reached over the node's own link.
  Until the Link has landed the accepting node translates straight to the pod,
  over the CNI, and the pod's node has no mark for the reply. `RepliesReturn` is
  about requests that were delivered locally or over a link.
* `links.go:379` says both ends of a link "read the same two MTU rows, so they
  agree on whether the link carries IPv6" (`links.go:397-401`, `netlink.go:58` and
  `docs/datapath.md:434-436` likewise). They agree when both rows are there
  (`EndsAgree`). But a class has rows of its accepting nodes only (`status.go:21`;
  `docs/api.md:244-245`), so for a pod's node outside the class `classUnderlay`
  gives 0 at both ends, for good. With 1300 in the accepting node's row that node
  makes the link without IPv6, while the pod's node, whose own figure is not
  known, adds the /127 and its rules. In the `return_path` run node 3 is such a
  node and node 2 has 1300. `ProgrammedServes` shows that the difference loses
  nothing: the pod's end never thinks less of the link than the accepting end.
* `shutdown.go:42-45` says the keep state "leaves no window". It is applied in
  stages: the device, and with it the pod's route, goes before the blocked mark
  is committed, and the blocked rule and route come after. In between the pod's
  traffic falls to the main table. `KeptBlocked` is about the end of that apply.
* `linkActionFor` (`netlink.go:122`) compares endpoints first, so a device that is
  wrong in endpoints and in VNI or port is only retargeted, keeps the latter, and
  the State is recorded as applied until the Repair period is over. With `"both"`
  in `Drifts`, `AppliedMatches` fails for this reason; the `datapath` run has the
  other two kinds of drift.
* `sharedTarget` (`conflicts.go:169`) looks at refused mappings too, so a mapping
  may be refused with TargetPortInUse when no accepted mapping uses the port.
* `statusOwner` (`status.go:118`) names the endpoint's node even when the cluster
  has no such Node and the class selects none; then nobody writes the status.
  `OneWriter` has this as its premise.

Each property of a passing run has a mutant: a variant of one definition, kept
next to it and marked as such, under which the run must fail.

## Fairness

* `LinkPool`, `StatusWrites`: weak fairness of each agent's steps (a pass
  follows every event, and at the latest after `hostPollPeriod`, and executes its
  writes), of each watch, and of the clock. Failures and changes are not fair;
  they are bounded, so they end.
* `NodeDatapath`: weak fairness of the reconcile goroutine, of the shutdown
  goroutine once the signal came, of the clock, and of the DaemonSet starting the
  agent again.

* `Egress`: weak fairness of each agent's pass and watches, and of the pool that
  grants the Link (what `Settles` shows of `LinkPool`).
* `Metrics`: an apply under way returns, the mutex goes to the scrape that waits
  for it, and the five-second timer fires. That the kernel answers a conntrack
  dump is not assumed.

Nothing assumes that a write succeeds or that a cache is current.

## Proofs

`LinkPool_proof` proves, for any nodes, keys, slots, ages and bounds allowed by
`PoolAssumption`:

* `PoolTypeCorrect`, `PoolCoherent`: `TypeOK` and `Coherent` are invariants;
* `PoolNoSharedSlot`: follows from them;
* `PoolLinksLeave`: what a step may do to a Link.

The inductive invariant is `TypeOK /\ Coherent`. `NoSharedSlot` speaks of hosts
alone and is not inductive: a host takes its slots from its cache, so the cache
must hold accepted claims (`CacheCoherent`); an accepted claim either stands in
the server, where a slot has one key, or was deleted, which `released`
remembers (`ProgAccepted`). That a delete hits only what it was decided for
needs the pending writes (`WritesCoherent`): a write whose version is not
marked old still finds its Link with its key and, for a release, an age that is
over the limit, since ages only grow until somebody writes. The proof has one
step per action and under it one per part of `Coherent`.

`LinkPool_proof` also proves `PoolImplementsLease`: under the mapping that takes a
Link's key for the lease, the aged Links for idle ones, the deleted claims for
past leases and the programmed slots for used ones, every behaviour of
`LinkPool` is one of `LinkLease`. Most steps change nothing the mapping shows.
A create is a grant, because the API server refuses a name that exists. A delete
ends a lease legally because of `WritesCoherent`, and a programmed host uses
granted leases because of `CacheCoherent` and `ProgAccepted`; so the refinement
rests on the same inductive invariant.

It also proves `PoolQuietBeforeRelease` for `LinkRelease`. Its steps are steps of
`LinkPool`, so that invariant and `PoolLinksLeave` carry over. What is added is
`QuietAge`: where no claim of the key stands or stood on a lower slot, the slot
was quiet at least as many ticks as its UnusedSince is old. A tick keeps it
because a settled agent whose host carries the slot would have cleared
UnusedSince; a lower claim that is deleted is remembered in `released`, so no
Link becomes alone later.

`NodeDatapath_proof` proves, for any links, slots and bounds:

* `NodeTypeCorrect` and `NodeKeptBlocked`, from `NodeAssumption` alone;
* `NodeAppliedSteers`, from that alone too: while the agent trusts its record,
  the host has everything the State steers packets by (the link's device with its
  end, no other device, the mark, the rule and the route);
* `NodeAppliedMatches`, that the host is then the State exactly, and
  `NodeCommitOverLiveLink`. The first assumes that drift spoils one part of a
  device at a time (`OneDrift`) and that no two links share a slot (`OwnSlot`),
  the second only `OneDrift`. Both are needed: a device wrong in two parts is
  repaired in one (`netlink.go:122`), and a slot that passes on leaves an old
  address behind (`datapath_reuse`).

The properties speak of finished applies. The invariant has what each stage has
achieved (`Progress`, by the stages left to do), for the job of the reconcile
loop and for the one of the shutdown, and who may be in the middle of one
(`Process`: the mutex, the two jobs and the record exclude each other as the code
has it). `Kernel` says what the kernel never has, such as a route without its
link's end.

`Egress_proof` proves `EgressTypeCorrect`, `EgressOneDevice` and `EgressStaysHeld`
from any initial worlds and any forwarding settings, under `EgressAssumption`,
which only keeps the values that mean nothing apart from nodes, keys and classes.
`StaysHeld` is about one step; what makes it true is what caches and keep states
hold beforehand. `Current` says that a pod not in `lapsed` is secured by the
objects as they are. `Seen` says that while no pod or class was edited every
agent's view, however its kinds are out of step, secures that pod too, and a keep
state blocks it. `Devices` is for `OneDevice`. The step that matters is a pass
(`SecuredHeld`): whatever Links, Nodes and rows the view has, a secured pod gets a
link or the blackhole. The bounds on changes and faults are constants like any
others, so the theorems cover any number of them.

`StatusWrites_proof` proves `StatusTypeCorrect`, `StatusOwnRowOnly` and
`StatusPortMapMerges` (what is written to a PortMap is the merge into the object
the server has at that moment). The invariant adds to the types that a cached
object whose version is not old is the server's; the version check of the update
does the rest.

`PortMaps_proof` proves, for any number of PortMaps, classes, pods and nodes,
`PortMapsHeldDisjoint`, `PortMapsConflictHasHolder`, `PortMapsOneReturnRule` and
`PortMapsLaterChangesNothing` of `Spec`, and `PortMapsWayBack`,
`PortMapsLocalFirst` and `PortMapsOneWriter` of `Spec` and of `RPSpec`. The
invariant (`Objects`) only says that timestamps and ports are numbers; the work is
in the operators. `Held` refers to itself, so first there must be such a set:
`SolvesExists` and `SolvesUnique` show, for any well-founded transitive order in
which only the earlier can block the later, that there is exactly one. Induction
is replaced by the earliest element in doubt, which exists because creation
times and names are numbers (`EarliestExists`). Uniqueness gives
`LaterChangesNothing`: without the newcomer, the new holders solve the old
problem.

`SlotNumbers_proof` proves, for all 1024 slots, that no two share a mark, table,
VNI or address (`NumbersApartHolds`), that marks stay clear of Cilium's bits and
of the blocked mark (`MarksClearHolds`), that tables and addresses stay clear of
everybody else's (`TablesAndAddressesClearHolds`); for any two underlays, that
the ends agree on MTU and IPv6 (`EndsAgreeHolds`); and for any address, that its
IPv6 stand-in has the same ones' complement sum (`ChecksumNeutralHolds`).

`Counters_proof` proves, for any series and bounds, `CountersTypeCorrect`,
`CountersConserved` and `CountersNeverGoBack`. The inductive invariant adds
three facts to the types: the counts a fold has added are still in the live
table until the commit; the account of each series, with the folded part taken
out once; and that what was scraped is covered by the totals alone while a
commit may come. Every step of `Metrics` is a step of `Counters` or a failed read
(`MStep`), so `MetricsConserved` and `MetricsNeverGoBack` hold under passes,
changes of owner and any number of collectors. `MetricsOwnRules` is what
`OwnTraffic` sums, rule by rule: when a scrape reads the counters, each rule of a
PortMap whose rules stayed its own has exactly that PortMap's packets. Its
invariant (`Owned`) says that the live rules are those of the index in force,
each noted with its owner in `ever`; that an owner has no packets of a rule it
never had, and all of one nobody else had.

`ReturnPath_proof` proves, for any number of nodes, classes, PortMaps and pods,
any pool and any order of passes:

* `ReturnPathRepliesReturn`: `RepliesReturn` always holds where `OneClass` does;
* `ReturnPathFlowsByRole`: `FlowsByRole` is an invariant;
* `ReturnPathProgrammedServes`: `ProgrammedServes` holds in every state in which
  `OneClass`, `PortsApart` and `StandInsSuffice` do.

A packet's way is computed from rules that two nodes wrote at different times,
from objects that may be gone, so none of the three is inductive. The invariant
says of each host, whenever it was written, what the rules on it have in common.
`HostsInv`: two slots of the pool have two keys; a device has the addresses of its
slot and one peer; a DNAT rule either takes what comes in, to the pod or to the far
end of a link, or takes what comes over a link, on its own address, to a pod of this
node; policy rules, routes and saved marks are those of slots. `ReturnsInv`:
replies to what a rule delivers from a link are marked by exactly one rule, with
that link's mark, and the mark has a policy rule. `Reported`: a host that sends
to the far end of a link is an accepting node of the link's class and has its row
there. Nothing is said of the far end, which may have none: then it takes the link
for large enough and serves whatever the near end sends (`CarriesBack`). For each of them a lemma shows
that `BuildState` and `Render` establish it from any objects (`PassAgrees` for
`HostsInv`), and that the other actions leave hosts alone. That marks, tables and
addresses of two slots never coincide is cited from `SlotNumbers_proof`, what roles
and endpoints are from `PortMaps_proof`.

The conditions are what the code leaves to the cluster:

* `PlainInterfaces`: no class lists an interface named like a return link
  (`kup-`, `netlink.go:37`). Nothing validates this, and rules for such an
  interface would pass for those of a link.
* `OneClass`: the accepted mappings of one Service port have one class.
  `return_classes` is a cluster without it, in which `RepliesReturn` fails.
* `UnderlaysKnown`: on the nodes a class names no MTU is 0, which is what a failed
  read gives (`agent.go:342`). Two accepting nodes, one with 0, may disagree on
  IPv6 the other way round. Nothing is asked of a pod's node outside the class.
* `PortsApart`: classes that share an interface accept no common port. Conflicts
  are resolved within a class.
* `StandInsSuffice`: no node has more addresses than there are stand-ins.

All of them hold in every state of the `return_path` run. `FlowsByRole` needs only
`PlainInterfaces`, `RepliesReturn` that and `OneClass`.

Only model-checked:

* liveness (`Settles`, `HostSettles`, `StatusSettles`, `EgressSettles`,
  `ScrapeEnds`): the prover does not handle fairness.
* `LoopDecides` and `OwnTraffic`: a fold over a sorted sequence and sums over
  sets are recursive, and what they compute for every input needs an induction
  the prover cannot do. `MetricsOwnRules` is `OwnTraffic` without the sums.

## Not modelled

* The nftables expressions and the text of rules, and reading live rules back:
  layout. What the rules match and do is in `ReturnPath`. `mergeRanges` only
  joins ranges for output.
* API types and generated code; flags, logging, health probes.
* The reads of the host (interface addresses, MTU, the CNI's mode): I/O. That
  interfaces resolve, and that a host forwards IPv6, are inputs that change.
* The retry loop of the metrics listener (`listen.go`): it binds until it
  succeeds. An error of Serve ends the endpoint until the agent restarts.
* Class conditions, deprecated fields and published addresses of the statuses.
* The limit of 254 IPv4 stand-ins is in `StandIn`; no instance has that many
  addresses, and `ReturnPathProgrammedServes` takes it as a condition.
* The number of conntrack dumps that nobody waits for has no bound in the code;
  `Metrics` counts them (`late`), and its runs bound them by the scrapes.
