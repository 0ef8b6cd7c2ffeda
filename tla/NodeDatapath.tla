---------------------------- MODULE NodeDatapath ----------------------------
(***************************************************************************)
(* One node: the agent's reconcile loop, its shutdown, and the kernel      *)
(* state they write (internal/agent/agent.go, internal/agent/shutdown.go,  *)
(* internal/datapath/apply.go, netlink.go and nft.go), seen through one    *)
(* pod whose traffic kuport steers.                                        *)
(*                                                                         *)
(* Compute gives the pod one of these paths: a link, whose mark, routing   *)
(* rule, routing table and device all bear the link's number; Blocked, the *)
(* shared mark whose table holds only a blackhole; or NoMark, no rule at   *)
(* all.  The nftables table is replaced in one transaction; links, rules   *)
(* and routes are changed one netlink call at a time.  So one apply is     *)
(* many kernel states, and it may fail between any two of them.            *)
(*                                                                         *)
(* Two links never hold one slot at a time, but a slot that was released   *)
(* may be given to another pair while this node's cache lags or its agent  *)
(* is down: then the node finds the other link's device under its name.    *)
(* Links of one slot are taken to give this node opposite ends of the /31  *)
(* (with equal ends they have one gateway, and nothing is left to correct).*)
(*                                                                         *)
(* Left out: the second address family (the same calls again), the MTU of  *)
(* a device, and what other pods' rules do.                                *)
(***************************************************************************)
EXTENDS Integers, Sequences, FiniteSets

CONSTANTS
  Links,       \* links a path may use
  SlotOf,      \* the slot of each: its device, mark, rule and table
  FailClosed,  \* the Egress that selects the pod fails closed
  Repair,      \* --resync, in ticks: how long an unchanged State is trusted
  Drifts,      \* the ways a device may be altered behind the agent's back
  MaxChanges,  \* bound on the changes of path in one behaviour
  MaxFaults,   \* bound on failures, drift and crashes in one behaviour
  MaxStops,    \* bound on clean shutdowns in one behaviour
  NoMark, Blocked, Nothing

ASSUME NodeAssumption ==
  /\ IsFiniteSet(Links) /\ DOMAIN SlotOf = Links
  /\ FailClosed \in BOOLEAN
  /\ Repair \in Nat \ {0}
  /\ Drifts \subseteq {"moved", "wrong", "both"}
  /\ MaxChanges \in Nat /\ MaxFaults \in Nat /\ MaxStops \in Nat
  /\ NoMark # Blocked /\ NoMark # Nothing /\ Blocked # Nothing
  /\ (Links \cup {SlotOf[l] : l \in Links}) \cap {NoMark, Blocked, Nothing} = {}
  /\ Links \cap {"absent", "moved", "wrong", "both"} = {}

VARIABLES
  path,      \* the path Compute gives the pod now
  host,      \* the kernel: devices, the pod's mark, rules and routes
  up,        \* the agent process runs
  stopping,  \* its context is cancelled
  keep,      \* Reconciler.keep: Blocked, or NoMark when nothing has to stay
  applied,   \* Reconciler.applied: the last State applied, or Nothing
  age,       \* ticks since appliedAt, counted up to Repair
  work,      \* the apply of the reconcile goroutine
  stop,      \* the apply or teardown of the shutdown goroutine
  stopped,   \* what the shutdown goroutine has done: "no" while it has not
  lock,      \* who is in FoldAndApply, under the mutex of Counters
  exit,      \* how the last process ended, until the kernel is written again
  drifted,   \* something else wrote to the kernel since the last apply began
  changes, faults, stops

memory == <<keep, applied, age>>
process == <<up, stopping, memory>>
jobs == <<work, stop, stopped, lock>>
bounds == <<changes, faults, stops>>
vars == <<path, host, process, jobs, exit, drifted, bounds>>

-----------------------------------------------------------------------------
(* The kernel.                                                             *)

Slots == {SlotOf[l] : l \in Links}
Tables == Slots \cup {Blocked}             \* marks with a rule and a table
Routes == Links \cup {Blocked}             \* a link's gateway, the blackhole
Plans == Routes \cup {NoMark}
Paths == IF FailClosed THEN Plans ELSE Plans \ {Blocked}

\* linkMark and the table of a path.
MarkOf(m) == IF m \in Links THEN SlotOf[m] ELSE m

\* linkActionFor's view of a device: it is kept when it is the link's, and
\* retargeted when its endpoints are not the wanted ones (moved, or another
\* link's), and rebuilt when its VNI or port is not (wrong).  Endpoints are
\* compared first.
Devices == Links \cup {"absent", "moved", "wrong", "both"}

\* ends: the links whose end of the /31 the device has as an address.
Host == [dev : [Slots -> Devices], ends : [Slots -> SUBSET Links],
         mark : Tables \cup {NoMark}, rules : SUBSET Tables, routes : SUBSET Routes]

\* The kernel once the State of path m is applied completely.
HostOf(m) ==
  LET mine(s) == {l \in Links : l = m /\ SlotOf[l] = s} IN
  [dev    |-> [s \in Slots |-> IF mine(s) = {} THEN "absent" ELSE m],
   ends   |-> [s \in Slots |-> mine(s)],
   mark   |-> MarkOf(m),
   rules  |-> {MarkOf(m)} \cap Tables,
   routes |-> {m} \cap Routes]

\* Where the pod's default-route traffic goes: a mark without its rule, or a
\* rule whose table is empty, falls through to the node's main table.
Verdict(h) ==
  IF h.mark \in h.rules /\ \E r \in h.routes : MarkOf(r) = h.mark
    THEN IF h.mark = Blocked THEN "dropped" ELSE "linked"
    ELSE "direct"

SetDev(h, s, d) == [h EXCEPT !.dev[s] = d]

\* The device under link m's name is m's, and gets m's address too: LinkAdd or
\* a retarget, AddrAdd, MTU and SetUp as one step.
Carries(h, m) == [SetDev(h, SlotOf[m], m) EXCEPT !.ends[SlotOf[m]] = @ \cup {m}]

\* Deleting a device takes its addresses and its routes along.
DelDev(h, s) == [h EXCEPT !.dev[s] = "absent", !.ends[s] = {},
                          !.routes = {r \in @ : MarkOf(r) # s}]

Present(h) == {s \in Slots : h.dev[s] # "absent"}

-----------------------------------------------------------------------------
(* The calls of each stage: what the next one may do to the kernel, and    *)
(* whether the stage is over with it.                                      *)

Call(h, last) == [host |-> h, last |-> last]

\* applyLinks, its first loop: the wanted device is created, retargeted, or
\* rebuilt, which is a delete and a create.  A retarget leaves VNI and port,
\* and an IPv4 address that is missing is added; none is ever removed.
LinkCalls(h, m) ==
  IF m \in Links
    THEN {CASE h.dev[SlotOf[m]] = "wrong" -> Call(DelDev(h, SlotOf[m]), FALSE)
            [] h.dev[SlotOf[m]] = "both"  -> Call(SetDev(Carries(h, m), SlotOf[m], "wrong"), TRUE)
            [] OTHER                      -> Call(Carries(h, m), TRUE)}
    ELSE {Call(h, TRUE)}

\* applyLinks, its second loop: delete the others.
UnlinkCalls(h, m) ==
  LET stale == Present(h) \ {MarkOf(m)} IN
  IF stale = {} THEN {Call(h, TRUE)}
                ELSE {Call(DelDev(h, s), FALSE) : s \in stale}

\* teardownNetlink: of each device, the routes over it and then the device.
TearCalls(h) ==
  LET over(s) == {r \in h.routes : MarkOf(r) = s} IN
  IF Present(h) = {} THEN {Call(h, TRUE)}
  ELSE {Call(IF over(s) # {} THEN [h EXCEPT !.routes = @ \ over(s)] ELSE DelDev(h, s),
             FALSE) : s \in Present(h)}

\* applyNFT, teardownNFT: one transaction.
NftCalls(h, m) == {Call([h EXCEPT !.mark = MarkOf(m)], TRUE)}

\* applyRules: add the missing, then delete the owned ones not wanted.
RuleCalls(h, m) ==
  LET missing == ({MarkOf(m)} \cap Tables) \ h.rules
      stale   == h.rules \ {MarkOf(m)}
  IN IF missing # {} THEN {Call([h EXCEPT !.rules = @ \cup missing], FALSE)}
     ELSE IF stale = {} THEN {Call(h, TRUE)}
     ELSE {Call([h EXCEPT !.rules = @ \ {r}], FALSE) : r \in stale}

\* applyRoutes: the blocked table first, then the table the plan names.  The
\* table of a link no longer wanted has lost its route with the device.
RouteCalls(h, m) ==
  IF Blocked \in h.routes /\ m # Blocked
    THEN {Call([h EXCEPT !.routes = @ \ {Blocked}], FALSE)}
    ELSE {Call([h EXCEPT !.routes = @ \cup ({m} \cap Routes)], TRUE)}

Calls(stage, h, m) ==
  CASE stage = "links"   -> LinkCalls(h, m)
    [] stage = "unlinks" -> UnlinkCalls(h, m)
    [] stage = "tear"    -> TearCalls(h)
    [] stage = "nft"     -> NftCalls(h, m)
    [] stage = "rules"   -> RuleCalls(h, m)
    [] stage = "routes"  -> RouteCalls(h, m)

\* Mutant of ApplyOrder: the ruleset is committed before the links are live.
CommitFirst == <<"nft", "links", "unlinks", "rules", "routes">>

\* Apply and Teardown: the order of the stages.
ApplyOrder == <<"links", "unlinks", "nft", "rules", "routes">>
TeardownOrder == <<"tear", "rules", "routes", "nft">>

ApplyOf(m) == [todo |-> ApplyOrder, plan |-> m]
TeardownJob == [todo |-> TeardownOrder, plan |-> NoMark]
NoJob == [todo |-> <<>>, plan |-> Nothing]

Job == [todo : {SubSeq(ApplyOrder, i, 5) : i \in 1 .. 6}
                 \cup {SubSeq(TeardownOrder, i, 4) : i \in 1 .. 5},
        plan : Plans \cup {Nothing}]

\* The route cannot be added: over a device that is gone it cannot be
\* expressed (toNLRoute), and on a device with another link's end the gateway
\* is an address of this node, or the table has the other gateway's default
\* route, which is deleted only after the wanted one is added.
NoRoute(job, h) ==
  /\ job.todo # <<>> /\ Head(job.todo) = "routes" /\ job.plan \in Links
  /\ \/ h.dev[SlotOf[job.plan]] = "absent"
     \/ job.plan \notin h.routes /\ h.ends[SlotOf[job.plan]] # {job.plan}

\* A job that makes one call: the kernel and the job after it.
CallsOf(job, h) ==
  IF job.todo = <<>> \/ NoRoute(job, h) THEN {}
  ELSE {<<c.host, IF c.last THEN [job EXCEPT !.todo = Tail(@)] ELSE job>> :
          c \in Calls(Head(job.todo), h, job.plan)}

TypeOK ==
  /\ path \in Paths
  /\ host \in Host
  /\ up \in BOOLEAN /\ stopping \in BOOLEAN /\ drifted \in BOOLEAN
  /\ keep \in {NoMark, Blocked}
  /\ applied \in Paths \cup {Nothing}
  /\ age \in 0 .. Repair
  /\ work \in Job /\ stop \in Job
  /\ stopped \in {"no", "kept", "torn", "failed"}
  /\ lock \subseteq {"work", "stop"}
  /\ exit \in {"none", "kept", "torn", "failed", "crashed"}
  /\ changes \in 0 .. MaxChanges /\ faults \in 0 .. MaxFaults
  /\ stops \in 0 .. MaxStops

\* Mutant of KeepOf: the whole State is kept, not the blackhole alone.
KeepWhole(p) == IF FailClosed THEN p ELSE NoMark

\* keepState: a fail-closed pod that has a path is held in the blackhole.
KeepOf(p) == IF FailClosed /\ p # NoMark THEN Blocked ELSE NoMark

\* A node whose agent has completed its first pass.
Init ==
  /\ path \in Paths
  /\ host = HostOf(path)
  /\ up = TRUE /\ stopping = FALSE
  /\ keep = KeepOf(path) /\ applied = path /\ age = 0
  /\ work = NoJob /\ stop = NoJob /\ stopped = "no" /\ lock = {}
  /\ exit = "none" /\ drifted = FALSE
  /\ changes = 0 /\ faults = 0 /\ stops = 0

-----------------------------------------------------------------------------
(* The environment.                                                        *)

Fault == faults < MaxFaults /\ faults' = faults + 1 /\ UNCHANGED <<changes, stops>>

PathChanges(p) ==
  /\ changes < MaxChanges /\ p # path
  /\ path' = p /\ changes' = changes + 1
  /\ UNCHANGED <<host, process, jobs, exit, drifted, faults, stops>>

\* Something else on the node removes or alters a device, or drops the table.
Drift ==
  /\ Fault
  /\ \/ \E s \in Present(host) :
          \/ host' = DelDev(host, s)
          \/ \E d \in Drifts : host' = SetDev(host, s, d)
     \/ host.mark # NoMark /\ host' = [host EXCEPT !.mark = NoMark]
  /\ drifted' = TRUE /\ exit' = "none"
  /\ UNCHANGED <<path, process, jobs>>

Tick ==
  /\ up
  /\ age' = IF age < Repair THEN age + 1 ELSE Repair
  /\ UNCHANGED <<path, host, up, stopping, keep, applied, jobs, exit, drifted, bounds>>

Sigterm ==
  /\ up /\ ~stopping /\ stops < MaxStops
  /\ stopping' = TRUE /\ stops' = stops + 1
  /\ UNCHANGED <<path, host, up, memory, jobs, exit, drifted, changes, faults>>

\* The end of a process: nothing of it is left but what it wrote.
ProcessEnds(how) ==
  /\ up' = FALSE /\ stopping' = FALSE
  /\ keep' = NoMark /\ applied' = Nothing /\ age' = 0
  /\ work' = NoJob /\ stop' = NoJob /\ stopped' = "no" /\ lock' = {}
  /\ exit' = how
  /\ UNCHANGED <<path, host, drifted>>

Crash == up /\ Fault /\ ProcessEnds("crashed")

StartAgent ==
  /\ ~up /\ up' = TRUE
  /\ UNCHANGED <<path, host, stopping, memory, jobs, exit, drifted, bounds>>

-----------------------------------------------------------------------------
(* The reconcile goroutine.                                                *)

\* Mutant of Unchanged: an equal State is trusted for ever.
TrustedForEver(p) == applied = p

\* applyState skips a State equal to the last applied until Repair is over.
Unchanged(p) == applied = p /\ age < Repair

\* Mutant of ForgetApplied: a failed apply leaves the record standing.
RememberApplied == applied

\* applyState clears the record before it applies.
ForgetApplied == Nothing

\* Reconcile: compute, store the keep state, decide whether to apply.  A
\* pass that changes neither is a stuttering step.
BeginPass ==
  /\ up /\ ~stopping /\ work = NoJob
  /\ keep # KeepOf(path) \/ ~Unchanged(path)
  /\ keep' = KeepOf(path)
  /\ IF Unchanged(path)
       THEN UNCHANGED <<applied, age, work>>
       ELSE /\ applied' = ForgetApplied /\ age' = 0
            /\ work' = ApplyOf(path)
  /\ UNCHANGED <<path, host, up, stopping, stop, stopped, lock, exit, drifted, bounds>>

\* FoldAndApply takes the mutex; Apply refuses a cancelled context, and does
\* not look at it again.
BeginApply ==
  /\ work # NoJob /\ lock = {}
  /\ IF stopping
       THEN work' = NoJob /\ UNCHANGED <<lock, exit, drifted>>
       ELSE /\ lock' = {"work"} /\ exit' = "none" /\ drifted' = FALSE
            /\ UNCHANGED work
  /\ UNCHANGED <<path, host, process, stop, stopped, bounds>>

ApplyStep ==
  /\ "work" \in lock
  /\ \E c \in CallsOf(work, host) : host' = c[1] /\ work' = c[2]
  /\ UNCHANGED <<path, process, stop, stopped, lock, exit, drifted, bounds>>

EndApply ==
  /\ "work" \in lock /\ work.todo = <<>>
  /\ applied' = work.plan
  /\ work' = NoJob /\ lock' = lock \ {"work"}
  /\ UNCHANGED <<path, host, up, stopping, keep, age, stop, stopped, exit, drifted, bounds>>

\* The pass returns the error of an apply, and nothing is recorded.
ApplyReturns ==
  /\ "work" \in lock /\ work.todo # <<>>
  /\ work' = NoJob /\ lock' = lock \ {"work"}
  /\ UNCHANGED <<path, host, process, stop, stopped, exit, drifted>>

ApplyFails == Fault /\ ApplyReturns

ApplyNoRoute == NoRoute(work, host) /\ ApplyReturns /\ UNCHANGED bounds

-----------------------------------------------------------------------------
(* The shutdown goroutine.                                                 *)

\* Mutant of StopMayApply: the keep state is applied without the mutex.
StopUnlocked == TRUE

\* The keep state goes through HostDatapath.Apply, and so through the mutex.
StopMayApply == lock = {}

\* TeardownRunnable.Start: apply the keep state, or tear down.  Only Apply
\* takes the mutex; neither uses the cancelled context.
BeginStop ==
  /\ up /\ stopping /\ stop = NoJob /\ stopped = "no"
  /\ IF keep = Blocked
       THEN /\ StopMayApply
            /\ lock' = lock \cup {"stop"} /\ stop' = ApplyOf(keep)
            /\ drifted' = FALSE
       ELSE stop' = TeardownJob /\ UNCHANGED <<lock, drifted>>
  /\ exit' = "none"
  /\ UNCHANGED <<path, host, process, work, stopped, bounds>>

StopStep ==
  /\ \E c \in CallsOf(stop, host) : host' = c[1] /\ stop' = c[2]
  /\ UNCHANGED <<path, process, work, stopped, lock, exit, drifted, bounds>>

StopReturns(how) ==
  /\ stop # NoJob
  /\ stop' = NoJob /\ stopped' = how /\ lock' = lock \ {"stop"}
  /\ UNCHANGED <<path, host, process, work, exit, drifted>>

EndStop ==
  /\ stop.todo = <<>>
  /\ StopReturns(IF stop.plan = Blocked THEN "kept" ELSE "torn")
  /\ UNCHANGED bounds

StopFails == stop.todo # <<>> /\ Fault /\ StopReturns("failed")

\* The manager waits for its runnables, and the process ends.
Exit ==
  /\ up /\ stopped # "no" /\ work = NoJob
  /\ ProcessEnds(stopped)
  /\ UNCHANGED bounds

-----------------------------------------------------------------------------
Work == BeginPass \/ BeginApply \/ ApplyStep \/ EndApply \/ ApplyNoRoute

Stop == BeginStop \/ StopStep \/ EndStop \/ Exit

Environment ==
  \/ \E p \in Paths : PathChanges(p)
  \/ Drift \/ Sigterm \/ Crash \/ ApplyFails \/ StopFails

Next == Work \/ Stop \/ Tick \/ StartAgent \/ Environment

Spec == Init /\ [][Next]_vars

\* Both goroutines run, time passes (Reconcile asks for a requeue after
\* hostPollPeriod), and the DaemonSet starts the agent again.
Fairness ==
  WF_vars(Work) /\ WF_vars(Stop) /\ WF_vars(Tick) /\ WF_vars(StartAgent)

FairSpec == Spec /\ Fairness

-----------------------------------------------------------------------------
(* Properties.                                                             *)

\* applied is trusted without looking at the kernel: while no foreign hand
\* has written to it and no shutdown is under way, a recorded State is the
\* one the kernel holds, completely, whatever applies failed before
\* (applyState clears the record before it applies).
AppliedMatches ==
  up /\ ~stopping /\ ~drifted /\ applied # Nothing => host = HostOf(applied)

\* After a shutdown that reports the keep state applied, the blackhole and
\* nothing else is in the kernel, until somebody writes again: the apply that
\* was in flight when the signal came cannot write over it.
KeptBlocked == exit = "kept" /\ ~drifted => host = HostOf(Blocked)

\* F10: the ruleset starts to steer into a link only while the link's device
\* is there and current, since links precede the nftables commit.
CommitOverLiveLink ==
  [][/\ host'.mark # host.mark /\ host'.mark \in Slots
     /\ ~stopping /\ ~drifted
     => host.dev[host'.mark] = work.plan]_vars

\* Once changes, failures and restarts end, the kernel comes to hold the
\* pod's path exactly and keeps it, drift included: the Repair period bounds
\* how long an unchanged State is left alone, and "what is stale is updated in
\* place, and what kuport finds under its own names and no longer wants is
\* removed" (Apply, apply.go:79).
HostSettles == <>[](up /\ host = HostOf(path))

\* From a clean shutdown to the next agent's first apply, a fail-closed pod
\* stays blocked (docs/decisions.md).
BlockedThroughGap ==
  ~up /\ path # NoMark /\ exit \in {"kept", "torn"} => Verdict(host) = "dropped"

=============================================================================
