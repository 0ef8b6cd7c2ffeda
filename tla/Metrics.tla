------------------------------ MODULE Metrics ------------------------------
(***************************************************************************)
(* What a scrape says about each PortMap: the owner index of a pass        *)
(* (internal/reconcile/metrics.go), its record after a successful apply    *)
(* (internal/agent/metrics.go), and the collector that reads the record,   *)
(* the totals and conntrack one after the other                            *)
(* (internal/metrics/collector.go, internal/datapath/conntrack.go).        *)
(*                                                                         *)
(* Counters has the totals and the mutex.  Here the reconcile loop works   *)
(* with an index, from each rule to the PortMaps it counts for: one for a  *)
(* rule of kup-pre, and in kup-count all that translate to the same port.  *)
(* The State has no owners, so an index may change under an unchanged      *)
(* State, which is not applied again.  An owner's labels are one series.   *)
(***************************************************************************)
EXTENDS Counters, FiniteSetsExt

CONSTANTS
  Owners,      \* PortMaps
  Indexes,     \* the owner indexes that passes compute
  Scrapers,    \* scrapes that may run at a time
  MaxScrapes   \* bound on scrapes

ASSUME MetricsAssumption ==
  /\ Indexes \subseteq [Series -> SUBSET Owners]
  /\ MaxScrapes \in Nat

VARIABLES
  pass,      \* the reconcile loop: idle, applying, or applied (to be recorded)
  index,     \* MetricsIndex of the pass at hand
  applied,   \* r.applied is set: the last apply succeeded
  snap,      \* r.snap: the index last recorded
  pc,        \* pc[s]: how far the scrape is
  loaded,    \* loaded[s]: the snapshot it works with
  late,      \* conntrack dumps that run on after their scrape gave up
  scrapes,   \* scrapes so far
  serves,    \* ghost: the owners of the rules in the live table
  ever,      \* ghost: every <<rule, owner>> that was in force
  own        \* own[o][k]: ghost, packets that met rule k while it counted for o

passes == <<pass, index, applied, snap>>
collector == <<pc, loaded, late, scrapes>>
owned == <<serves, ever, own>>
mvars == <<vars, passes, collector, owned>>

Nobody == [k \in Series |-> {}]
RulesIn(I) == {k \in Series : I[k] # {}}

\* The rules whose counters an owner's series sums.
Rules(I, o) == {k \in Series : o \in I[k]}

MInit ==
  /\ Init
  /\ pass = "idle" /\ index = Nobody /\ applied = FALSE /\ snap = Nobody
  /\ pc = [s \in Scrapers |-> "idle"]
  /\ loaded = [s \in Scrapers |-> Nobody]
  /\ late = 0 /\ scrapes = 0
  /\ serves = Nobody /\ ever = {} /\ own = [o \in Owners |-> Zero]

-----------------------------------------------------------------------------
(* The reconcile loop.                                                     *)

\* From now on the live rules serve the owners of I.
Serve(I) ==
  /\ serves' = I
  /\ ever' = ever \cup {x \in Series \X Owners : x[2] \in I[x[1]]}
  /\ UNCHANGED own

\* A pass with a new State: FoldAndApply takes the mutex.
PassApplies(I) ==
  /\ pass = "idle"
  /\ Fold(RulesIn(I)) \/ SkipFold(RulesIn(I))
  /\ pass' = "applying" /\ index' = I /\ applied' = FALSE
  /\ UNCHANGED <<snap, collector, owned>>

\* A pass whose State is the applied one; its owners may differ.
PassUnchanged(I) ==
  /\ pass = "idle" /\ applied
  /\ RulesIn(I) = table /\ I # serves
  /\ pass' = "applied" /\ index' = I
  /\ Serve(I)
  /\ UNCHANGED <<vars, applied, snap, collector>>

TableCommits == Commit /\ Serve(index) /\ UNCHANGED <<passes, collector>>

\* An error ends the pass: nothing is recorded.
ApplyFails ==
  /\ FailBefore \/ Return
  /\ pass' = "idle" /\ index' = Nobody
  /\ UNCHANGED <<applied, snap, collector, owned>>

ApplyReturns ==
  /\ Return
  /\ pass' = "applied" /\ applied' = TRUE
  /\ UNCHANGED <<index, snap, collector, owned>>

\* recordApply, outside the mutex.
RecordApply ==
  /\ pass = "applied"
  /\ pass' = "idle" /\ snap' = index /\ index' = Nobody
  /\ UNCHANGED <<vars, applied, collector, owned>>

\* A packet meets a rule.
Traffic(k) ==
  /\ Packet(k)
  /\ own' = [o \in Owners |-> IF o \in serves[k] THEN [own[o] EXCEPT ![k] = @ + 1]
                              ELSE own[o]]
  /\ UNCHANGED <<passes, collector, serves, ever>>

-----------------------------------------------------------------------------
(* Collect.                                                                *)

LoadSnapshot(s) ==
  /\ pc[s] = "idle" /\ scrapes < MaxScrapes
  /\ scrapes' = scrapes + 1
  /\ pc' = [pc EXCEPT ![s] = "loaded"]
  /\ loaded' = [loaded EXCEPT ![s] = snap]
  /\ UNCHANGED <<vars, passes, late, owned>>

\* Conntrack is dumped when there is a rule to count flows for.
AfterCounters(s) ==
  /\ pc' = [pc EXCEPT ![s] = IF RulesIn(loaded[s]) = {} THEN "idle" ELSE "dumping"]
  /\ loaded' = [loaded EXCEPT ![s] = Nobody]

\* Mutant of Sums: rules are told apart by their ports alone, not by target.
SumsByPort(I) ==
  [o \in {p \in Owners : Rules(I, p) # {}} |->
     MapThenSumSet(LAMBDA k : held[k] + live[k], Series)]

\* collectCounters: each owner's sum over its rules, totals plus live table.
Sums(I) ==
  [o \in {p \in Owners : Rules(I, p) # {}} |->
     MapThenSumSet(LAMBDA k : held[k] + live[k], Rules(I, o))]

ReadCounters(s) ==
  /\ pc[s] = "loaded"
  /\ Scrape
  /\ AfterCounters(s)
  /\ UNCHANGED <<passes, late, scrapes, owned>>

\* A failed read leaves every counter out of the scrape.
ReadFails(s) ==
  /\ pc[s] = "loaded" /\ ReadAllowed /\ Fault
  /\ AfterCounters(s)
  /\ UNCHANGED <<kernel, held, stage, plan, scraped, ghosts, applies,
                 passes, late, scrapes, owned>>

\* DumpFlows: the kernel answers, with flows or an error.
DumpAnswers(s) ==
  /\ pc[s] = "dumping"
  /\ pc' = [pc EXCEPT ![s] = "idle"]
  /\ UNCHANGED <<vars, passes, loaded, late, scrapes, owned>>

\* Mutant of DumpTimesOut: DumpFlows waits for the dumps before it.
DumpWaits(s) ==
  /\ pc[s] = "dumping" /\ late = 0
  /\ pc' = [pc EXCEPT ![s] = "idle"] /\ late' = late + 1
  /\ UNCHANGED <<vars, passes, loaded, scrapes, owned>>

\* It gives up after dumpTimeout; the listing goes on by itself.
DumpTimesOut(s) ==
  /\ pc[s] = "dumping"
  /\ pc' = [pc EXCEPT ![s] = "idle"] /\ late' = late + 1
  /\ UNCHANGED <<vars, passes, loaded, scrapes, owned>>

\* An answer nobody waits for is dropped.
LateAnswer ==
  /\ late > 0 /\ late' = late - 1
  /\ UNCHANGED <<vars, passes, pc, loaded, scrapes, owned>>

Collect(s) == ReadCounters(s) \/ ReadFails(s) \/ DumpAnswers(s) \/ DumpTimesOut(s)

MNext ==
  \/ \E k \in Series : Traffic(k)
  \/ \E I \in Indexes : PassApplies(I) \/ PassUnchanged(I)
  \/ TableCommits \/ ApplyFails \/ ApplyReturns \/ RecordApply
  \/ \E s \in Scrapers : LoadSnapshot(s) \/ Collect(s)
  \/ LateAnswer

MSpec == MInit /\ [][MNext]_mvars

\* The apply goes on and returns, the mutex goes to who waits for it, and the
\* timer fires.  That the kernel answers a dump is not assumed.
MFairness ==
  /\ WF_mvars(TableCommits \/ ApplyFails \/ ApplyReturns)
  /\ \A s \in Scrapers : WF_mvars(ReadCounters(s)) /\ WF_mvars(DumpTimesOut(s))

FairMSpec == MSpec /\ MFairness

-----------------------------------------------------------------------------
(* Properties.                                                             *)

\* The rules of an owner's series are all it ever had, and nobody else's.
Undisturbed(I, o) ==
  /\ Rules(I, o) # {}
  /\ Rules(I, o) = {k \in Series : <<k, o>> \in ever}
  /\ \A k \in Rules(I, o) : \A p \in Owners \ {o} : <<k, p>> \notin ever

\* A PortMap whose rules stay its own is charged with its own packets, each of
\* them once (save those a commit lost), although the collector joins a
\* snapshot of one moment with counters of a later one, and other PortMaps
\* come, go and share rules meanwhile (collectCounters, recordApply).
OwnTraffic ==
  [][\A s \in Scrapers : ReadCounters(s) =>
       \A o \in Owners :
         Undisturbed(loaded[s], o) /\ ~skipped /\ ~failed =>
           Sums(loaded[s])[o] + MapThenSumSet(LAMBDA k : missed[k], Rules(loaded[s], o))
             = MapThenSumSet(LAMBDA k : own[o][k], Series)]_mvars

\* Every scrape ends, behind applies that hold the mutex and although the
\* kernel may never answer a conntrack dump (DumpFlows).
ScrapeEnds == \A s \in Scrapers : pc[s] # "idle" ~> pc[s] = "idle"

=============================================================================
