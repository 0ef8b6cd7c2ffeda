------------------------------ MODULE Counters ------------------------------
(***************************************************************************)
(* The packet totals a node reports across applies: Totals and Counters in *)
(* internal/datapath/counters.go, under the nftables table that Apply      *)
(* replaces (internal/datapath/nft.go) and the scrapes of                  *)
(* internal/metrics/collector.go.                                          *)
(*                                                                         *)
(* A series is a rule's LiveKey.  Packets and bytes go the same way, so    *)
(* only packets are kept; rules with the same key count the same packets,  *)
(* and distinct takes one of them.  The mutex makes a fold, the apply      *)
(* after it and a read exclude each other; traffic excludes nothing.       *)
(***************************************************************************)
EXTENDS Integers, FiniteSets

CONSTANTS
  Series,      \* the LiveKeys that rules may carry
  MaxPackets,  \* bound on the packets of a series
  MaxApplies,  \* bound on applies
  MaxFaults    \* bound on failed reads and failed applies

ASSUME CountersAssumption ==
  /\ IsFiniteSet(Series)
  /\ MaxPackets \in Nat /\ MaxApplies \in Nat /\ MaxFaults \in Nat

VARIABLES
  table,    \* the series that have a rule in the live table
  live,     \* live[k]: what the live table has counted for k
  held,     \* Totals.held; a series never folded is 0
  stage,    \* the holder of the mutex: none, or how far FoldAndApply is
  plan,     \* the series of the plan being applied
  scraped,  \* the last value a scrape reported for each series
  sent,     \* ghost: packets each series has counted, ever
  missed,   \* ghost: packets that came between a fold and the commit after it
  folded,   \* ghost: the live counts the fold of this apply has added
  skipped,  \* ghost: a fold was left out because the read failed
  failed,   \* ghost: an apply failed before its nftables commit
  applies, faults

kernel == <<table, live>>
ghosts == <<sent, missed, folded, skipped, failed>>
vars == <<kernel, held, stage, plan, scraped, ghosts, applies, faults>>

Zero == [k \in Series |-> 0]
Plus(f, g) == [k \in Series |-> f[k] + g[k]]

TypeOK ==
  /\ table \subseteq Series /\ plan \subseteq Series
  /\ live \in [Series -> Nat] /\ held \in [Series -> Nat]
  /\ stage \in {"free", "folded", "committed"}
  /\ scraped \in [Series -> Nat]
  /\ sent \in [Series -> Nat] /\ missed \in [Series -> Nat]
  /\ folded \in [Series -> Nat]
  /\ skipped \in BOOLEAN /\ failed \in BOOLEAN
  /\ applies \in 0 .. MaxApplies /\ faults \in 0 .. MaxFaults

Init ==
  /\ table = {} /\ plan = {} /\ stage = "free"
  /\ live = Zero /\ held = Zero /\ scraped = Zero
  /\ sent = Zero /\ missed = Zero /\ folded = Zero
  /\ skipped = FALSE /\ failed = FALSE
  /\ applies = 0 /\ faults = 0

Fault == faults < MaxFaults /\ faults' = faults + 1

\* A packet meets the rule of series k.
Packet(k) ==
  /\ k \in table /\ sent[k] < MaxPackets
  /\ live' = [live EXCEPT ![k] = @ + 1]
  /\ sent' = [sent EXCEPT ![k] = @ + 1]
  /\ UNCHANGED <<table, held, stage, plan, scraped, missed, folded, skipped,
                 failed, applies, faults>>

\* Fold: add what the live table has counted.
Folded == Plus(held, live)

\* FoldAndApply, up to the apply.
Fold(P) ==
  /\ stage = "free" /\ applies < MaxApplies
  /\ applies' = applies + 1
  /\ stage' = "folded" /\ plan' = P
  /\ held' = Folded /\ folded' = live
  /\ UNCHANGED <<kernel, scraped, sent, missed, skipped, failed, faults>>

\* The same when ReadLive fails: no fold, and the apply runs all the same.
SkipFold(P) ==
  /\ stage = "free" /\ applies < MaxApplies /\ Fault
  /\ applies' = applies + 1
  /\ stage' = "folded" /\ plan' = P
  /\ folded' = Zero /\ skipped' = TRUE
  /\ UNCHANGED <<kernel, held, scraped, sent, missed, failed>>

\* Mutant of Restarted: the counters survive the new table.
KeepsCounting == live

\* Mutant of Restarted: only the series of the new table are reset.
RestartedNew == [k \in plan |-> 0]

\* A table that is deleted and added again counts from zero.
Restarted == Zero

\* The nftables commit: the table is deleted and added again.
Commit ==
  /\ stage = "folded"
  /\ stage' = "committed"
  /\ table' = plan /\ live' = Restarted
  /\ missed' = [k \in Series |-> missed[k] + live[k] - folded[k]]
  /\ folded' = Zero
  /\ UNCHANGED <<held, plan, scraped, sent, skipped, failed, applies, faults>>

\* Apply fails in its link stage or at the commit: the old table stands.
FailBefore ==
  /\ stage = "folded" /\ Fault
  /\ stage' = "free" /\ failed' = TRUE /\ folded' = Zero
  /\ UNCHANGED <<kernel, held, plan, scraped, sent, missed, skipped, applies>>

\* Apply returns, with or without an error of the rule or the route stage.
Return ==
  /\ stage = "committed"
  /\ stage' = "free"
  /\ UNCHANGED <<kernel, held, plan, scraped, ghosts, applies, faults>>

\* Mutant of ReadAllowed: a scrape does not wait for the mutex.
ReadAnyTime == TRUE

ReadAllowed == stage = "free"

\* Read and Snapshot: totals plus the live table.  (A failed read leaves the
\* series out of the scrape.)
Scrape ==
  /\ ReadAllowed
  /\ scraped' = Plus(held, live)
  /\ UNCHANGED <<kernel, held, stage, plan, ghosts, applies, faults>>

Next ==
  \/ \E k \in Series : Packet(k)
  \/ \E P \in SUBSET Series : Fold(P) \/ SkipFold(P)
  \/ Commit \/ FailBefore \/ Return \/ Scrape

Spec == Init /\ [][Next]_vars

-----------------------------------------------------------------------------
(* Properties.                                                             *)

\* Whenever the mutex is free, the totals and the live table together account
\* for every packet that was counted, save the ones that came between a fold
\* and its commit: an apply loses nothing else and invents nothing, as long
\* as no read failed and no apply failed before its commit.
Conserved ==
  stage = "free" /\ ~skipped /\ ~failed =>
    \A k \in Series : held[k] + live[k] + missed[k] = sent[k]

\* Two scrapes with any number of applies between them: the second never
\* reports less, unless a fold was skipped.  (Prometheus would take a smaller
\* value for a restart of the agent.)  The fold has to precede the commit and
\* a scrape must see neither half alone.
NeverGoesBack ==
  [][~skipped' => \A k \in Series : scraped'[k] >= scraped[k]]_vars

=============================================================================
