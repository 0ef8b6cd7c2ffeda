--------------------------- MODULE Counters_proof ---------------------------
(***************************************************************************)
(* What Counters.tla promises, proved for any set of series and any bounds *)
(* on packets, applies and faults.                                         *)
(*                                                                         *)
(* Neither property is inductive.  While FoldAndApply holds the mutex, the *)
(* live table is in the totals already and still in the kernel: Balance    *)
(* takes it out of the account once, and Covered says that in this stage   *)
(* the totals alone cover what was scraped.  Then the commit may reset the *)
(* live counts, and a failed apply may leave them.                         *)
(*                                                                         *)
(* Metrics drives the counters with its passes and scrapes; the same       *)
(* invariant holds there, whatever the owner indexes.                      *)
(***************************************************************************)
EXTENDS Metrics, TLAPS

\* What a fold has added is still in the live table until the commit.
FoldedLive ==
  \A k \in Series : folded[k] <= live[k] /\ (stage # "folded" => folded[k] = 0)

\* The account of each series, the folded part counted once.
Balance ==
  ~skipped /\ ~failed =>
    \A k \in Series : held[k] - folded[k] + live[k] + missed[k] = sent[k]

\* What was scraped is covered, by the totals alone while a commit may come.
Covered ==
  ~skipped =>
    \A k \in Series : IF stage = "folded" THEN scraped[k] <= held[k]
                                          ELSE scraped[k] <= held[k] + live[k]

\* The inductive invariant.
Inv == TypeOK /\ FoldedLive /\ Balance /\ Covered

\* The counters of a new agent satisfy the invariant.
LEMMA InitInv == Init => Inv
<1> SUFFICES ASSUME Init PROVE Inv
  OBVIOUS
<1>1. TypeOK
  <2>1. Zero \in [Series -> Nat]
    BY DEF Zero
  <2>2. skipped \in BOOLEAN /\ failed \in BOOLEAN
    BY Zenon DEF Init
  <2>3. QED
    BY <2>1, <2>2, CountersAssumption DEF Init, TypeOK
<1>2. FoldedLive /\ Balance /\ Covered
  BY DEF Init, FoldedLive, Balance, Covered, Zero
<1>3. QED
  BY <1>1, <1>2 DEF Inv

\* Pointwise sums of counts are counts.
LEMMA PlusType ==
  ASSUME NEW f \in [Series -> Nat], NEW g \in [Series -> Nat]
  PROVE  /\ Plus(f, g) \in [Series -> Nat]
         /\ \A k \in Series : Plus(f, g)[k] = f[k] + g[k]
BY DEF Plus

\* Every step preserves the type of the counters and that a fold's counts are
\* still live: packets only add, and a commit ends the fold it resets.
LEMMA NextType ==
  ASSUME TypeOK, FoldedLive, [Next]_vars
  PROVE  TypeOK' /\ FoldedLive'
<1> USE CountersAssumption DEF TypeOK, FoldedLive, Fault
<1>1. ASSUME NEW k \in Series, Packet(k) PROVE TypeOK' /\ FoldedLive'
  BY <1>1 DEF Packet
<1>2. ASSUME NEW P \in SUBSET Series, Fold(P) PROVE TypeOK' /\ FoldedLive'
  BY <1>2, PlusType DEF Fold, Folded, kernel
<1>3. ASSUME NEW P \in SUBSET Series, SkipFold(P) PROVE TypeOK' /\ FoldedLive'
  BY <1>3 DEF SkipFold, Zero, kernel
<1>4. CASE Commit
  BY <1>4 DEF Commit, Restarted, Zero
<1>5. CASE FailBefore
  BY <1>5 DEF FailBefore, Zero, kernel
<1>6. CASE Return
  BY <1>6 DEF Return, kernel, ghosts
<1>7. CASE Scrape
  BY <1>7, PlusType DEF Scrape, kernel, ghosts
<1>8. CASE UNCHANGED vars
  BY <1>8 DEF vars, kernel, ghosts
<1>9. QED
  BY <1>1, <1>2, <1>3, <1>4, <1>5, <1>6, <1>7, <1>8 DEF Next

\* Every step keeps each series' account, as long as no fold is skipped and
\* no apply fails before its commit.
LEMMA NextBalance ==
  ASSUME TypeOK, FoldedLive, Balance, [Next]_vars
  PROVE  Balance'
<1> USE CountersAssumption DEF TypeOK, FoldedLive, Balance, Fault
<1>1. ASSUME NEW k \in Series, Packet(k) PROVE Balance'
  BY <1>1 DEF Packet
<1>2. ASSUME NEW P \in SUBSET Series, Fold(P) PROVE Balance'
  BY <1>2, PlusType DEF Fold, Folded, kernel
<1>3. ASSUME NEW P \in SUBSET Series, SkipFold(P) PROVE Balance'
  BY <1>3 DEF SkipFold
<1>4. CASE Commit
  BY <1>4 DEF Commit, Restarted, Zero
<1>5. CASE FailBefore
  BY <1>5 DEF FailBefore
<1>6. CASE Return
  BY <1>6 DEF Return, kernel, ghosts
<1>7. CASE Scrape
  BY <1>7 DEF Scrape, kernel, ghosts
<1>8. CASE UNCHANGED vars
  BY <1>8 DEF vars, kernel, ghosts
<1>9. QED
  BY <1>1, <1>2, <1>3, <1>4, <1>5, <1>6, <1>7, <1>8 DEF Next

\* Every step keeps what was scraped covered: the fold moves the live counts
\* into the totals before the commit resets them.
LEMMA NextCovered ==
  ASSUME TypeOK, Covered, [Next]_vars
  PROVE  Covered'
<1> USE CountersAssumption DEF TypeOK, Covered, Fault
<1>1. ASSUME NEW k \in Series, Packet(k) PROVE Covered'
  BY <1>1 DEF Packet
<1>2. ASSUME NEW P \in SUBSET Series, Fold(P) PROVE Covered'
  BY <1>2, PlusType DEF Fold, Folded, kernel
<1>3. ASSUME NEW P \in SUBSET Series, SkipFold(P) PROVE Covered'
  BY <1>3 DEF SkipFold
<1>4. CASE Commit
  BY <1>4 DEF Commit, Restarted, Zero
<1>5. CASE FailBefore
  BY <1>5 DEF FailBefore, kernel
<1>6. CASE Return
  BY <1>6 DEF Return, kernel, ghosts
<1>7. CASE Scrape
  BY <1>7, PlusType DEF Scrape, ReadAllowed, kernel, ghosts
<1>8. CASE UNCHANGED vars
  BY <1>8 DEF vars, kernel, ghosts
<1>9. QED
  BY <1>1, <1>2, <1>3, <1>4, <1>5, <1>6, <1>7, <1>8 DEF Next

\* The invariant holds in every reachable state.
LEMMA InvHolds == Spec => []Inv
<1>1. Inv /\ [Next]_vars => Inv'
  BY NextType, NextBalance, NextCovered DEF Inv
<1>2. QED
  BY <1>1, InitInv, PTL DEF Spec

\* With the mutex free, the account is Conserved's.
LEMMA InvConserved == Inv => Conserved
BY DEF Inv, TypeOK, FoldedLive, Balance, Conserved

\* The counters keep their types: no series is ever lost from a total, and
\* no count becomes negative (what a commit misses is live minus folded).
THEOREM CountersTypeCorrect == Spec => []TypeOK
BY InvHolds, PTL DEF Inv

\* FoldAndApply (internal/datapath/counters.go) loses no packet that came
\* before its fold and counts none twice, over any number of applies.
THEOREM CountersConserved == Spec => []Conserved
BY InvHolds, InvConserved, PTL

\* No scrape reports less than an earlier one, over any number of applies,
\* failed ones included, as long as every fold could read the live table.
THEOREM CountersNeverGoBack == Spec => NeverGoesBack
<1>1. Inv /\ [Next]_vars
        => [~skipped' => \A k \in Series : scraped'[k] >= scraped[k]]_vars
  <2> SUFFICES ASSUME Inv, Next, ~skipped', NEW k \in Series
               PROVE  scraped'[k] >= scraped[k]
    OBVIOUS
  <2>1. CASE Scrape
    BY <2>1, PlusType DEF Inv, TypeOK, Covered, Scrape, ReadAllowed, ghosts
  <2>2. CASE ~Scrape
    <3>1. scraped' = scraped
      BY <2>2 DEF Next, Packet, Fold, SkipFold, Commit, FailBefore, Return
    <3>2. QED
      BY <3>1 DEF Inv, TypeOK
  <2>3. QED
    BY <2>1, <2>2
<1>2. QED
  BY <1>1, InvHolds, PTL DEF Spec, NeverGoesBack

-----------------------------------------------------------------------------
(* The same under the reconcile loop and the collector.                    *)

\* A failed read is no step of Counters: it uses up a fault.
Spent == Fault /\ UNCHANGED <<kernel, held, stage, plan, scraped, ghosts, applies>>

\* A step of Metrics is a step of Counters, a failed read, or leaves the
\* counters alone.
LEMMA MStep == [MNext]_mvars => [Next \/ Spent]_vars
<1>. SUFFICES ASSUME [MNext]_mvars PROVE Next \/ Spent \/ UNCHANGED vars
  OBVIOUS
<1>1. ASSUME NEW k \in Series, Traffic(k) PROVE Next
  BY <1>1 DEF Traffic, Next
<1>2. ASSUME NEW I \in Indexes, PassApplies(I) PROVE Next
  <2>1. RulesIn(I) \in SUBSET Series
    BY DEF RulesIn
  <2>2. Fold(RulesIn(I)) \/ SkipFold(RulesIn(I))
    BY <1>2 DEF PassApplies
  <2>. QED  BY <2>1, <2>2 DEF Next
<1>3. ASSUME TableCommits \/ ApplyFails \/ ApplyReturns PROVE Next
  BY <1>3 DEF TableCommits, ApplyFails, ApplyReturns, Next
<1>4. ASSUME NEW s \in Scrapers, ReadCounters(s) PROVE Next
  BY <1>4 DEF ReadCounters, Next
<1>5. ASSUME NEW s \in Scrapers, ReadFails(s) PROVE Spent
  BY <1>5 DEF ReadFails, Spent
<1>6. ASSUME NEW I \in Indexes, PassUnchanged(I) PROVE UNCHANGED vars
  BY <1>6 DEF PassUnchanged
<1>7. ASSUME NEW s \in Scrapers, LoadSnapshot(s) \/ DumpAnswers(s) \/ DumpTimesOut(s)
      PROVE  UNCHANGED vars
  BY <1>7 DEF LoadSnapshot, DumpAnswers, DumpTimesOut
<1>8. ASSUME RecordApply \/ LateAnswer \/ UNCHANGED mvars PROVE UNCHANGED vars
  BY <1>8 DEF RecordApply, LateAnswer, mvars
<1>. QED
  BY <1>1, <1>2, <1>3, <1>4, <1>5, <1>6, <1>7, <1>8 DEF MNext, Collect

LEMMA SpentInv == Inv /\ Spent => Inv'
<1>. SUFFICES ASSUME Inv, Spent PROVE Inv'
  OBVIOUS
<1>1. /\ faults' \in 0 .. MaxFaults
      /\ UNCHANGED <<table, live, held, stage, plan, scraped, sent, missed, folded,
                     skipped, failed, applies>>
  BY CountersAssumption DEF Inv, TypeOK, Spent, Fault, kernel, ghosts
<1>. QED  BY <1>1 DEF Inv, TypeOK, FoldedLive, Balance, Covered

LEMMA MInvHolds == MSpec => []Inv
<1>1. MInit => Inv
  BY InitInv DEF MInit
<1>2. Inv /\ [Next]_vars => Inv'
  BY NextType, NextBalance, NextCovered DEF Inv
<1>3. Inv /\ [MNext]_mvars => Inv'
  BY <1>2, MStep, SpentInv
<1>. QED  BY <1>1, <1>3, PTL DEF MSpec

\* The totals stay conserved whatever passes compute, applies fail, owners
\* share or trade, and scrapes read (FoldAndApply under Reconcile and Collect).
THEOREM MetricsConserved == MSpec => []Conserved
BY MInvHolds, InvConserved, PTL

\* What Collect reports for a rule never goes back, between scrapes of any
\* number of collectors, as long as every fold could read the live table.
THEOREM MetricsNeverGoBack == MSpec => NeverGoesBack
<1>. DEFINE Grows == ~skipped' => \A k \in Series : scraped'[k] >= scraped[k]
<1>1. Inv /\ [MNext]_mvars => [Grows]_vars
  <2>. SUFFICES ASSUME Inv, Next \/ Spent, ~skipped', NEW k \in Series
                PROVE  scraped'[k] >= scraped[k]
    BY MStep
  <2>1. CASE Scrape
    BY <2>1, PlusType DEF Inv, TypeOK, Covered, Scrape, ReadAllowed, ghosts
  <2>2. CASE ~Scrape
    <3>1. scraped' = scraped
      BY <2>2 DEF Next, Packet, Fold, SkipFold, Commit, FailBefore, Return, Spent
    <3>. QED  BY <3>1 DEF Inv, TypeOK
  <2>. QED  BY <2>1, <2>2
<1>2. MSpec => [][Grows]_vars
  <2>. HIDE DEF Grows
  <2>. QED  BY <1>1, MInvHolds, PTL DEF MSpec
<1>. QED  BY <1>2 DEF NeverGoesBack

-----------------------------------------------------------------------------
(* Whose packets they are.                                                 *)

MType ==
  /\ index \in [Series -> SUBSET Owners] /\ serves \in [Series -> SUBSET Owners]
  /\ ever \subseteq Series \X Owners
  /\ own \in [Owners -> [Series -> Nat]]

\* The live rules are those of the index they serve, all of it was noted, and
\* the apply under way is for the index at hand.
InForce ==
  /\ table = RulesIn(serves)
  /\ \A k \in Series : \A o \in serves[k] : <<k, o>> \in ever
  /\ stage # "free" => pass = "applying"
  /\ stage = "folded" => plan = RulesIn(index)

\* An owner has no packets of a rule it never had, and all of one that nobody
\* else ever had.
OwnKept ==
  \A o \in Owners, k \in Series :
    /\ <<k, o>> \notin ever => own[o][k] = 0
    /\ (\A p \in Owners : <<k, p>> \in ever => p = o) => own[o][k] = sent[k]

\* The invariant of the owners.
Owned == MType /\ InForce /\ OwnKept

\* Putting an index in force keeps what is known about earlier ones.
LEMMA ServeKeeps ==
  ASSUME MType, OwnKept, NEW I \in [Series -> SUBSET Owners], Serve(I),
         sent' = sent, index' \in [Series -> SUBSET Owners]
  PROVE  /\ MType' /\ OwnKept' /\ serves' = I
         /\ \A k \in Series : \A o \in I[k] : <<k, o>> \in ever'
<1>1. /\ serves' = I /\ own' = own /\ ever \subseteq ever' /\ ever' \subseteq Series \X Owners
  BY DEF Serve, MType
<1>2. \A k \in Series : \A o \in I[k] : <<k, o>> \in ever'
  BY DEF Serve
<1>3. MType'
  BY <1>1 DEF MType
<1>4. OwnKept'
  BY <1>1 DEF OwnKept
<1>. QED  BY <1>1, <1>2, <1>3, <1>4

LEMMA OwnedInit == MInit => Owned
<1>. SUFFICES ASSUME MInit PROVE Owned
  OBVIOUS
<1>1. MType
  BY DEF MInit, MType, Nobody, Zero
<1>2. InForce
  BY DEF MInit, Init, InForce, RulesIn, Nobody
<1>3. OwnKept
  BY DEF MInit, Init, OwnKept, Zero
<1>. QED  BY <1>1, <1>2, <1>3 DEF Owned

\* A packet is noted for every owner of its rule.
LEMMA OwnedTraffic ==
  ASSUME Inv, Owned, NEW k \in Series, Traffic(k)
  PROVE  Owned'
<1>1. /\ k \in table /\ sent' = [sent EXCEPT ![k] = @ + 1]
      /\ own' = [o \in Owners |-> IF o \in serves[k] THEN [own[o] EXCEPT ![k] = @ + 1]
                                  ELSE own[o]]
      /\ UNCHANGED <<index, pass, serves, ever, table, stage, plan>>
  BY DEF Traffic, Packet, passes
<1>2. MType'
  BY <1>1 DEF Owned, MType
<1>3. InForce'
  BY <1>1 DEF Owned, InForce, RulesIn
<1>4. PICK p \in serves[k] : p \in Owners /\ <<k, p>> \in ever
  BY <1>1 DEF Owned, InForce, MType, RulesIn
<1>5. sent \in [Series -> Nat] /\ own \in [Owners -> [Series -> Nat]]
  BY DEF Inv, TypeOK, Owned, MType
<1>6. ASSUME NEW o \in Owners, NEW j \in Series
      PROVE  /\ <<j, o>> \notin ever' => own'[o][j] = 0
             /\ (\A q \in Owners : <<j, q>> \in ever' => q = o) => own'[o][j] = sent'[j]
  <2>1. /\ <<j, o>> \notin ever => own[o][j] = 0
        /\ (\A q \in Owners : <<j, q>> \in ever => q = o) => own[o][j] = sent[j]
    BY DEF Owned, OwnKept
  <2>2. CASE j # k
    BY <1>1, <1>5, <2>1, <2>2
  <2>3. CASE j = k /\ o \in serves[k]
    <3>1. <<k, o>> \in ever
      BY <2>3 DEF Owned, InForce
    <3>2. own'[o][k] = own[o][k] + 1 /\ sent'[k] = sent[k] + 1
      BY <1>1, <1>5, <2>3
    <3>. QED  BY <1>1, <2>1, <2>3, <3>1, <3>2
  <2>4. CASE j = k /\ o \notin serves[k]
    <3>1. own'[o] = own[o] /\ p # o
      BY <1>1, <1>4, <2>4
    <3>. QED  BY <1>1, <1>4, <2>1, <2>4, <3>1
  <2>. QED  BY <2>2, <2>3, <2>4
<1>. QED  BY <1>2, <1>3, <1>6 DEF Owned, OwnKept

LEMMA OwnedNext == Inv /\ Owned /\ [MNext]_mvars => Owned'
<1>. SUFFICES ASSUME Inv, Owned, [MNext]_mvars PROVE Owned'
  OBVIOUS
<1>1. ASSUME NEW k \in Series, Traffic(k) PROVE Owned'
  BY <1>1, OwnedTraffic
<1>2. ASSUME NEW I \in Indexes, PassApplies(I) PROVE Owned'
  <2>1. /\ pass' = "applying" /\ index' = I /\ plan' = RulesIn(I) /\ stage' = "folded"
        /\ UNCHANGED <<serves, ever, own, table, sent>>
    BY <1>2 DEF PassApplies, Fold, SkipFold, kernel, owned
  <2>2. I \in [Series -> SUBSET Owners]
    BY MetricsAssumption
  <2>. QED  BY <2>1, <2>2 DEF Owned, MType, InForce, OwnKept, RulesIn
<1>3. ASSUME NEW I \in Indexes, PassUnchanged(I) PROVE Owned'
  <2>1. /\ stage = "free" /\ RulesIn(I) = table /\ index' = I
        /\ UNCHANGED <<table, stage, plan, sent>> /\ Serve(I)
    BY <1>3 DEF PassUnchanged, Owned, InForce, vars, kernel, ghosts
  <2>2. I \in [Series -> SUBSET Owners]
    BY MetricsAssumption
  <2>3. /\ MType' /\ OwnKept' /\ serves' = I
        /\ \A k \in Series : \A o \in I[k] : <<k, o>> \in ever'
    BY <2>1, <2>2, ServeKeeps DEF Owned
  <2>4. InForce'
    BY <2>1, <2>3 DEF InForce, RulesIn
  <2>. QED  BY <2>3, <2>4 DEF Owned
<1>4. CASE TableCommits
  <2>1. /\ stage = "folded" /\ stage' = "committed" /\ table' = plan
        /\ UNCHANGED <<sent, index, pass>> /\ Serve(index)
    BY <1>4 DEF TableCommits, Commit, passes
  <2>2. /\ index \in [Series -> SUBSET Owners] /\ plan = RulesIn(index) /\ pass = "applying"
    BY <2>1 DEF Owned, MType, InForce
  <2>3. /\ MType' /\ OwnKept' /\ serves' = index
        /\ \A k \in Series : \A o \in index[k] : <<k, o>> \in ever'
    BY <2>1, <2>2, ServeKeeps DEF Owned
  <2>4. InForce'
    BY <2>1, <2>2, <2>3 DEF InForce, RulesIn
  <2>. QED  BY <2>3, <2>4 DEF Owned
<1>5. CASE ApplyFails \/ ApplyReturns
  <2>1. /\ stage' = "free" /\ index' \in {index, Nobody}
        /\ UNCHANGED <<serves, ever, own, table, sent>>
    BY <1>5 DEF ApplyFails, ApplyReturns, FailBefore, Return, kernel, ghosts, owned
  <2>2. Nobody \in [Series -> SUBSET Owners]
    BY DEF Nobody
  <2>. QED  BY <2>1, <2>2 DEF Owned, MType, InForce, OwnKept, RulesIn
<1>6. CASE RecordApply
  <2>1. /\ pass = "applied" /\ index' = Nobody
        /\ UNCHANGED <<serves, ever, own, table, stage, sent>>
    BY <1>6 DEF RecordApply, vars, kernel, ghosts, owned
  <2>2. stage = "free" /\ Nobody \in [Series -> SUBSET Owners]
    BY <2>1 DEF Nobody, Owned, InForce
  <2>. QED  BY <2>1, <2>2 DEF Owned, MType, InForce, OwnKept, RulesIn
<1>7. ASSUME UNCHANGED <<index, pass, serves, ever, own, table, stage, plan, sent>>
      PROVE  Owned'
  BY <1>7 DEF Owned, MType, InForce, OwnKept, RulesIn
<1>8. ASSUME NEW s \in Scrapers, LoadSnapshot(s) \/ Collect(s) PROVE Owned'
  BY <1>7, <1>8 DEF LoadSnapshot, Collect, ReadCounters, Scrape, ReadFails, DumpAnswers,
                    DumpTimesOut, vars, kernel, ghosts, passes, owned
<1>9. CASE LateAnswer \/ UNCHANGED mvars
  BY <1>7, <1>9 DEF LateAnswer, mvars, vars, kernel, ghosts, passes, owned
<1>. QED
  BY <1>1, <1>2, <1>3, <1>4, <1>5, <1>6, <1>8, <1>9 DEF MNext

\* What OwnTraffic sums, rule by rule.
OwnRules ==
  [][\A s \in Scrapers : ReadCounters(s) =>
       \A o \in Owners :
         Undisturbed(loaded[s], o) /\ ~skipped /\ ~failed =>
           \A k \in Series :
             own[o][k] = IF k \in Rules(loaded[s], o) THEN held[k] + live[k] + missed[k]
                         ELSE 0]_mvars

\* When Collect reads the counters for a snapshot of any age, each rule of a
\* PortMap whose rules stayed its own has exactly the packets that met it for
\* that PortMap (save those a commit lost), and the PortMap has no others.
THEOREM MetricsOwnRules == MSpec => OwnRules
<1>. DEFINE Right ==
       \A s \in Scrapers : ReadCounters(s) =>
         \A o \in Owners :
           Undisturbed(loaded[s], o) /\ ~skipped /\ ~failed =>
             \A k \in Series :
               own[o][k] = IF k \in Rules(loaded[s], o) THEN held[k] + live[k] + missed[k]
                           ELSE 0
<1>1. MSpec => []Owned
  BY OwnedInit, OwnedNext, MInvHolds, PTL DEF MSpec
<1>2. ASSUME Inv, Owned PROVE Right
  <2>. SUFFICES ASSUME NEW s \in Scrapers, ReadCounters(s), NEW o \in Owners,
                       Undisturbed(loaded[s], o), ~skipped, ~failed, NEW k \in Series
                PROVE  own[o][k] = IF k \in Rules(loaded[s], o)
                                     THEN held[k] + live[k] + missed[k] ELSE 0
    OBVIOUS
  <2>1. stage = "free"
    BY DEF ReadCounters, Scrape, ReadAllowed
  <2>2. held[k] + live[k] + missed[k] = sent[k]
    BY <1>2, <2>1, InvConserved DEF Conserved
  <2>3. k \in Rules(loaded[s], o) <=> <<k, o>> \in ever
    BY DEF Undisturbed
  <2>4. CASE k \in Rules(loaded[s], o)
    <3>1. \A p \in Owners : <<k, p>> \in ever => p = o
      BY <2>4 DEF Undisturbed
    <3>. QED  BY <1>2, <2>2, <2>4, <3>1 DEF Owned, OwnKept
  <2>5. CASE k \notin Rules(loaded[s], o)
    BY <1>2, <2>3, <2>5 DEF Owned, OwnKept
  <2>. QED  BY <2>4, <2>5
<1>3. MSpec => [][Right]_mvars
  <2>1. Inv /\ Owned /\ [MNext]_mvars => [Right]_mvars
    BY <1>2
  <2>. HIDE DEF Right
  <2>. QED  BY <1>1, <2>1, MInvHolds, PTL DEF MSpec
<1>. QED  BY <1>3 DEF OwnRules

=============================================================================
