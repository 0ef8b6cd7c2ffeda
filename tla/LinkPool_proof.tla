--------------------------- MODULE LinkPool_proof ---------------------------
(***************************************************************************)
(* Proofs about LinkPool, for any number of nodes, keys and slots, and any *)
(* bound on changes and faults.  The inductive invariant is TypeOK with    *)
(* Coherent: what each agent holds, against what the API server has.       *)
(*                                                                         *)
(* LinkPool implements LinkLease: every step of the agents, the caches and *)
(* the API server is a step of the leases or leaves them alone.  It is the *)
(* same coherence that makes a step decided on old information legal.      *)
(*                                                                         *)
(* And under the timing of LinkRelease a lease ends late enough: the slot  *)
(* of a Link was quiet at least as long as its UnusedSince is old.         *)
(***************************************************************************)
EXTENDS LinkRelease, TLAPS

Inv == TypeOK /\ Coherent

\* What linkActions decides is about Links that are in the cache.
LEMMA DueWrites ==
  ASSUME NEW a \in Nodes, NEW c \in [Slots -> Link],
         NEW v \in [Keys -> SUBSET Nodes],
         NEW w \in LinkActions(a, c, v)
  PROVE  /\ w \in Write
         /\ w.op # "create" => c[w.slot].key = w.key
         /\ w.op = "release" => c[w.slot].age > MaxAge
         /\ w.op = "dedupe" => \E t \in Slots : t < w.slot /\ c[t].key = w.key
  BY DEF LinkActions, Write, CreateDue, DedupeDue, ClearDue, SetDue,
         ReleaseDue, ByKey

\* Getting older changes no key, and makes nothing younger.
LEMMA OlderType ==
  ASSUME NEW l \in Link
  PROVE  /\ Older(l) \in Link
         /\ Older(l).key = l.key
         /\ l.age > MaxAge => Older(l).age > MaxAge
  BY PoolAssumption DEF Older, Link, Ages, Unset

\* The pass that is left after a write, and a pass told of a new version.
LEMMA PassType ==
  ASSUME NEW p \in Pass, NEW w \in Write, NEW s \in Slots
  PROVE  /\ AfterWrite(p, w) \in Pass
         /\ Outdated(p, s) \in Pass
         /\ AfterWrite(p, w).writes = p.writes \ {w}
         /\ Outdated(p, s).writes = p.writes
         /\ \A x \in p.writes \ {w} :
              x.slot \in p.stale => x.slot \in AfterWrite(p, w).stale
         /\ \A x \in p.writes : x.slot \in p.stale \cup {s}
                                  => x.slot \in Outdated(p, s).stale
  BY DEF Pass, AfterWrite, Outdated, SlotsOf, Write

\* The API server takes write w of agent a and stores l.
LEMMA StoreType ==
  ASSUME TypeOK, NEW a \in Nodes, NEW w \in pass[a].writes,
         NEW l \in Link, Store(a, w, l)
  PROVE  /\ w \in Write
         /\ link' \in [Slots -> Link]
         /\ behind' \in [Nodes -> SUBSET Slots]
         /\ pass' \in [Nodes -> Pass]
<1>1. w \in Write /\ w.slot \in Slots
  BY DEF TypeOK, Pass, Write
<1>2. link' \in [Slots -> Link] /\ behind' \in [Nodes -> SUBSET Slots]
  BY <1>1 DEF TypeOK, Store, OutOfDate
<1>3. ASSUME NEW b \in Nodes
      PROVE  Outdated(IF b = a THEN AfterWrite(pass[a], w) ELSE pass[b],
                      w.slot) \in Pass
  BY <1>1, PassType DEF TypeOK
<1>4. QED BY <1>1, <1>2, <1>3 DEF Store

\* A dropped write keeps every type.
LEMMA DropType ==
  ASSUME TypeOK, NEW a \in Nodes, NEW w \in pass[a].writes, Drop(a, w)
  PROVE  /\ w \in Write
         /\ link' \in [Slots -> Link]
         /\ behind' \in [Nodes -> SUBSET Slots]
         /\ pass' \in [Nodes -> Pass]
<1>1. w \in Write /\ w.slot \in Slots
  BY DEF TypeOK, Pass, Write
<1>2. AfterWrite(pass[a], w) \in Pass
  BY <1>1, PassType DEF TypeOK
<1>3. QED BY <1>1, <1>2 DEF TypeOK, Drop

\* A step keeps the accepted claims: none leaves the server unrecorded.
KeepsAccepted == \A p \in Claims : Accepted(p) => Accepted(p)'

\* When the server stores an object, every copy of the slot is out of date.
LEMMA StoreCoherent ==
  ASSUME Inv, NEW a \in Nodes, NEW w \in pass[a].writes,
         NEW l \in Link, Store(a, w, l), KeepsAccepted,
         UNCHANGED <<cache, prog>>
  PROVE  Coherent'
<1>1. w \in Write /\ w.slot \in Slots
  BY DEF Inv, TypeOK, Pass, Write
<1>2. \A s \in Slots : s # w.slot => link'[s] = link[s]
  BY <1>1 DEF Inv, TypeOK, Store
<1>3. \A b \in Nodes : behind'[b] = behind[b] \cup {w.slot}
  BY DEF Store, OutOfDate
<1>4. CacheCoherent'
  <2> SUFFICES ASSUME NEW b \in Nodes, NEW s \in Slots
               PROVE  /\ cache[b][s].key \in Keys
                           => Accepted(<<cache[b][s].key, s>>)'
                      /\ s \notin behind'[b] => cache[b][s] = link'[s]
    BY DEF CacheCoherent, Accepted
  <2>1. cache[b][s].key \in Keys => Accepted(<<cache[b][s].key, s>>)
    BY DEF Inv, Coherent, CacheCoherent
  <2>2. cache[b][s].key \in Keys => <<cache[b][s].key, s>> \in Claims
    BY DEF Claims
  <2>3. s \notin behind'[b] => cache[b][s] = link'[s]
    BY <1>2, <1>3 DEF Inv, Coherent, CacheCoherent
  <2>4. QED BY <2>1, <2>2, <2>3 DEF KeepsAccepted
<1>5. ProgAccepted'
  BY DEF Inv, TypeOK, Coherent, ProgAccepted, KeepsAccepted
<1>6. WritesCoherent'
  <2> SUFFICES ASSUME NEW b \in Nodes, NEW x \in pass'[b].writes
               PROVE  /\ x.op # "create" /\ x.slot \notin pass'[b].stale =>
                           /\ link'[x.slot].key = x.key
                           /\ x.op = "release" => link'[x.slot].age > MaxAge
                      /\ x.op = "dedupe" =>
                           \E t \in Slots : t < x.slot /\ Accepted(<<x.key, t>>)'
    BY DEF WritesCoherent
  <2>1. /\ x \in pass[b].writes
        /\ x.slot \notin pass'[b].stale =>
             x.slot \notin pass[b].stale /\ x.slot # w.slot
    <3>1. CASE b = a
      <4>1. AfterWrite(pass[a], w) \in Pass
        BY <1>1, PassType DEF Inv, TypeOK
      <4>2. pass'[b] = Outdated(AfterWrite(pass[a], w), w.slot)
        BY <3>1 DEF Store
      <4>3. /\ AfterWrite(pass[a], w).writes = pass[a].writes \ {w}
            /\ \A y \in pass[a].writes \ {w} :
                 y.slot \in pass[a].stale => y.slot \in AfterWrite(pass[a], w).stale
        BY <1>1, PassType DEF Inv, TypeOK
      <4>4. /\ pass'[b].writes = AfterWrite(pass[a], w).writes
            /\ \A y \in AfterWrite(pass[a], w).writes :
                 y.slot \in AfterWrite(pass[a], w).stale \cup {w.slot}
                   => y.slot \in pass'[b].stale
        BY <1>1, <4>1, <4>2, PassType
      <4>5. QED BY <3>1, <4>3, <4>4
    <3>2. CASE b # a
      <4>1. pass'[b] = Outdated(pass[b], w.slot)
        BY <3>2 DEF Store
      <4>2. QED BY <1>1, <4>1, PassType DEF Inv, TypeOK
    <3>3. QED BY <3>1, <3>2
  <2>2. x \in Write
    BY <2>1 DEF Inv, TypeOK, Pass
  <2>3. \A t \in Slots : <<x.key, t>> \in Claims
    BY <2>2 DEF Write, Claims
  <2>4. /\ x.op # "create" /\ x.slot \notin pass[b].stale =>
             /\ link[x.slot].key = x.key
             /\ x.op = "release" => link[x.slot].age > MaxAge
        /\ x.op = "dedupe" =>
             \E t \in Slots : t < x.slot /\ Accepted(<<x.key, t>>)
    BY <2>1 DEF Inv, Coherent, WritesCoherent
  <2>5. x.slot \in Slots
    BY <2>2 DEF Write
  <2>6. QED BY <1>2, <2>1, <2>3, <2>4, <2>5 DEF KeepsAccepted
<1>7. QED BY <1>4, <1>5, <1>6 DEF Coherent

\* A dropped write takes nothing but itself away.
LEMMA DropCoherent ==
  ASSUME Inv, NEW a \in Nodes, NEW w \in pass[a].writes, Drop(a, w),
         UNCHANGED <<cache, prog, released>>
  PROVE  Coherent'
<1>1. w \in Write
  BY DEF Inv, TypeOK, Pass
<1>2. ASSUME NEW b \in Nodes, NEW x \in pass'[b].writes
      PROVE  /\ x \in pass[b].writes
             /\ x.slot \notin pass'[b].stale => x.slot \notin pass[b].stale
  <2>1. pass'[b] = IF b = a THEN AfterWrite(pass[a], w) ELSE pass[b]
    BY DEF Drop, Inv, TypeOK
  <2>2. pass[b] \in Pass /\ pass[a] \in Pass
    BY DEF Inv, TypeOK
  <2>3. CASE b = a
    <3>1. pass'[b].writes = pass[b].writes \ {w}
      BY <1>1, <2>1, <2>2, <2>3 DEF AfterWrite
    <3>2. QED BY <1>1, <2>1, <2>2, <2>3, <3>1 DEF AfterWrite, SlotsOf
  <2>4. CASE b # a
    BY <2>1, <2>4
  <2>5. QED BY <2>3, <2>4
<1>3. WritesCoherent'
  BY <1>2 DEF Inv, Coherent, WritesCoherent, Drop, Accepted
<1>4. CacheCoherent' /\ ProgAccepted'
  BY DEF Inv, Coherent, CacheCoherent, ProgAccepted, Drop, Accepted
<1>5. QED BY <1>3, <1>4 DEF Coherent

\* The empty pool satisfies the invariant.
LEMMA InitInv == Init => Inv
<1> SUFFICES ASSUME Init PROVE Inv
  OBVIOUS
<1>1. EmptyPool \in [Slots -> Link]
  BY DEF EmptyPool, Link, Ages
<1>2. Idle \in Pass /\ Idle.writes = {}
  BY DEF Idle, Pass
<1>3. TypeOK
  BY <1>1, <1>2, PoolAssumption DEF Init, TypeOK
<1>4. CacheCoherent
  <2> SUFFICES ASSUME NEW a \in Nodes, NEW s \in Slots
               PROVE  cache[a][s] = link[s] /\ link[s].key \notin Keys
    BY DEF CacheCoherent
  <2>1. QED BY PoolAssumption DEF Init, EmptyPool
<1>5. ProgAccepted /\ WritesCoherent
  BY <1>2 DEF Init, ProgAccepted, WritesCoherent
<1>6. QED BY <1>3, <1>4, <1>5 DEF Inv, Coherent

\* One write of a pass, taken or refused by the server, keeps the invariant.
LEMMA WriteLinkInv ==
  ASSUME Inv, NEW a \in Nodes, WriteLink(a)
  PROVE  Inv'
<1>1. PICK w \in NextWrite(pass[a].writes) :
        CreateLink(a, w) \/ UpdateLink(a, w) \/ DeleteLink(a, w)
  BY DEF WriteLink
<1>2. w \in pass[a].writes
  BY DEF NextWrite
<1>3. w \in Write /\ w.slot \in Slots /\ w.key \in Keys
  BY <1>2 DEF Inv, TypeOK, Pass, Write
<1>4. UNCHANGED <<holders, cache, view, prog, changes, faults>>
  BY DEF WriteLink
<1>5. link[w.slot] \in Link
  BY <1>3 DEF Inv, TypeOK
<1>6. ASSUME Drop(a, w), UNCHANGED released
      PROVE  Inv'
  <2>1. TypeOK'
    BY <1>2, <1>4, <1>6, DropType DEF Inv, TypeOK
  <2>2. Coherent'
    BY <1>2, <1>4, <1>6, DropCoherent
  <2>3. QED BY <2>1, <2>2 DEF Inv
<1>7. ASSUME NEW l \in Link, Store(a, w, l), released' \subseteq Claims,
             KeepsAccepted
      PROVE  Inv'
  <2>1. TypeOK'
    BY <1>2, <1>4, <1>7, StoreType DEF Inv, TypeOK
  <2>2. Coherent'
    BY <1>2, <1>4, <1>7, StoreCoherent
  <2>3. QED BY <2>1, <2>2 DEF Inv
<1>8. ASSUME NEW l \in Link, Store(a, w, l)
      PROVE  /\ link'[w.slot] = l
             /\ \A s \in Slots : s # w.slot => link'[s] = link[s]
  BY <1>3, <1>8 DEF Store, Inv, TypeOK
<1>9. CASE CreateLink(a, w)
  <2>1. CASE link[w.slot].key = Free
    <3> DEFINE l == [key |-> w.key, age |-> Unset]
    <3>1. l \in Link
      BY <1>3 DEF Link, Ages
    <3>2. Store(a, w, l) /\ UNCHANGED released
      BY <1>9, <2>1 DEF CreateLink
    <3>3. KeepsAccepted
      BY <1>8, <2>1, <3>1, <3>2, PoolAssumption
         DEF KeepsAccepted, Accepted, Claims
    <3>4. QED BY <1>7, <3>1, <3>2, <3>3 DEF Inv, TypeOK
  <2>2. CASE link[w.slot].key # Free
    BY <1>6, <1>9, <2>2 DEF CreateLink
  <2>3. QED BY <2>1, <2>2
<1>10. CASE UpdateLink(a, w)
  <2>1. CASE SameVersion(a, w)
    <3> DEFINE l == [link[w.slot] EXCEPT
                       !.age = IF w.op = "set" THEN 0 ELSE Unset]
    <3>1. l \in Link /\ l.key = link[w.slot].key
      BY <1>5, PoolAssumption DEF Link, Ages
    <3>2. Store(a, w, l) /\ UNCHANGED released
      BY <1>10, <2>1 DEF UpdateLink
    <3>3. KeepsAccepted
      BY <1>8, <3>1, <3>2 DEF KeepsAccepted, Accepted, Claims
    <3>4. QED BY <1>7, <3>1, <3>2, <3>3 DEF Inv, TypeOK
  <2>2. CASE ~SameVersion(a, w)
    BY <1>6, <1>10, <2>2 DEF UpdateLink
  <2>3. QED BY <2>1, <2>2
<1>11. CASE DeleteLink(a, w)
  <2>1. CASE SameVersion(a, w)
    <3>1. NoLink \in Link
      BY DEF NoLink, Link, Ages
    <3>2. /\ Store(a, w, NoLink)
          /\ released' = released \cup {<<link[w.slot].key, w.slot>>}
      BY <1>11, <2>1 DEF DeleteLink
    <3>3. link[w.slot].key = w.key
      BY <1>2, <1>11, <2>1
         DEF DeleteLink, SameVersion, Inv, Coherent, WritesCoherent
    <3>4. released' \subseteq Claims
      BY <1>3, <3>2, <3>3 DEF Inv, TypeOK, Claims
    <3>5. KeepsAccepted
      BY <1>8, <3>1, <3>2 DEF KeepsAccepted, Accepted, Claims
    <3>6. QED BY <1>7, <3>1, <3>2, <3>4, <3>5
  <2>2. CASE ~SameVersion(a, w)
    BY <1>6, <1>11, <2>2 DEF DeleteLink
  <2>3. QED BY <2>1, <2>2
<1>12. QED BY <1>1, <1>9, <1>10, <1>11

\* The two ways a pass begins: its writes fit the cache it was computed from.
LEMMA ReconcileInv ==
  ASSUME Inv, NEW a \in Nodes, Reconcile(a)
  PROVE  Inv'
<1> DEFINE D == Desired(a, cache[a], view[a])
           W == LinkActions(a, cache[a], view[a])
<1>1. /\ cache[a] \in [Slots -> Link] /\ view[a] \in [Keys -> SUBSET Nodes]
      /\ behind[a] \subseteq Slots
  BY DEF Inv, TypeOK
<1>2. D \subseteq Claims /\ W \subseteq Write
  BY DEF Desired, LinkActions
<1>3. /\ prog' = [prog EXCEPT ![a] = D]
      /\ pass' = [pass EXCEPT ![a] = [writes |-> W,
                                      stale |-> behind[a] \cap SlotsOf(W)]]
      /\ UNCHANGED <<link, holders, cache, behind, view, released, changes, faults>>
  BY DEF Reconcile
<1>4. [writes |-> W, stale |-> behind[a] \cap SlotsOf(W)] \in Pass
  BY <1>1, <1>2 DEF Pass
<1> HIDE DEF W, D
<1>5. TypeOK'
  BY <1>2, <1>3, <1>4 DEF Inv, TypeOK
<1>6. CacheCoherent'
  BY <1>3 DEF Inv, Coherent, CacheCoherent, Accepted
<1>7. \A s \in Slots : cache[a][s].key \in Keys => Accepted(<<cache[a][s].key, s>>)
  BY DEF Inv, Coherent, CacheCoherent
<1>8. \A p \in D : Accepted(p)
  <2> SUFFICES ASSUME NEW p \in D PROVE Accepted(p)
    OBVIOUS
  <2>1. p \in Claims /\ cache[a][p[2]].key = p[1]
    BY DEF D, Desired, ByKey
  <2>2. p = <<p[1], p[2]>> /\ p[1] \in Keys /\ p[2] \in Slots
    BY <2>1 DEF Claims
  <2>3. QED BY <1>7, <2>1, <2>2
<1>9. ProgAccepted'
  BY <1>3, <1>8 DEF Inv, TypeOK, Coherent, ProgAccepted, Accepted
<1>10. ASSUME NEW w \in W
       PROVE  /\ w.op # "create" /\ w.slot \notin behind[a] \cap SlotsOf(W) =>
                   /\ link[w.slot].key = w.key
                   /\ w.op = "release" => link[w.slot].age > MaxAge
              /\ w.op = "dedupe" =>
                   \E t \in Slots : t < w.slot /\ Accepted(<<w.key, t>>)
  <2>1. /\ w \in Write
        /\ w.op # "create" => cache[a][w.slot].key = w.key
        /\ w.op = "release" => cache[a][w.slot].age > MaxAge
        /\ w.op = "dedupe" =>
             \E t \in Slots : t < w.slot /\ cache[a][t].key = w.key
    BY <1>1, DueWrites DEF W
  <2>2. w.slot \in SlotsOf(W) /\ w.slot \in Slots /\ w.key \in Keys
    BY <2>1 DEF SlotsOf, Write
  <2>3. w.slot \notin behind[a] => cache[a][w.slot] = link[w.slot]
    BY <2>2 DEF Inv, Coherent, CacheCoherent
  <2>4. QED BY <1>7, <2>1, <2>2, <2>3
<1>11. WritesCoherent'
  <2> SUFFICES ASSUME NEW b \in Nodes, NEW w \in pass'[b].writes
               PROVE  /\ w.op # "create" /\ w.slot \notin pass'[b].stale =>
                           /\ link[w.slot].key = w.key
                           /\ w.op = "release" => link[w.slot].age > MaxAge
                      /\ w.op = "dedupe" =>
                           \E t \in Slots : t < w.slot /\ Accepted(<<w.key, t>>)
    BY <1>3 DEF WritesCoherent, Accepted
  <2>1. CASE b = a
    <3>1. pass'[b].writes = W /\ pass'[b].stale = behind[a] \cap SlotsOf(W)
      BY <1>3, <2>1 DEF Inv, TypeOK
    <3>2. QED BY <1>10, <3>1
  <2>2. CASE b # a
    <3>1. pass'[b] = pass[b]
      BY <1>3, <2>2 DEF Inv, TypeOK
    <3>2. QED BY <3>1 DEF Inv, Coherent, WritesCoherent
  <2>3. QED BY <2>1, <2>2
<1>12. QED BY <1>5, <1>6, <1>9, <1>11 DEF Inv, Coherent

\* A failed apply leaves claims on the host that were accepted.
LEMMA ApplyFailsInv ==
  ASSUME Inv, NEW a \in Nodes, ApplyFails(a)
  PROVE  Inv'
<1> DEFINE D == Desired(a, cache[a], view[a])
<1>1. PICK P \in SUBSET (prog[a] \cup D) : prog' = [prog EXCEPT ![a] = P]
  BY DEF ApplyFails
<1>2. /\ UNCHANGED <<link, holders, cache, behind, view, pass, released, changes>>
      /\ faults' \in 0 .. MaxFaults
  BY PoolAssumption DEF ApplyFails, Fault, Inv, TypeOK
<1>3. \A p \in D : p \in Claims /\ Accepted(p)
  <2> SUFFICES ASSUME NEW p \in D PROVE p \in Claims /\ Accepted(p)
    OBVIOUS
  <2>1. p \in Claims /\ cache[a][p[2]].key = p[1]
    BY DEF Desired, ByKey
  <2>2. p = <<p[1], p[2]>> /\ p[1] \in Keys /\ p[2] \in Slots
    BY <2>1 DEF Claims
  <2>3. QED BY <2>1, <2>2 DEF Inv, Coherent, CacheCoherent
<1> HIDE DEF D
<1>4. P \subseteq Claims /\ \A p \in P : Accepted(p)
  BY <1>1, <1>3 DEF Inv, TypeOK, Coherent, ProgAccepted
<1>5. TypeOK'
  BY <1>1, <1>2, <1>4 DEF Inv, TypeOK
<1>6. ProgAccepted'
  BY <1>1, <1>2, <1>4 DEF Inv, TypeOK, Coherent, ProgAccepted, Accepted
<1>7. CacheCoherent' /\ WritesCoherent'
  BY <1>2 DEF Inv, Coherent, CacheCoherent, WritesCoherent, Accepted
<1>8. QED BY <1>5, <1>6, <1>7 DEF Inv, Coherent

\* Time passes: every copy of an age moves together.
LEMMA TickInv ==
  ASSUME Inv, Tick
  PROVE  Inv'
<1>1. /\ \A s \in Slots : link'[s] = Older(link[s])
      /\ \A a \in Nodes, s \in Slots : cache'[a][s] = Older(cache[a][s])
      /\ UNCHANGED <<holders, behind, view, pass, prog, released, changes, faults>>
  BY DEF Tick
<1>2. /\ \A s \in Slots : link[s] \in Link
      /\ \A a \in Nodes, s \in Slots : cache[a][s] \in Link
  BY DEF Inv, TypeOK
<1>3. TypeOK'
  BY <1>1, <1>2, OlderType DEF Inv, TypeOK, Tick
<1>4. \A s \in Slots : /\ link'[s].key = link[s].key
                       /\ link[s].age > MaxAge => link'[s].age > MaxAge
  BY <1>1, <1>2, OlderType
<1>5. \A p \in Claims : Accepted(p) => Accepted(p)'
  BY <1>1, <1>4 DEF Accepted, Claims
<1>6. CacheCoherent'
  <2> SUFFICES ASSUME NEW a \in Nodes, NEW s \in Slots
               PROVE  /\ cache'[a][s].key \in Keys
                           => \/ link'[s].key = cache'[a][s].key
                              \/ <<cache'[a][s].key, s>> \in released'
                      /\ s \notin behind'[a] => cache'[a][s] = link'[s]
    BY DEF CacheCoherent, Accepted
  <2>1. cache'[a][s].key = cache[a][s].key
    BY <1>1, <1>2, OlderType
  <2>2. cache[a][s].key \in Keys => Accepted(<<cache[a][s].key, s>>)
    BY DEF Inv, Coherent, CacheCoherent
  <2>4. s \notin behind'[a] => cache'[a][s] = link'[s]
    BY <1>1 DEF Inv, Coherent, CacheCoherent
  <2>5. QED BY <1>1, <1>4, <2>1, <2>2, <2>4 DEF Accepted
<1>7. ProgAccepted'
  BY <1>1, <1>5 DEF Inv, TypeOK, Coherent, ProgAccepted
<1>8. WritesCoherent'
  <2> SUFFICES ASSUME NEW a \in Nodes, NEW w \in pass[a].writes
               PROVE  /\ w.op # "create" /\ w.slot \notin pass[a].stale =>
                           /\ link'[w.slot].key = w.key
                           /\ w.op = "release" => link'[w.slot].age > MaxAge
                      /\ w.op = "dedupe" =>
                           \E t \in Slots : t < w.slot /\ Accepted(<<w.key, t>>)'
    BY <1>1 DEF WritesCoherent
  <2>1. w.slot \in Slots /\ \A t \in Slots : <<w.key, t>> \in Claims
    BY DEF Inv, TypeOK, Pass, Write, Claims
  <2>2. /\ w.op # "create" /\ w.slot \notin pass[a].stale =>
             /\ link[w.slot].key = w.key
             /\ w.op = "release" => link[w.slot].age > MaxAge
        /\ w.op = "dedupe" =>
             \E t \in Slots : t < w.slot /\ Accepted(<<w.key, t>>)
    BY DEF Inv, Coherent, WritesCoherent
  <2>3. QED BY <1>4, <1>5, <2>1, <2>2
<1>9. QED BY <1>3, <1>6, <1>7, <1>8 DEF Inv, Coherent

\* Every step keeps the invariant.
LEMMA NextInv == Inv /\ [Next]_vars => Inv'
<1> SUFFICES ASSUME Inv, [Next]_vars PROVE Inv'
  OBVIOUS
<1>1. ASSUME NEW k \in Keys, NEW H \in SUBSET Peers[k], NeedChanges(k, H)
      PROVE  Inv'
  <2>1. H \subseteq Nodes
    BY PoolAssumption
  <2>2. TypeOK'
    BY <1>1, <2>1, PoolAssumption DEF NeedChanges, Inv, TypeOK
  <2>3. Coherent'
    BY <1>1 DEF NeedChanges, Inv, Coherent, CacheCoherent, ProgAccepted,
                WritesCoherent, Accepted
  <2>4. QED BY <2>2, <2>3 DEF Inv
<1>2. ASSUME NEW a \in Nodes, NEW k \in Keys, SeeNeed(a, k)
      PROVE  Inv'
  <2>1. TypeOK'
    BY <1>2 DEF SeeNeed, Inv, TypeOK
  <2>2. Coherent'
    BY <1>2 DEF SeeNeed, Inv, Coherent, CacheCoherent, ProgAccepted,
                WritesCoherent, Accepted
  <2>3. QED BY <2>1, <2>2 DEF Inv
<1>3. ASSUME NEW a \in Nodes, SeeLinks(a)
      PROVE  Inv'
  <2>1. TypeOK'
    BY <1>3 DEF SeeLinks, Inv, TypeOK
  <2>2. CacheCoherent'
    BY <1>3 DEF SeeLinks, Inv, TypeOK, Coherent, CacheCoherent, Accepted
  <2>3. ProgAccepted' /\ WritesCoherent'
    BY <1>3 DEF SeeLinks, Inv, Coherent, ProgAccepted, WritesCoherent, Accepted
  <2>4. QED BY <2>1, <2>2, <2>3 DEF Inv, Coherent
<1>4. ASSUME NEW a \in Nodes, WriteFails(a)
      PROVE  Inv'
  <2>1. PICK w \in NextWrite(pass[a].writes) : Drop(a, w)
    BY <1>4 DEF WriteFails
  <2>2. w \in pass[a].writes
    BY DEF NextWrite
  <2>3. /\ UNCHANGED <<holders, cache, view, prog, released, changes>>
        /\ faults' \in 0 .. MaxFaults
    BY <1>4, PoolAssumption DEF WriteFails, Fault, Inv, TypeOK
  <2>4. TypeOK'
    BY <2>1, <2>2, <2>3, DropType DEF Inv, TypeOK
  <2>5. Coherent'
    BY <2>1, <2>2, <2>3, DropCoherent
  <2>6. QED BY <2>4, <2>5 DEF Inv
<1>5. ASSUME NEW a \in Nodes, Restart(a)
      PROVE  Inv'
  <2>1. Idle \in Pass /\ Idle.writes = {}
    BY DEF Idle, Pass
  <2>2. TypeOK'
    BY <1>5, <2>1, PoolAssumption DEF Restart, Fault, Inv, TypeOK
  <2>3. CacheCoherent'
    BY <1>5 DEF Restart, Inv, TypeOK, Coherent, CacheCoherent, Accepted
  <2>4. ProgAccepted'
    BY <1>5 DEF Restart, Inv, Coherent, ProgAccepted, Accepted
  <2>5. WritesCoherent'
    <3>1. \A b \in Nodes : pass'[b] = IF b = a THEN Idle ELSE pass[b]
      BY <1>5 DEF Restart, Inv, TypeOK
    <3>2. \A b \in Nodes : pass'[b].writes # {} => pass'[b] = pass[b]
      BY <2>1, <3>1
    <3>3. UNCHANGED <<link, released>>
      BY <1>5 DEF Restart
    <3>4. QED BY <3>2, <3>3 DEF Inv, Coherent, WritesCoherent, Accepted
  <2>6. QED BY <2>2, <2>3, <2>4, <2>5 DEF Inv, Coherent
<1>6. CASE UNCHANGED vars
  BY <1>6 DEF vars, Inv, TypeOK, Coherent, CacheCoherent, ProgAccepted,
              WritesCoherent, Accepted
<1>7. QED
  BY <1>1, <1>2, <1>3, <1>4, <1>5, <1>6, TickInv, ReconcileInv,
     ApplyFailsInv, WriteLinkInv DEF Next, Others, AgentStep, Faults

\* The state of the pool, the caches, the passes and the hosts keeps its
\* types, in every behaviour of any cluster.
THEOREM PoolTypeCorrect == Spec => []TypeOK
<1>1. Inv => TypeOK
  BY DEF Inv
<1>2. QED BY <1>1, InitInv, NextInv, PTL DEF Spec

\* What the agents hold stays coherent with the API server: the optimistic
\* concurrency of writeLinks works for any number of agents.
THEOREM PoolCoherent == Spec => []Coherent
<1>1. Inv => Coherent
  BY DEF Inv
<1>2. QED BY <1>1, InitInv, NextInv, PTL DEF Spec

\* No two hosts carry one slot for two keys, unless a claim was deleted.
THEOREM PoolNoSharedSlot == Spec => []NoSharedSlot
<1>1. Inv => NoSharedSlot
  <2> SUFFICES ASSUME Inv, NEW a \in Nodes, NEW b \in Nodes,
                      NEW p \in prog[a], NEW q \in prog[b],
                      p[2] = q[2], p[1] # q[1]
               PROVE  p \in released \/ q \in released
    BY DEF NoSharedSlot
  <2>1. Accepted(p) /\ Accepted(q)
    BY DEF Inv, Coherent, ProgAccepted
  <2>2. QED BY <2>1 DEF Accepted
<1>2. QED BY <1>1, InitInv, NextInv, PTL DEF Spec

\* A Link leaves the pool only when it has been unused for too long or
\* duplicates a lower claim of its key, and no claim changes hands.
THEOREM PoolLinksLeave == Spec => LinksLeaveUnusedOrDuplicate
<1> DEFINE Leaves ==
      \A s \in Slots :
        link[s].key \in Keys /\ link'[s].key # link[s].key =>
          /\ link'[s].key = Free
          /\ \/ link[s].age > MaxAge
             \/ \E t \in Slots : /\ t < s
                                 /\ \/ link[t].key = link[s].key
                                    \/ <<link[s].key, t>> \in released
<1>1. Inv /\ [Next]_vars => [Leaves]_vars
  <2> SUFFICES ASSUME Inv, Next, NEW s \in Slots,
                      link[s].key \in Keys, link'[s].key # link[s].key
               PROVE  /\ link'[s].key = Free
                      /\ \/ link[s].age > MaxAge
                         \/ \E t \in Slots : /\ t < s
                                             /\ \/ link[t].key = link[s].key
                                                \/ <<link[s].key, t>> \in released
    OBVIOUS
  <2>1. CASE Tick
    <3>1. link'[s] = Older(link[s]) /\ link[s] \in Link
      BY <2>1 DEF Tick, Inv, TypeOK
    <3>2. QED BY <3>1, OlderType
  <2>2. ASSUME NEW a \in Nodes, WriteLink(a)
        PROVE  /\ link'[s].key = Free
               /\ \/ link[s].age > MaxAge
                  \/ \E t \in Slots : /\ t < s
                                      /\ \/ link[t].key = link[s].key
                                         \/ <<link[s].key, t>> \in released
    <3>1. PICK w \in NextWrite(pass[a].writes) :
            CreateLink(a, w) \/ UpdateLink(a, w) \/ DeleteLink(a, w)
      BY <2>2 DEF WriteLink
    <3>2. w \in pass[a].writes /\ w \in Write /\ w.slot \in Slots
      BY DEF NextWrite, Inv, TypeOK, Pass, Write
    <3>3. link[s] \in Link /\ link[w.slot] \in Link
      BY <3>2 DEF Inv, TypeOK
    <3>4. CASE CreateLink(a, w)
      <4>1. link[w.slot].key = Free
        BY <3>4 DEF CreateLink, Drop
      <4>2. s # w.slot
        BY <4>1, PoolAssumption
      <4>3. QED BY <3>2, <3>4, <4>1, <4>2
              DEF CreateLink, Store, Inv, TypeOK
    <3>5. CASE UpdateLink(a, w)
      <4>1. link' = link \/ link' = [link EXCEPT ![w.slot] =
              [link[w.slot] EXCEPT !.age = IF w.op = "set" THEN 0 ELSE Unset]]
        BY <3>5 DEF UpdateLink, Store, Drop
      <4>2. [link[w.slot] EXCEPT !.age = IF w.op = "set" THEN 0 ELSE Unset].key
              = link[w.slot].key
        BY <3>3 DEF Link
      <4>3. link'[s].key = link[s].key
        BY <3>2, <4>1, <4>2 DEF Inv, TypeOK
      <4>4. QED BY <4>3
    <3>6. CASE DeleteLink(a, w)
      <4>1. SameVersion(a, w) /\ link' = [link EXCEPT ![w.slot] = NoLink]
        BY <3>6 DEF DeleteLink, Store, Drop
      <4>2. s = w.slot /\ link'[s] = NoLink
        BY <3>2, <4>1 DEF Inv, TypeOK
      <4>3. /\ w.op \in {"dedupe", "release"}
            /\ link[w.slot].key = w.key
            /\ w.op = "release" => link[w.slot].age > MaxAge
            /\ w.op = "dedupe" =>
                 \E t \in Slots : t < w.slot /\ Accepted(<<w.key, t>>)
        BY <3>2, <3>6, <4>1
           DEF DeleteLink, SameVersion, Inv, Coherent, WritesCoherent
      <4>4. QED BY <4>2, <4>3 DEF NoLink, Accepted
    <3>7. QED BY <3>1, <3>4, <3>5, <3>6
  <2>3. CASE UNCHANGED link
    BY <2>3
  <2>4. QED
    BY <2>1, <2>2, <2>3
       DEF Next, Others, AgentStep, Faults, NeedChanges, SeeNeed, SeeLinks,
           Reconcile, ApplyFails, WriteFails, Restart, Drop
<1>2. Spec => []Inv
  BY InitInv, NextInv, PTL DEF Spec
<1>3. Spec => [][Leaves]_vars
  BY <1>1, <1>2, PTL DEF Spec
<1>4. QED BY <1>3 DEF LinksLeaveUnusedOrDuplicate

-----------------------------------------------------------------------------
(* The leases.                                                             *)

\* The refinement mapping.
LeaseOf == [s \in Slots |-> link[s].key]
IdleOf  == {s \in Slots : link[s].key \in Keys /\ link[s].age > MaxAge}

\* A step that touches neither the pool nor a host leaves the leases alone.
LEMMA LeaseStutters ==
  ASSUME UNCHANGED <<link, prog, released>>
  PROVE  UNCHANGED Lease!vars
  BY DEF Lease!vars

\* A host is programmed with claims that were granted.
LEMMA UseStep ==
  ASSUME Inv, NEW a \in Nodes, NEW P \in SUBSET Claims,
         \A p \in P : Accepted(p),
         prog' = [prog EXCEPT ![a] = P],
         UNCHANGED <<link, released>>
  PROVE  Lease!Next
<1>1. \A p \in P : Lease!Granted(p[1], p[2])
  <2> SUFFICES ASSUME NEW p \in P
               PROVE  Lease!Granted(p[1], p[2])
    OBVIOUS
  <2>1. p = <<p[1], p[2]>> /\ p[2] \in Slots
    BY DEF Claims
  <2>2. QED BY <2>1 DEF Lease!Granted, Accepted
<1>2. Lease!Use(a, P)
  BY <1>1 DEF Lease!Use
<1>3. QED BY <1>2 DEF Lease!Next, Claims

\* Ages move and nothing else: leases become idle or are needed again.
LEMMA IdlesStep ==
  ASSUME Inv, \A s \in Slots : link'[s].key = link[s].key,
         UNCHANGED <<prog, released>>
  PROVE  Lease!Next
<1>1. LeaseOf' = LeaseOf
  BY DEF LeaseOf
<1>2. /\ IdleOf' \in SUBSET Slots
      /\ \A s \in IdleOf' : s \in Slots /\ link[s].key \in Keys
  BY DEF IdleOf
<1>3. PICK I \in SUBSET Slots : I = IdleOf'
  BY <1>2
<1>4. Lease!Idles(I)
  BY <1>1, <1>2, <1>3 DEF Lease!Idles, LeaseOf, IdleOf
<1>5. QED BY <1>4 DEF Lease!Next

\* What the API server does with one write of a pass.
LEMMA WriteStep ==
  ASSUME Inv, NEW a \in Nodes, WriteLink(a)
  PROVE  [Lease!Next]_(Lease!vars)
<1>1. PICK w \in NextWrite(pass[a].writes) :
        CreateLink(a, w) \/ UpdateLink(a, w) \/ DeleteLink(a, w)
  BY DEF WriteLink
<1>2. /\ w \in pass[a].writes /\ w \in Write
      /\ w.slot \in Slots /\ w.key \in Keys
      /\ link \in [Slots -> Link] /\ link[w.slot] \in Link
      /\ UNCHANGED prog
  BY DEF WriteLink, NextWrite, Inv, TypeOK, Pass, Write
<1>3. CASE Drop(a, w) /\ UNCHANGED released
  BY <1>2, <1>3, LeaseStutters DEF Drop
<1>4. CASE CreateLink(a, w) /\ link[w.slot].key = Free
  <2>1. /\ link' = [link EXCEPT ![w.slot] = [key |-> w.key, age |-> Unset]]
        /\ UNCHANGED released
    BY <1>4 DEF CreateLink, Store
  <2>2. \A s \in Slots :
          link'[s] = IF s = w.slot THEN [key |-> w.key, age |-> Unset] ELSE link[s]
    BY <1>2, <2>1
  <2>3. LeaseOf' = [LeaseOf EXCEPT ![w.slot] = w.key]
    <3>1. \A s \in Slots :
            link'[s].key = IF s = w.slot THEN w.key ELSE link[s].key
      BY <2>2
    <3>2. QED BY <1>2, <3>1 DEF LeaseOf
  <2>4. IdleOf' = IdleOf
    BY <1>2, <1>4, <2>2, PoolAssumption DEF IdleOf, Unset
  <2>5. LeaseOf[w.slot] = Free
    BY <1>2, <1>4 DEF LeaseOf
  <2>6. Lease!Grant(w.slot, w.key)
    BY <1>2, <2>1, <2>3, <2>4, <2>5 DEF Lease!Grant, LeaseOf, IdleOf
  <2>7. QED BY <1>2, <2>6 DEF Lease!Next
<1>5. CASE UpdateLink(a, w) /\ SameVersion(a, w)
  <2> DEFINE l == [link[w.slot] EXCEPT
                     !.age = IF w.op = "set" THEN 0 ELSE Unset]
  <2>1. link' = [link EXCEPT ![w.slot] = l] /\ UNCHANGED released
    BY <1>5 DEF UpdateLink, Store
  <2>2. l.key = link[w.slot].key
    BY <1>2 DEF Link
  <2> HIDE DEF l
  <2>3. \A s \in Slots : link'[s].key = link[s].key
    BY <1>2, <2>1, <2>2
  <2>4. QED BY <1>2, <2>1, <2>3, IdlesStep
<1>6. CASE DeleteLink(a, w) /\ SameVersion(a, w)
  <2>1. /\ link' = [link EXCEPT ![w.slot] = NoLink]
        /\ released' = released \cup {<<link[w.slot].key, w.slot>>}
        /\ w.op \in {"dedupe", "release"}
    BY <1>6 DEF DeleteLink, Store
  <2>2. /\ link[w.slot].key = w.key
        /\ w.op = "release" => link[w.slot].age > MaxAge
        /\ w.op = "dedupe" =>
             \E t \in Slots : t < w.slot /\ Accepted(<<w.key, t>>)
    BY <1>2, <1>6, <2>1 DEF SameVersion, Inv, Coherent, WritesCoherent
  <2>3. \A s \in Slots : link'[s] = IF s = w.slot THEN NoLink ELSE link[s]
    BY <1>2, <2>1
  <2>4. LeaseOf' = [LeaseOf EXCEPT ![w.slot] = Free]
    <3>1. \A s \in Slots :
            link'[s].key = IF s = w.slot THEN Free ELSE link[s].key
      BY <2>3 DEF NoLink
    <3>2. QED BY <1>2, <3>1 DEF LeaseOf
  <2>5. IdleOf' = IdleOf \ {w.slot}
    BY <1>2, <2>3, PoolAssumption DEF IdleOf, NoLink, Unset
  <2>6. LeaseOf[w.slot] = w.key /\ \A t \in Slots : LeaseOf[t] = link[t].key
    BY <1>2, <2>2 DEF LeaseOf
  <2>7. \/ w.slot \in IdleOf
        \/ \E t \in Slots : t < w.slot /\ Lease!Granted(w.key, t)
    <3>1. CASE w.op = "release"
      BY <1>2, <2>2, <3>1 DEF IdleOf
    <3>2. CASE w.op = "dedupe"
      BY <2>2, <3>2 DEF Accepted, Lease!Granted
    <3>3. QED BY <2>1, <3>1, <3>2
  <2>8. Lease!End(w.slot)
    BY <1>2, <2>1, <2>2, <2>4, <2>5, <2>6, <2>7
       DEF Lease!End, LeaseOf, IdleOf
  <2>9. QED BY <1>2, <2>8 DEF Lease!Next
<1>7. QED BY <1>1, <1>3, <1>4, <1>5, <1>6 DEF CreateLink, UpdateLink, DeleteLink

\* Every step of the pool is a step of the leases, or leaves them alone.
LEMMA StepImplements == Inv /\ [Next]_vars => [Lease!Next]_(Lease!vars)
<1> SUFFICES ASSUME Inv, [Next]_vars PROVE [Lease!Next]_(Lease!vars)
  OBVIOUS
<1>1. CASE Tick
  <2>1. \A s \in Slots : link'[s] = Older(link[s]) /\ link[s] \in Link
    BY <1>1 DEF Tick, Inv, TypeOK
  <2>2. \A s \in Slots : link'[s].key = link[s].key
    BY <2>1, OlderType
  <2>3. QED BY <1>1, <2>2, IdlesStep DEF Tick
<1>2. ASSUME NEW a \in Nodes,
             NEW P \in SUBSET (prog[a] \cup Desired(a, cache[a], view[a])),
             prog' = [prog EXCEPT ![a] = P], UNCHANGED <<link, released>>
      PROVE  Lease!Next
  <2> DEFINE D == Desired(a, cache[a], view[a])
  <2>1. \A p \in D : p \in Claims /\ Accepted(p)
    <3> SUFFICES ASSUME NEW p \in D PROVE p \in Claims /\ Accepted(p)
      OBVIOUS
    <3>1. p \in Claims /\ cache[a][p[2]].key = p[1]
      BY DEF Desired, ByKey
    <3>2. p = <<p[1], p[2]>> /\ p[1] \in Keys /\ p[2] \in Slots
      BY <3>1 DEF Claims
    <3>3. QED BY <3>1, <3>2 DEF Inv, Coherent, CacheCoherent
  <2>2. P \in SUBSET Claims /\ \A p \in P : Accepted(p)
    <3> HIDE DEF D
    <3>1. P \in SUBSET (prog[a] \cup D)
      BY DEF D
    <3>2. QED BY <2>1, <3>1 DEF Inv, TypeOK, Coherent, ProgAccepted
  <2>3. QED BY <1>2, <2>2, UseStep
<1>3. ASSUME NEW a \in Nodes, Reconcile(a) PROVE Lease!Next
  <2>1. Desired(a, cache[a], view[a])
          \in SUBSET (prog[a] \cup Desired(a, cache[a], view[a]))
    OBVIOUS
  <2>2. /\ prog' = [prog EXCEPT ![a] = Desired(a, cache[a], view[a])]
        /\ UNCHANGED <<link, released>>
    BY <1>3 DEF Reconcile
  <2>3. QED BY <1>2, <2>1, <2>2
<1>4. ASSUME NEW a \in Nodes, ApplyFails(a) PROVE Lease!Next
  BY <1>2, <1>4 DEF ApplyFails
<1>5. ASSUME NEW a \in Nodes, Restart(a) PROVE Lease!Next
  <2>1. PICK P \in {prog[a], {}} : prog' = [prog EXCEPT ![a] = P]
    BY <1>5 DEF Restart
  <2>2. P \in SUBSET (prog[a] \cup Desired(a, cache[a], view[a]))
    OBVIOUS
  <2>3. QED BY <1>2, <1>5, <2>1, <2>2 DEF Restart
<1>6. CASE UNCHANGED <<link, prog, released>>
  BY <1>6, LeaseStutters
<1>7. QED
  BY <1>1, <1>3, <1>4, <1>5, <1>6, WriteStep
     DEF Next, Others, AgentStep, Faults, vars, NeedChanges, SeeNeed,
         SeeLinks, WriteFails, Drop

\* The agents, each working from its own cache and arbitrated by the API
\* server alone (allocateLinks, linkActions, writeLinks, slotFor), implement
\* the leases: one key per slot, ended only as idle or as a repeat, and used
\* only after they were granted.
THEOREM PoolImplementsLease == Spec => ImplementsLease
<1>1. Init => Lease!Init
  BY PoolAssumption DEF Init, EmptyPool, Unset, Lease!Init
<1>2. QED BY <1>1, InitInv, NextInv, StepImplements, PTL
          DEF Spec, ImplementsLease, Lease!Spec

-----------------------------------------------------------------------------
(* The grace before a release.                                             *)

\* No claim of the same key stands, or ever stood, on a lower slot.
Alone(s) ==
  \A t \in Slots : t < s => /\ link[t].key # link[s].key
                            /\ <<link[s].key, t>> \notin released

QuietType == quiet \in [Slots -> Nat]

\* UnusedSince does not run ahead of the quiet it stands for.
QuietAge ==
  \A s \in Slots :
    link[s].key \in Keys /\ link[s].age # Unset /\ Alone(s) => quiet[s] >= link[s].age

\* The agents of LinkRelease are those of LinkPool.
LEMMA TimelyIsPool == TimelySpec => Spec
<1>1. TimelyInit => Init
  BY DEF TimelyInit
<1>2. [TimelyNext]_timedVars => [Next]_vars
  BY DEF TimelyNext, TimelyTick, timedVars, Next
<1>. QED  BY <1>1, <1>2, PTL DEF TimelySpec, Spec

\* When every agent is settled, no host carries the slot of a Link that is
\* alone and marked unused: that host's agent would clear UnusedSince.
LEMMA SettledQuiet ==
  ASSUME Inv, \A a \in Nodes : Settled(a), NEW s \in Slots,
         link[s].key \in Keys, link[s].age # Unset
  PROVE  ~InUse(s)
<1>. SUFFICES ASSUME NEW a \in Nodes, NEW p \in prog[a], p[2] = s PROVE FALSE
  BY DEF InUse
<1>. DEFINE w == [op |-> "clear", slot |-> s, key |-> p[1]]
<1>1. p \in Desired(a, cache[a], view[a]) /\ behind[a] = {}
  BY DEF Settled
<1>2. cache[a][s] = link[s]
  BY <1>1 DEF Inv, Coherent, CacheCoherent
<1>3. /\ p[1] \in Keys /\ Needed(view[a], p[1])
      /\ ByKey(cache[a], p[1], s) /\ cache[a][s].key = p[1]
  BY <1>1 DEF Desired, Claims, ByKey
<1>4. w \in Write /\ w.op = "clear" /\ w.slot = s /\ w.key = p[1]
  BY <1>3 DEF Write, Ops
<1>5. ClearDue(cache[a], view[a], w)
  BY <1>2, <1>3, <1>4 DEF ClearDue
<1>6. w \in LinkActions(a, cache[a], view[a])
  BY <1>4, <1>5 DEF LinkActions
<1>. QED  BY <1>6 DEF Settled

LEMMA QuietTick ==
  ASSUME Inv, QuietType, QuietAge, TimelyTick
  PROVE  QuietType' /\ QuietAge'
<1>1. /\ quiet' = [s \in Slots |-> IF InUse(s) THEN 0
                                   ELSE IF quiet[s] > MaxAge THEN quiet[s]
                                   ELSE quiet[s] + 1]
      /\ link' = [s \in Slots |-> Older(link[s])] /\ released' = released
  BY DEF TimelyTick, Tick
<1>2. QuietType'
  BY <1>1 DEF QuietType
<1>3. \A s \in Slots : link[s] \in Link /\ link'[s] = Older(link[s])
                       /\ link'[s].key = link[s].key
  BY <1>1, OlderType DEF Inv, TypeOK
<1>4. ASSUME NEW s \in Slots, link'[s].key \in Keys, link'[s].age # Unset, Alone(s)'
      PROVE  quiet'[s] >= link'[s].age
  <2>1. Alone(s)
    BY <1>1, <1>3, <1>4 DEF Alone
  <2>2. /\ link[s].age \in Ages /\ MaxAge \in Nat
        /\ link'[s].age = IF link[s].age \in 0 .. MaxAge THEN link[s].age + 1
                          ELSE link[s].age
    BY <1>3, PoolAssumption DEF Older, Link
  <2>3. link[s].age # Unset /\ link[s].age \in 0 .. MaxAge + 1
    BY <1>4, <2>2 DEF Ages, Unset
  <2>4. ~InUse(s)
    <3>1. \A a \in Nodes : Settled(a)
      BY DEF TimelyTick
    <3>. QED  BY <1>3, <1>4, <2>3, <3>1, SettledQuiet
  <2>5. quiet[s] >= link[s].age /\ quiet[s] \in Nat
    BY <1>3, <1>4, <2>1, <2>3 DEF QuietAge, QuietType
  <2>6. quiet'[s] = IF quiet[s] > MaxAge THEN quiet[s] ELSE quiet[s] + 1
    BY <1>1, <2>4
  <2>. QED  BY <2>2, <2>3, <2>5, <2>6
<1>. QED  BY <1>2, <1>4 DEF QuietAge

\* A write makes no Link older, and none alone.
LEMMA QuietWrite ==
  ASSUME Inv, QuietType, QuietAge, UNCHANGED quiet, NEW a \in Nodes, WriteLink(a)
  PROVE  QuietAge'
<1>1. PICK w \in NextWrite(pass[a].writes) :
        CreateLink(a, w) \/ UpdateLink(a, w) \/ DeleteLink(a, w)
  BY DEF WriteLink
<1>2. /\ w \in Write /\ w.slot \in Slots /\ w.key \in Keys
      /\ link \in [Slots -> Link] /\ link[w.slot] \in Link
  BY DEF NextWrite, Inv, TypeOK, Pass, Write
<1>3. CASE link' = link /\ released' = released
  BY <1>3 DEF QuietAge, Alone
<1>4. CASE CreateLink(a, w) /\ link[w.slot].key = Free
  <2>1. /\ \A s \in Slots :
             link'[s] = IF s = w.slot THEN [key |-> w.key, age |-> Unset] ELSE link[s]
        /\ released' = released
    BY <1>2, <1>4 DEF CreateLink, Store
  <2>2. ASSUME NEW s \in Slots, link'[s].key \in Keys, link'[s].age # Unset, Alone(s)'
        PROVE  quiet'[s] >= link'[s].age
    <3>1. s # w.slot /\ link'[s] = link[s]
      BY <2>1, <2>2
    <3>2. Alone(s)
      <4>1. \A t \in Slots : t # w.slot => link'[t] = link[t]
        BY <2>1
      <4>2. link[w.slot].key # link[s].key
        BY <1>4, <2>2, <3>1, PoolAssumption
      <4>. QED  BY <2>1, <2>2, <3>1, <4>1, <4>2 DEF Alone
    <3>. QED  BY <2>2, <3>1, <3>2 DEF QuietAge
  <2>. QED  BY <2>2 DEF QuietAge
<1>5. CASE UpdateLink(a, w) /\ SameVersion(a, w)
  <2>. DEFINE l == [link[w.slot] EXCEPT !.age = IF w.op = "set" THEN 0 ELSE Unset]
  <2>1. /\ \A s \in Slots : link'[s] = IF s = w.slot THEN l ELSE link[s]
        /\ released' = released
    BY <1>2, <1>5 DEF UpdateLink, Store
  <2>2. l.key = link[w.slot].key /\ l.age \in {0, Unset}
    BY <1>2 DEF Link
  <2>3. \A s \in Slots : link'[s].key = link[s].key
    BY <2>1, <2>2
  <2>4. ASSUME NEW s \in Slots, link'[s].key \in Keys, link'[s].age # Unset, Alone(s)'
        PROVE  quiet'[s] >= link'[s].age
    <3>1. Alone(s)
      BY <2>1, <2>3, <2>4 DEF Alone
    <3>2. CASE s = w.slot
      <4>1. link'[s].age = 0
        BY <2>1, <2>2, <2>4, <3>2
      <4>. QED  BY <4>1 DEF QuietType
    <3>3. CASE s # w.slot
      BY <2>1, <2>4, <3>1, <3>3 DEF QuietAge
    <3>. QED  BY <3>2, <3>3
  <2>. QED  BY <2>4 DEF QuietAge
<1>6. CASE DeleteLink(a, w) /\ SameVersion(a, w)
  <2>1. /\ \A s \in Slots : link'[s] = IF s = w.slot THEN NoLink ELSE link[s]
        /\ released' = released \cup {<<link[w.slot].key, w.slot>>}
    BY <1>2, <1>6 DEF DeleteLink, Store
  <2>2. ASSUME NEW s \in Slots, link'[s].key \in Keys, link'[s].age # Unset, Alone(s)'
        PROVE  quiet'[s] >= link'[s].age
    <3>1. s # w.slot /\ link'[s] = link[s]
      BY <2>1, <2>2 DEF NoLink
    <3>2. Alone(s)
      <4>1. \A t \in Slots : t # w.slot => link'[t] = link[t]
        BY <2>1
      <4>2. w.slot < s => link[w.slot].key # link[s].key
        BY <1>2, <2>1, <2>2, <3>1 DEF Alone
      <4>. QED  BY <2>1, <2>2, <3>1, <4>1, <4>2 DEF Alone
    <3>. QED  BY <2>2, <3>1, <3>2 DEF QuietAge
  <2>. QED  BY <2>2 DEF QuietAge
<1>7. \/ link' = link /\ released' = released
      \/ CreateLink(a, w) /\ link[w.slot].key = Free
      \/ UpdateLink(a, w) /\ SameVersion(a, w)
      \/ DeleteLink(a, w) /\ SameVersion(a, w)
  BY <1>1 DEF CreateLink, UpdateLink, DeleteLink, Drop
<1>. QED  BY <1>3, <1>4, <1>5, <1>6, <1>7

LEMMA QuietNext == Inv /\ QuietType /\ QuietAge /\ [TimelyNext]_timedVars
                     => QuietType' /\ QuietAge'
<1>. SUFFICES ASSUME Inv, QuietType, QuietAge, [TimelyNext]_timedVars
              PROVE  QuietType' /\ QuietAge'
  OBVIOUS
<1>1. CASE TimelyTick
  BY <1>1, QuietTick
<1>2. ASSUME NEW a \in Nodes, WriteLink(a), UNCHANGED quiet
      PROVE  QuietType' /\ QuietAge'
  BY <1>2, QuietWrite DEF QuietType
<1>3. CASE UNCHANGED <<link, released, quiet>>
  BY <1>3 DEF QuietType, QuietAge, Alone
<1>. QED
  BY <1>1, <1>2, <1>3
     DEF TimelyNext, timedVars, vars, Others, AgentStep, Faults, NeedChanges, SeeNeed,
         SeeLinks, Reconcile, ApplyFails, WriteFails, Restart, Drop

\* linkActions releases a Link that no other duplicates only after a whole
\* unusedLinkAge in which no host carried its slot, if every change reaches
\* every agent within a tick (docs/decisions.md), for any nodes, keys, slots,
\* ages and changes of need.
THEOREM PoolQuietBeforeRelease == TimelySpec => QuietBeforeRelease
<1>. DEFINE Leaves ==
       \A s \in Slots :
         link[s].key \in Keys /\ link'[s].key # link[s].key =>
           /\ link'[s].key = Free
           /\ \/ link[s].age > MaxAge
              \/ \E t \in Slots : /\ t < s
                                  /\ \/ link[t].key = link[s].key
                                     \/ <<link[s].key, t>> \in released
            Waits ==
       \A s \in Slots :
         /\ link[s].key \in Keys
         /\ link'[s].key = Free
         /\ \A t \in Slots : t < s => /\ link[t].key # link[s].key
                                      /\ <<link[s].key, t>> \notin released
         => quiet[s] > MaxAge
<1>1. TimelyInit => QuietType /\ QuietAge
  <2>. SUFFICES ASSUME TimelyInit PROVE QuietType /\ QuietAge
    OBVIOUS
  <2>1. \A s \in Slots : link[s].age = Unset
    BY DEF TimelyInit, Init, EmptyPool
  <2>. QED  BY <2>1 DEF TimelyInit, QuietType, QuietAge
<1>2. TimelySpec => []Inv
  <2>1. Spec => []Inv
    BY PoolTypeCorrect, PoolCoherent, PTL DEF Inv
  <2>. QED  BY <2>1, TimelyIsPool, PTL
<1>3. TimelySpec => [](QuietType /\ QuietAge)
  BY <1>1, <1>2, QuietNext, PTL DEF TimelySpec
<1>4. TimelySpec => [][Leaves]_vars
  BY TimelyIsPool, PoolLinksLeave, PTL DEF LinksLeaveUnusedOrDuplicate
<1>5. ASSUME Inv, QuietType, QuietAge, [Leaves]_vars PROVE Waits \/ UNCHANGED vars
  <2>. SUFFICES ASSUME Leaves, NEW s \in Slots, link[s].key \in Keys, link'[s].key = Free,
                       Alone(s)
                PROVE  quiet[s] > MaxAge
    BY <1>5 DEF Alone
  <2>1. link[s].age > MaxAge /\ link[s].age \in Ages /\ MaxAge \in Nat
    BY <1>5, PoolAssumption DEF Alone, Inv, TypeOK, Link
  <2>2. link[s].age # Unset /\ link[s].age \in Nat
    BY <2>1 DEF Ages, Unset
  <2>3. quiet[s] >= link[s].age /\ quiet[s] \in Nat
    BY <1>5, <2>2 DEF QuietAge, QuietType
  <2>. QED  BY <2>1, <2>2, <2>3
<1>6. Inv /\ QuietType /\ QuietAge /\ [Leaves]_vars /\ [TimelyNext]_timedVars
        => [Waits]_timedVars
  <2>. SUFFICES ASSUME Inv, QuietType, QuietAge, UNCHANGED vars PROVE Waits
    BY <1>5
  <2>. QED  BY PoolAssumption DEF vars
<1>7. TimelySpec => [][Waits]_timedVars
  <2>. HIDE DEF Leaves, Waits
  <2>. QED  BY <1>2, <1>3, <1>4, <1>6, PTL DEF TimelySpec
<1>. QED  BY <1>7 DEF QuietBeforeRelease

=============================================================================
