--------------------------- MODULE PortMaps_proof ---------------------------
(***************************************************************************)
(* What the decisions of PortMaps promise for any number of PortMaps,      *)
(* classes, pods and nodes, in the clusters of Spec and in those of        *)
(* ReturnPath's RPSpec.                                                    *)
(*                                                                         *)
(* The accepted mappings of a class are given by a condition that refers   *)
(* to themselves.  That exactly one set satisfies it is what the earliest- *)
(* first order is for; it is shown here without induction, from the least  *)
(* mapping that would be in doubt.                                         *)
(***************************************************************************)
EXTENDS ReturnPath, WellFoundedInduction, TLAPS

(***************************************************************************)
(* A set of numbers has a least element.                                   *)
(***************************************************************************)
LEMMA LeastNat ==
  ASSUME NEW T \in SUBSET Nat, T # {}
  PROVE  \E x \in T : \A y \in T : x <= y
<1>1. \E x \in T : \A y \in T : ~(<<y, x>> \in OpToRel(<, Nat))
  BY NatLessThanWellFounded, WFMin
<1>2. PICK x \in T : \A y \in T : ~(<<y, x>> \in OpToRel(<, Nat))
  BY <1>1
<1>3. ASSUME NEW y \in T PROVE x <= y
  <2>1. <<y, x>> \in Nat \X Nat /\ <<y, x>>[1] = y /\ <<y, x>>[2] = x
    OBVIOUS
  <2>2. ~(y < x)
    BY <1>2, <2>1 DEF OpToRel
  <2>. QED  BY <2>2
<1>. QED  BY <1>3

-----------------------------------------------------------------------------
(* Holders in a well-founded order.                                        *)

\* Every part of S has an element that none in it comes before.
Founded(S, E) == \A T \in SUBSET S : T # {} => \E x \in T : \A y \in T : <<y, x>> \notin E

\* H holds against C on S: in H is who nobody in H blocks.
Solves(H, S, C) ==
  /\ H \subseteq S
  /\ \A n \in S : n \in H <=> \A h \in H : <<h, n>> \notin C

\* x and what comes before it.
Down(x, S, E) == {m \in S : m = x \/ <<m, x>> \in E}

(***************************************************************************)
(* If only who comes before can block, there is at most one such set: the  *)
(* earliest element on which two of them differ would be blocked in both   *)
(* or in none.                                                             *)
(***************************************************************************)
LEMMA SolvesUnique ==
  ASSUME NEW S, NEW E, NEW C, Founded(S, E), C \subseteq E,
         NEW H1, NEW H2, Solves(H1, S, C), Solves(H2, S, C)
  PROVE  H1 = H2
<1>. DEFINE D == {n \in S : ~(n \in H1 <=> n \in H2)}
<1>1. ASSUME D # {} PROVE FALSE
  <2>1. PICK x \in D : \A y \in D : <<y, x>> \notin E
    BY <1>1 DEF Founded
  <2>2. \A h \in S : <<h, x>> \in C => (h \in H1 <=> h \in H2)
    BY <2>1
  <2>3. (\A h \in H1 : <<h, x>> \notin C) <=> (\A h \in H2 : <<h, x>> \notin C)
    BY <2>2 DEF Solves
  <2>4. x \in H1 <=> x \in H2
    BY <2>3 DEF Solves
  <2>. QED  BY <2>1, <2>4
<1>2. \A n \in S : n \in H1 <=> n \in H2
  BY <1>1
<1>. QED  BY <1>2 DEF Solves

(***************************************************************************)
(* A solution restricted to a part that is closed downwards is one there.  *)
(***************************************************************************)
LEMMA SolvesRestrict ==
  ASSUME NEW S, NEW E, NEW C, C \subseteq E, NEW H, Solves(H, S, C),
         NEW T \in SUBSET S, \A x \in T : \A m \in S : <<m, x>> \in E => m \in T
  PROVE  Solves(H \cap T, T, C)
BY DEF Solves

(***************************************************************************)
(* Solutions below each element of a part closed downwards make one of     *)
(* the part: on what two of them share they agree.                         *)
(***************************************************************************)
LEMMA SolvesGlue ==
  ASSUME NEW S, NEW E, NEW C, Founded(S, E), C \subseteq E,
         \A x, y, z \in S : <<x, y>> \in E /\ <<y, z>> \in E => <<x, z>> \in E,
         NEW T \in SUBSET S, \A x \in T : \A m \in S : <<m, x>> \in E => m \in T,
         \A x \in T : \E H : Solves(H, Down(x, S, E), C)
  PROVE  \E H : Solves(H, T, C)
<1>. DEFINE sol(x) == CHOOSE H : Solves(H, Down(x, S, E), C)
            all == {x \in T : x \in sol(x)}
<1>1. \A x \in T : Solves(sol(x), Down(x, S, E), C)
  OBVIOUS
<1>2. ASSUME NEW n \in T, NEW h \in T, <<h, n>> \in E
      PROVE  h \in sol(n) <=> h \in sol(h)
  <2>1. Down(h, S, E) \in SUBSET Down(n, S, E)
    BY <1>2 DEF Down
  <2>2. \A x \in Down(h, S, E) : \A m \in Down(n, S, E) : <<m, x>> \in E => m \in Down(h, S, E)
    BY <1>2 DEF Down
  <2>3. Solves(sol(n) \cap Down(h, S, E), Down(h, S, E), C)
    <3>1. Solves(sol(n), Down(n, S, E), C)
      BY <1>1
    <3>. HIDE DEF sol
    <3>. QED  BY <3>1, <2>1, <2>2, SolvesRestrict
  <2>4. Founded(Down(h, S, E), E)
    BY DEF Founded, Down
  <2>5. sol(n) \cap Down(h, S, E) = sol(h)
    <3>1. Solves(sol(h), Down(h, S, E), C)
      BY <1>1
    <3>. HIDE DEF sol
    <3>. QED  BY <3>1, <2>3, <2>4, SolvesUnique
  <2>6. h \in Down(h, S, E)
    BY DEF Down
  <2>. HIDE DEF sol
  <2>. QED  BY <2>5, <2>6
<1>3. ASSUME NEW n \in T
      PROVE  n \in all <=> \A h \in all : <<h, n>> \notin C
  <2>1. Solves(sol(n), Down(n, S, E), C)
    BY <1>1
  <2>. HIDE DEF sol
  <2>2. n \in Down(n, S, E)
    BY DEF Down
  <2>3. n \in sol(n) <=> \A h \in sol(n) : <<h, n>> \notin C
    BY <2>1, <2>2 DEF Solves
  <2>4. \A h : <<h, n>> \in C => <<h, n>> \in E
    OBVIOUS
  <2>5. \A h \in sol(n) : h \in S /\ (<<h, n>> \in C => h \in T)
    BY <2>1, <2>4 DEF Solves, Down
  <2>6. \A h : <<h, n>> \in C => (h \in sol(n) <=> h \in all)
    BY <1>2, <2>4, <2>5
  <2>. QED  BY <2>3, <2>6
<1>4. Solves(all, T, C)
  <2>. HIDE DEF sol
  <2>. QED  BY <1>3 DEF Solves
<1>. QED  BY <1>4

(***************************************************************************)
(* There is a solution: the earliest element below which there is none     *)
(* would have one, by gluing those before it and deciding about itself.    *)
(***************************************************************************)
LEMMA SolvesExists ==
  ASSUME NEW S, NEW E, NEW C, Founded(S, E), C \subseteq E,
         \A x, y, z \in S : <<x, y>> \in E /\ <<y, z>> \in E => <<x, z>> \in E
  PROVE  \E H : Solves(H, S, C)
<1>. DEFINE bad == {x \in S : ~\E H : Solves(H, Down(x, S, E), C)}
<1>1. ASSUME bad # {} PROVE FALSE
  <2>1. PICK b \in bad : \A y \in bad : <<y, b>> \notin E
    BY <1>1 DEF Founded
  <2>2. <<b, b>> \notin E
    BY <2>1
  <2>. DEFINE T == Down(b, S, E) \ {b}
  <2>3. \A x \in T : x \in S /\ <<x, b>> \in E
    BY DEF Down
  <2>4. \A x \in T : \A m \in S : <<m, x>> \in E => m \in T
    BY <2>2, <2>3 DEF Down
  <2>5. \A x \in T : \E H : Solves(H, Down(x, S, E), C)
    BY <2>1, <2>3
  <2>6. PICK H : Solves(H, T, C)
    <3>1. T \in SUBSET S
      BY <2>3
    <3>. HIDE DEF T
    <3>. QED  BY <3>1, <2>4, <2>5, SolvesGlue
  <2>. DEFINE K == IF \A h \in H : <<h, b>> \notin C THEN H \cup {b} ELSE H
  <2>7. Down(b, S, E) = T \cup {b}
    BY DEF Down
  <2>8. b \notin H /\ H \subseteq T
    BY <2>6 DEF Solves
  <2>9. \A x \in T : <<b, x>> \notin C
    BY <2>2, <2>3, <2>1
  <2>10. <<b, b>> \notin C
    BY <2>2
  <2>11. \A n \in T : n \in K <=> \A h \in K : <<h, n>> \notin C
    BY <2>6, <2>9 DEF Solves
  <2>12. b \in K <=> \A h \in K : <<h, b>> \notin C
    BY <2>8, <2>10
  <2>13. Solves(K, Down(b, S, E), C)
    BY <2>7, <2>8, <2>11, <2>12 DEF Solves
  <2>. QED  BY <2>1, <2>13
<1>2. \A x \in S : \E H : Solves(H, Down(x, S, E), C)
  BY <1>1
<1>. QED  BY <1>2, SolvesGlue

-----------------------------------------------------------------------------
(* The objects, and the order of PortMaps.                                 *)

\* What the decisions need to know of the objects.
Objects ==
  /\ DOMAIN portmaps = Names /\ portmaps = [n \in Names |-> portmaps[n]]
  /\ \A n \in Existing : /\ portmaps[n].created \in Nat
                         /\ Of(n).first \in Nat /\ Of(n).last \in Nat
                         /\ Of(n).class \in Classes
  /\ ready \subseteq Pods
  /\ nodes \subseteq Nodes
  /\ now \in Nat

\* The mappings of a class that pass the checks, the order, and who would
\* block whom.
Valid(c) == {n \in Group(c) : ValidateStandalone(n) = "Valid"}

Before == {e \in Existing \X Existing : Earlier(e[1], e[2])}

Blocks == {e \in Before : /\ Of(e[1]).proto = Of(e[2]).proto
                          /\ Overlap(Of(e[2]), Of(e[1]))}

(***************************************************************************)
(* earlier is a strict total order on the PortMaps there are.              *)
(***************************************************************************)
LEMMA EarlierOrder ==
  ASSUME Objects
  PROVE  /\ \A a, b \in Existing : a # b => Earlier(a, b) \/ Earlier(b, a)
         /\ \A a, b \in Existing : ~(Earlier(a, b) /\ Earlier(b, a))
         /\ \A a, b, c \in Existing : Earlier(a, b) /\ Earlier(b, c) => Earlier(a, c)
<1>1. \A n \in Existing : portmaps[n].created \in Nat /\ n \in Nat
  BY PortMapsAssumption DEF Objects, Existing
<1>. QED  BY <1>1 DEF Earlier

(***************************************************************************)
(* Among any PortMaps one is the earliest: of the least creation times the *)
(* least name.                                                             *)
(***************************************************************************)
LEMMA EarliestExists ==
  ASSUME Objects, NEW S \in SUBSET Existing
  PROVE  Founded(S, Before)
<1>1. \A n \in Existing : portmaps[n].created \in Nat /\ n \in Nat
  BY PortMapsAssumption DEF Objects, Existing
<1>2. ASSUME NEW T \in SUBSET S, T # {}
      PROVE  \E x \in T : \A y \in T : <<y, x>> \notin Before
  <2>. DEFINE times == {portmaps[n].created : n \in T}
  <2>1. times \in SUBSET Nat /\ times # {}
    BY <1>1, <1>2
  <2>2. PICK t \in times : \A u \in times : t <= u
    <3>. HIDE DEF times
    <3>. QED  BY <2>1, LeastNat
  <2>. DEFINE first == {n \in T : portmaps[n].created = t}
  <2>3. first \in SUBSET Nat /\ first # {}
    BY <1>1, <2>2
  <2>4. PICK x \in first : \A y \in first : x <= y
    <3>. HIDE DEF first
    <3>. QED  BY <2>3, LeastNat
  <2>5. ASSUME NEW y \in T PROVE <<y, x>> \notin Before
    <3>1. /\ portmaps[y].created \in Nat /\ y \in Nat /\ x \in Nat /\ t \in Nat
          /\ portmaps[x].created = t
      BY <1>1, <2>4, <2>1
    <3>2. t <= portmaps[y].created
      BY <2>2
    <3>3. portmaps[y].created = t => x <= y
      BY <2>4
    <3>4. ~Earlier(y, x)
      BY <3>1, <3>2, <3>3 DEF Earlier
    <3>. QED  BY <3>4 DEF Before
  <2>6. x \in T
    BY <2>4
  <2>. QED  BY <2>5, <2>6
<1>. QED  BY <1>2 DEF Founded

(***************************************************************************)
(* Held(c) is the one solution for its class.                              *)
(***************************************************************************)
LEMMA HeldMeans ==
  ASSUME Objects, NEW c
  PROVE  /\ Solves(Held(c), Valid(c), Blocks)
         /\ \A n \in Valid(c) : n \in Held(c) <=> ~Taken(n, {h \in Held(c) : Earlier(h, n)})
<1>1. Valid(c) \in SUBSET Existing
  BY DEF Valid, Group
<1>2. Founded(Valid(c), Before) /\ Blocks \subseteq Before
  BY <1>1, EarliestExists DEF Blocks
<1>3. \A x, y, z \in Valid(c) : <<x, y>> \in Before /\ <<y, z>> \in Before => <<x, z>> \in Before
  <2>1. \A x, y \in Valid(c) : <<x, y>> \in Before <=> Earlier(x, y)
    BY <1>1 DEF Before
  <2>. QED  BY <1>1, <2>1, EarlierOrder
<1>4. PICK H0 : Solves(H0, Valid(c), Blocks)
  BY <1>2, <1>3, SolvesExists
<1>5. \A H \in SUBSET Valid(c) : \A n \in Valid(c) :
        Taken(n, {h \in H : Earlier(h, n)}) <=> \E h \in H : <<h, n>> \in Blocks
  BY <1>1 DEF Taken, Blocks, Before
<1>. DEFINE good(H) ==
       \A n \in Valid(c) : n \in H <=> ~Taken(n, {h \in H : Earlier(h, n)})
<1>6. H0 \in SUBSET Valid(c) /\ good(H0)
  BY <1>4, <1>5 DEF Solves
<1>7. Held(c) = CHOOSE H \in SUBSET Valid(c) : good(H)
  BY DEF Held, Valid
<1>8. Held(c) \in SUBSET Valid(c) /\ good(Held(c))
  BY <1>6, <1>7
<1>. QED  BY <1>5, <1>8 DEF Solves

(***************************************************************************)
(* validateStandalone gives one of its reasons, and Valid when no check    *)
(* fails.                                                                  *)
(***************************************************************************)
LEMMA ValidMeans ==
  ASSUME NEW n
  PROVE  /\ ValidateStandalone(n) # "PortConflict"
         /\ ValidateStandalone(n) = "Valid" => ~(Of(n).last < Of(n).first)
         /\ ValidateStandalone(n) = "Valid" => SharedTarget(n) = {}
<1>. DEFINE failing == {i \in DOMAIN Checks(n) : Checks(n)[i].fails}
            least == CHOOSE i \in failing : \A j \in failing : i <= j
<1>1. /\ DOMAIN Checks(n) = 1 .. 8
      /\ \A i \in 1 .. 8 : Checks(n)[i].reason \notin {"PortConflict", "Valid"}
      /\ Checks(n)[2].fails = (Of(n).last < Of(n).first)
      /\ Checks(n)[8].fails = (SharedTarget(n) # {})
  <2>1. DOMAIN Checks(n) = 1 .. 8
    BY DEF Checks
  <2>2. \A i \in 1 .. 8 : Checks(n)[i].reason \notin {"PortConflict", "Valid"}
    <3>1. \A i \in 1 .. 8 : i = 1 \/ i = 2 \/ i = 3 \/ i = 4 \/ i = 5 \/ i = 6 \/ i = 7 \/ i = 8
      OBVIOUS
    <3>. QED  BY <3>1 DEF Checks
  <2>3. Checks(n)[2].fails = (Of(n).last < Of(n).first)
    BY DEF Checks
  <2>4. Checks(n)[8].fails = (SharedTarget(n) # {})
    BY DEF Checks
  <2>. QED  BY <2>1, <2>2, <2>3, <2>4
<1>2. failing # {} => least \in 1 .. 8
  <2>1. failing \in SUBSET Nat
    BY <1>1
  <2>2. ASSUME failing # {} PROVE \E i \in failing : \A j \in failing : i <= j
    <3>. HIDE DEF failing
    <3>. QED  BY <2>1, <2>2, LeastNat
  <2>3. failing \subseteq 1 .. 8
    BY <1>1
  <2>. HIDE DEF failing
  <2>. QED  BY <2>2, <2>3
<1>3. ValidateStandalone(n) = IF failing = {} THEN "Valid" ELSE Checks(n)[least].reason
  BY DEF ValidateStandalone, FirstFailure
<1>4. ValidateStandalone(n) # "PortConflict" /\ (ValidateStandalone(n) = "Valid" => failing = {})
  <2>. HIDE DEF failing, least
  <2>. QED  BY <1>1, <1>2, <1>3
<1>5. failing = {} => ~Checks(n)[2].fails /\ ~Checks(n)[8].fails
  BY <1>1
<1>. QED  BY <1>1, <1>4, <1>5

-----------------------------------------------------------------------------
(* Acceptance.                                                             *)

(***************************************************************************)
(* Two accepted mappings of one class: the later one passed the check      *)
(* against the earlier one.                                                *)
(***************************************************************************)
LEMMA HeldDisjointHolds ==
  ASSUME Objects
  PROVE  HeldDisjoint
<1>1. ASSUME NEW a \in Existing, NEW b \in Existing, Earlier(a, b),
             Accepted(a), Accepted(b),
             Of(a).class = Of(b).class, Of(a).proto = Of(b).proto
      PROVE  Of(a).first .. Of(a).last \cap Of(b).first .. Of(b).last = {}
  <2>. DEFINE c == Of(b).class
  <2>1. a \in Held(c) /\ b \in Held(c)
    BY <1>1 DEF Accepted
  <2>2. b \in Valid(c) /\ ~Taken(b, {h \in Held(c) : Earlier(h, b)})
    BY <2>1, HeldMeans DEF Solves
  <2>3. ~Overlap(Of(b), Of(a))
    BY <1>1, <2>1, <2>2 DEF Taken
  <2>4. /\ Of(a).first \in Nat /\ Of(a).last \in Nat
        /\ Of(b).first \in Nat /\ Of(b).last \in Nat
    BY DEF Objects
  <2>. QED  BY <2>3, <2>4 DEF Overlap
<1>2. ASSUME NEW a \in Existing, NEW b \in Existing, a # b,
             Accepted(a), Accepted(b),
             Of(a).class = Of(b).class, Of(a).proto = Of(b).proto
      PROVE  Of(a).first .. Of(a).last \cap Of(b).first .. Of(b).last = {}
  <2>1. CASE Earlier(a, b)
    BY <1>1, <1>2, <2>1
  <2>2. CASE Earlier(b, a)
    <3>1. Of(b).first .. Of(b).last \cap Of(a).first .. Of(a).last = {}
      BY <1>1, <1>2, <2>2
    <3>. QED  BY <3>1
  <2>. QED  BY <1>2, <2>1, <2>2, EarlierOrder
<1>. QED  BY <1>2 DEF HeldDisjoint

(***************************************************************************)
(* PortConflict names an accepted holder.                                  *)
(***************************************************************************)
LEMMA ConflictHasHolderHolds ==
  ASSUME Objects
  PROVE  ConflictHasHolder
<1>1. ASSUME NEW n \in Existing, Reason(n) = "PortConflict"
      PROVE  \E h \in Existing :
               /\ Accepted(h) /\ Earlier(h, n)
               /\ Of(h).class = Of(n).class /\ Of(h).proto = Of(n).proto
               /\ Of(h).first .. Of(h).last \cap Of(n).first .. Of(n).last # {}
  <2>. DEFINE c == Of(n).class
  <2>1. ValidateStandalone(n) = "Valid" /\ n \notin Held(c)
    BY <1>1, ValidMeans DEF Reason, Accepted
  <2>2. n \in Valid(c)
    BY <2>1 DEF Valid, Group
  <2>3. PICK h \in Held(c) : /\ Earlier(h, n) /\ Of(h).proto = Of(n).proto
                             /\ Overlap(Of(n), Of(h))
    BY <2>1, <2>2, HeldMeans DEF Taken
  <2>4. h \in Valid(c)
    BY <2>3, HeldMeans DEF Solves
  <2>5. h \in Existing /\ Of(h).class = c /\ ValidateStandalone(h) = "Valid" /\ Accepted(h)
    BY <2>3, <2>4 DEF Valid, Group, Accepted
  <2>6. ~(Of(n).last < Of(n).first) /\ ~(Of(h).last < Of(h).first)
    BY <2>1, <2>5, ValidMeans
  <2>7. /\ Of(n).first \in Nat /\ Of(n).last \in Nat
        /\ Of(h).first \in Nat /\ Of(h).last \in Nat
    BY <2>5 DEF Objects
  <2>8. /\ Of(n).first <= Of(h).first => Of(h).first \in Of(n).first .. Of(n).last
        /\ Of(h).first <= Of(n).first => Of(n).first \in Of(h).first .. Of(h).last
        /\ Of(h).first \in Of(h).first .. Of(h).last
        /\ Of(n).first \in Of(n).first .. Of(n).last
    BY <2>3, <2>6, <2>7 DEF Overlap
  <2>9. Of(n).first <= Of(h).first \/ Of(h).first <= Of(n).first
    BY <2>7
  <2>10. Of(h).first .. Of(h).last \cap Of(n).first .. Of(n).last # {}
    BY <2>8, <2>9
  <2>. QED  BY <2>3, <2>5, <2>10
<1>. QED  BY <1>1 DEF ConflictHasHolder

(***************************************************************************)
(* Of two accepted mappings on one Service port the later one found no     *)
(* shared target.                                                          *)
(***************************************************************************)
LEMMA OneReturnRuleHolds ==
  ASSUME Objects
  PROVE  OneReturnRule
<1>1. \A n \in Existing : Accepted(n) => SharedTarget(n) = {}
  <2>1. ASSUME NEW n \in Existing, Accepted(n)
        PROVE  SharedTarget(n) = {}
    <3>1. n \in Valid(Of(n).class)
      BY <2>1, HeldMeans DEF Accepted, Solves
    <3>. QED  BY <3>1, ValidMeans DEF Valid
  <2>. QED  BY <2>1
<1>2. ASSUME NEW a \in Existing, NEW b \in Existing, Earlier(a, b), Accepted(b),
             Of(a).proto = Of(b).proto, Of(a).service = Of(b).service
      PROVE  ~Translates(a) /\ ~Translates(b)
  BY <1>1, <1>2 DEF SharedTarget, EitherTranslates
<1>. QED  BY <1>2, EarlierOrder DEF OneReturnRule

-----------------------------------------------------------------------------
(* Endpoint and roles.                                                     *)

(***************************************************************************)
(* The first of a set of nodes is one.                                     *)
(***************************************************************************)
LEMMA FirstOne ==
  ASSUME NEW S \in SUBSET Nat, S # {}
  PROVE  \E x \in S : First(S) = {x}
<1>1. PICK x \in S : \A y \in S : x <= y
  BY LeastNat
<1>2. ASSUME NEW z \in First(S) PROVE z = x
  <2>1. z \in S /\ z <= x /\ x <= z
    BY <1>1, <1>2 DEF First
  <2>2. z \in Nat /\ x \in Nat
    BY <2>1
  <2>. QED  BY <2>1, <2>2
<1>3. x \in First(S)
  BY <1>1 DEF First
<1>. QED  BY <1>2, <1>3

(***************************************************************************)
(* At most one endpoint is preferred to all others.                        *)
(***************************************************************************)
LEMMA OneEndpoint ==
  ASSUME Objects, NEW n, NEW p \in ChooseEndpoint(n), NEW q \in ChooseEndpoint(n)
  PROVE  p = q
<1>1. p \in Nat /\ q \in Nat /\ PodNode[p] \in Nat /\ PodNode[q] \in Nat
  BY PortMapsAssumption DEF Objects, ChooseEndpoint, Candidates
<1>2. p # q => Preferred(n, p, q) /\ Preferred(n, q, p)
  BY DEF ChooseEndpoint
<1>3. ~(Preferred(n, p, q) /\ Preferred(n, q, p))
  BY <1>1 DEF Preferred
<1>. QED  BY <1>2, <1>3

(***************************************************************************)
(* With a candidate on an accepting node, the chosen endpoint is on one:   *)
(* the lowest name on the lowest such node.                                *)
(***************************************************************************)
LEMMA LocalEndpoint ==
  ASSUME Objects, NEW n, NEW p0 \in Candidates(n), PodNode[p0] \in Accepting(n)
  PROVE  \E p \in ChooseEndpoint(n) : PodNode[p] \in Accepting(n)
<1>. DEFINE here == {p \in Candidates(n) : PodNode[p] \in Accepting(n)}
            hosts == {PodNode[p] : p \in here}
<1>1. \A p \in Candidates(n) : p \in Nat /\ PodNode[p] \in Nat
  BY PortMapsAssumption DEF Objects, Candidates
<1>2. hosts \in SUBSET Nat /\ hosts # {}
  BY <1>1
<1>3. PICK h \in hosts : \A k \in hosts : h <= k
  <2>. HIDE DEF hosts
  <2>. QED  BY <1>2, LeastNat
<1>. DEFINE there == {p \in here : PodNode[p] = h}
<1>4. there \in SUBSET Nat /\ there # {}
  BY <1>1, <1>3
<1>5. PICK p \in there : \A q \in there : p <= q
  <2>. HIDE DEF there
  <2>. QED  BY <1>4, LeastNat
<1>6. p \in Candidates(n) /\ PodNode[p] = h /\ PodNode[p] \in Accepting(n)
  BY <1>5
<1>7. ASSUME NEW q \in Candidates(n) \ {p} PROVE Preferred(n, p, q)
  <2>1. CASE PodNode[q] \notin Accepting(n)
    BY <1>6, <2>1 DEF Preferred
  <2>2. CASE PodNode[q] \in Accepting(n) /\ PodNode[q] # h
    <3>1. PodNode[q] \in hosts
      BY <2>2
    <3>2. h < PodNode[q]
      BY <3>1, <2>2, <1>3, <1>2
    <3>. QED  BY <3>2, <2>2, <1>6 DEF Preferred
  <2>3. CASE PodNode[q] \in Accepting(n) /\ PodNode[q] = h
    <3>1. q \in there
      BY <2>3
    <3>2. p < q
      BY <3>1, <1>4, <1>5
    <3>. QED  BY <3>2, <2>3, <1>6 DEF Preferred
  <2>. QED  BY <2>1, <2>2, <2>3
<1>8. p \in ChooseEndpoint(n)
  BY <1>6, <1>7 DEF ChooseEndpoint
<1>. QED  BY <1>6, <1>8

(***************************************************************************)
(* A programmer off the pod's node makes the mapping remote, and a remote  *)
(* mapping that is programmed asks for a link to every such programmer.    *)
(***************************************************************************)
LEMMA WayBackHolds == WayBack
<1>1. ASSUME NEW n \in Existing, NEW p \in Programmers(n), p \notin EndpointNode(n)
      PROVE  /\ Of(n).class \notin NoReturn
             /\ \E np \in NeededPairs : /\ np.class = Of(n).class /\ np.peer = p
                                        /\ np.holder \in EndpointNode(n)
  <2>1. /\ Endpoint(n) # {} /\ p \in Candidate(n)
        /\ ~(Remote(n) /\ Of(n).class \in NoReturn)
    BY DEF Programmers
  <2>2. Remote(n) /\ Of(n).class \notin NoReturn
    BY <1>1, <2>1 DEF Remote
  <2>3. PICK h : h \in EndpointNode(n)
    BY <2>1 DEF EndpointNode
  <2>. DEFINE np == [class |-> Of(n).class, peer |-> p, holder |-> h]
  <2>4. np \in NeededPairs
    BY <1>1, <2>2, <2>3 DEF NeededPairs
  <2>5. np.class = Of(n).class /\ np.peer = p /\ np.holder \in EndpointNode(n)
    BY <2>3
  <2>. QED  BY <2>2, <2>4, <2>5
<1>. QED  BY <1>1 DEF WayBack

(***************************************************************************)
(* Under Single, a ready pod on an accepting node makes that node the only *)
(* programmer.                                                             *)
(***************************************************************************)
LEMMA LocalFirstHolds ==
  ASSUME Objects
  PROVE  LocalFirst
<1>1. ASSUME NEW n \in Existing, Accepted(n), Of(n).class \notin Multi,
             NEW p0 \in Candidates(n), PodNode[p0] \in Accepting(n)
      PROVE  Programmers(n) \subseteq EndpointNode(n) /\ Programmers(n) # {}
  <2>1. PICK p \in ChooseEndpoint(n) : PodNode[p] \in Accepting(n)
    BY <1>1, LocalEndpoint
  <2>2. p \in Endpoint(n) /\ PodNode[p] \in EndpointNode(n)
    BY <1>1, <2>1 DEF Endpoint, EndpointNode
  <2>3. Candidate(n) = EndpointNode(n)
    BY <1>1, <2>1, <2>2 DEF Candidate, Serving
  <2>4. ~Remote(n)
    BY <2>3 DEF Remote
  <2>5. Programmers(n) = EndpointNode(n)
    BY <2>2, <2>3, <2>4 DEF Programmers
  <2>. QED  BY <2>2, <2>5
<1>. QED  BY <1>1 DEF LocalFirst

(***************************************************************************)
(* Whichever fallback names the writer, it names one node of the cluster.  *)
(***************************************************************************)
LEMMA OneWriterHolds ==
  ASSUME Objects
  PROVE  OneWriter
<1>1. ASSUME NEW n \in Existing, nodes # {}, EndpointNode(n) \subseteq nodes
      PROVE  \E w \in nodes : StatusOwner(n) = {w}
  <2>1. nodes \in SUBSET Nat /\ Accepting(n) \in SUBSET Nat /\ Accepting(n) \subseteq nodes
    BY PortMapsAssumption DEF Objects, Accepting
  <2>2. EndpointNode(n) # {} => \E w \in nodes : EndpointNode(n) = {w}
    <3>1. \A p, q \in Endpoint(n) : p = q
      BY OneEndpoint DEF Endpoint
    <3>. QED  BY <1>1, <3>1 DEF EndpointNode
  <2>3. Accepting(n) # {} => \E w \in nodes : First(Accepting(n)) = {w}
    BY <2>1, FirstOne
  <2>4. \E w \in nodes : First(nodes) = {w}
    BY <1>1, <2>1, FirstOne
  <2>5. Accepting(n) = {} => First(Accepting(n)) = {}
    BY DEF First
  <2>6. Serving(n) # {} => \E w \in nodes : Serving(n) = {w}
    BY <2>2, <2>3, <2>5 DEF Serving
  <2>. QED  BY <2>2, <2>3, <2>4, <2>6 DEF StatusOwner
<1>. QED  BY <1>1 DEF OneWriter

-----------------------------------------------------------------------------
(* The objects stay what they are.                                         *)

LEMMA ObjectsInit == Init \/ RPInit => Objects
BY PortMapsAssumption DEF Init, RPInit, Objects, Existing

(***************************************************************************)
(* What is created has a spec of the right shape, with or without the      *)
(* interfaces of ReturnPath.                                               *)
(***************************************************************************)
LEMMA ObjectsCreate ==
  ASSUME Objects, NEW n \in Names, NEW s, Create(n, s),
         s.first \in Nat, s.last \in Nat, s.class \in Classes
  PROVE  Objects'
<1>1. DOMAIN portmaps' = Names /\ portmaps' = [m \in Names |-> portmaps'[m]]
  BY DEF Create, Objects
<1>2. ASSUME NEW m \in Existing'
      PROVE  /\ portmaps'[m].created \in Nat
             /\ portmaps'[m].spec.first \in Nat /\ portmaps'[m].spec.last \in Nat
             /\ portmaps'[m].spec.class \in Classes
  <2>1. CASE m = n
    <3>1. portmaps'[m] = [spec |-> s, created |-> now]
      BY <2>1 DEF Create, Objects
    <3>. QED  BY <3>1 DEF Objects
  <2>2. CASE m # n
    <3>1. portmaps'[m] = portmaps[m] /\ m \in Existing
      BY <2>2 DEF Create, Objects, Existing
    <3>. QED  BY <3>1 DEF Objects, Of
  <2>. QED  BY <2>1, <2>2
<1>3. ready' \subseteq Pods /\ nodes' \subseteq Nodes /\ now' \in Nat
  BY DEF Create, Objects
<1>. QED  BY <1>1, <1>2, <1>3 DEF Objects, Of

LEMMA ObjectsDelete ==
  ASSUME Objects, NEW n \in Names, Delete(n)
  PROVE  Objects'
<1>1. DOMAIN portmaps' = Names /\ portmaps' = [m \in Names |-> portmaps'[m]]
  BY DEF Delete, Objects
<1>2. \A m \in Existing' : m \in Existing /\ portmaps'[m] = portmaps[m]
  BY DEF Delete, Objects, Existing
<1>3. ready' \subseteq Pods /\ nodes' \subseteq Nodes /\ now' \in Nat
  BY DEF Delete, Objects
<1>. QED  BY <1>1, <1>2, <1>3 DEF Objects, Of

LEMMA ObjectsElse ==
  ASSUME Objects, portmaps' = portmaps, ready' \subseteq Pods, nodes' \subseteq Nodes,
         now' \in Nat
  PROVE  Objects'
BY DEF Objects, Existing, Of

LEMMA ObjectsNext == Objects /\ [Next]_vars => Objects'
<1>. SUFFICES ASSUME Objects, [Next]_vars PROVE Objects'
  OBVIOUS
<1>1. ASSUME NEW n \in Names, Delete(n) PROVE Objects'
  BY <1>1, ObjectsDelete
<1>2. ASSUME NEW n \in Names, NEW s \in PortMapSpec, Create(n, s) PROVE Objects'
  <2>1. s.first \in Nat /\ s.last \in Nat /\ s.class \in Classes
    BY PortMapsAssumption DEF PortMapSpec
  <2>. QED  BY <1>2, <2>1, ObjectsCreate
<1>3. ASSUME NEW R \in SUBSET Pods, PodChanges(R) PROVE Objects'
  <2>1. portmaps' = portmaps /\ ready' \subseteq Pods /\ nodes' \subseteq Nodes /\ now' \in Nat
    BY <1>3 DEF PodChanges, Objects
  <2>. QED  BY <2>1, ObjectsElse
<1>4. ASSUME NEW N \in SUBSET Nodes, NodeChanges(N) PROVE Objects'
  <2>1. portmaps' = portmaps /\ ready' \subseteq Pods /\ nodes' \subseteq Nodes /\ now' \in Nat
    BY <1>4 DEF NodeChanges, Objects
  <2>. QED  BY <2>1, ObjectsElse
<1>5. CASE Second
  <2>1. portmaps' = portmaps /\ ready' \subseteq Pods /\ nodes' \subseteq Nodes /\ now' \in Nat
    BY <1>5 DEF Second, Objects
  <2>. QED  BY <2>1, ObjectsElse
<1>6. CASE UNCHANGED vars
  <2>1. portmaps' = portmaps /\ ready' \subseteq Pods /\ nodes' \subseteq Nodes /\ now' \in Nat
    BY <1>6 DEF vars, Objects
  <2>. QED  BY <2>1, ObjectsElse
<1>. QED  BY <1>1, <1>2, <1>3, <1>4, <1>5, <1>6 DEF Next

LEMMA ObjectsRPNext == Objects /\ [RPNext]_rpvars => Objects'
<1>. SUFFICES ASSUME Objects, [RPNext]_rpvars PROVE Objects'
  OBVIOUS
<1>1. CASE ObjectChanges
  <2>1. ASSUME NEW n \in Names, Delete(n) PROVE Objects'
    BY <2>1, ObjectsDelete
  <2>2. ASSUME NEW n \in Names, NEW s \in Offered[n], Create(n, s) PROVE Objects'
    <3>. DEFINE r == [class |-> s.class, flaw |-> s.flaw, proto |-> s.proto,
                      first |-> s.first, last |-> s.last, service |-> s.service]
    <3>1. r \in PortMapSpec
      BY <2>2, ReturnPathAssumption
    <3>2. s.first \in Nat /\ s.last \in Nat /\ s.class \in Classes
      BY <3>1, PortMapsAssumption DEF PortMapSpec
    <3>. QED  BY <2>2, <3>2, ObjectsCreate
  <2>3. ASSUME NEW R \in SUBSET Pods, PodChanges(R) PROVE Objects'
    <3>1. /\ portmaps' = portmaps /\ ready' \subseteq Pods /\ nodes' \subseteq Nodes
          /\ now' \in Nat
      BY <2>3 DEF PodChanges, Objects
    <3>. QED  BY <3>1, ObjectsElse
  <2>4. ASSUME NEW N \in NodeSets, NodeChanges(N) PROVE Objects'
    <3>1. /\ portmaps' = portmaps /\ ready' \subseteq Pods /\ nodes' \subseteq Nodes
          /\ now' \in Nat
      BY <2>4, ReturnPathAssumption DEF NodeChanges, Objects
    <3>. QED  BY <3>1, ObjectsElse
  <2>5. \A p \in Pods : ready \cup {p} \in SUBSET Pods /\ ready \ {p} \in SUBSET Pods
    BY DEF Objects
  <2>. QED  BY <1>1, <2>1, <2>2, <2>3, <2>4, <2>5 DEF ObjectChanges
<1>2. CASE UNCHANGED vars
  <2>1. portmaps' = portmaps /\ ready' \subseteq Pods /\ nodes' \subseteq Nodes /\ now' \in Nat
    BY <1>2 DEF vars, Objects
  <2>. QED  BY <2>1, ObjectsElse
<1>3. ObjectChanges \/ UNCHANGED vars
  BY DEF RPNext, rpvars, Pass, Stop, LinkLands, LinkReleased
<1>. QED  BY <1>1, <1>2, <1>3

-----------------------------------------------------------------------------
(* Who comes later.                                                        *)

\* HeldMeans as a fact about any state.
LEMMA HeldSolves == Objects => \A c : Solves(Held(c), Valid(c), Blocks)
BY HeldMeans

LEMMA HeldSolvesNext == (Objects => \A c : Solves(Held(c), Valid(c), Blocks))'
BY HeldSolves, PTL

(***************************************************************************)
(* A mapping created after all others changes no check of theirs: it is    *)
(* earlier than none of them.                                              *)
(***************************************************************************)
LEMMA ChecksStay ==
  ASSUME Objects, NEW n \in Names, NEW s, Create(n, s),
         \A o \in Existing : portmaps[o].created < now
  PROVE  /\ Existing \subseteq Existing' /\ Existing' \subseteq Existing \cup {n}
         /\ n \notin Existing
         /\ \A o \in Existing : portmaps'[o] = portmaps[o]
         /\ \A o, a \in Existing : Earlier(a, o)' <=> Earlier(a, o)
         /\ \A o \in Existing : ~Earlier(n, o)'
         /\ \A o \in Existing : ValidateStandalone(o)' = ValidateStandalone(o)
<1>1. /\ Existing \subseteq Existing' /\ Existing' \subseteq Existing \cup {n}
      /\ n \notin Existing
      /\ \A o \in Existing : portmaps'[o] = portmaps[o]
  BY DEF Create, Existing, Objects
<1>2. portmaps'[n] = [spec |-> s, created |-> now]
  BY DEF Create, Objects
<1>3. \A o, a \in Existing : Earlier(a, o)' <=> Earlier(a, o)
  BY <1>1 DEF Earlier
<1>4. \A o \in Existing : ~Earlier(n, o)'
  <2>1. \A o \in Existing : portmaps[o].created \in Nat /\ now \in Nat
    BY DEF Objects
  <2>2. portmaps'[n].created = now
    BY <1>2
  <2>. QED  BY <1>1, <2>1, <2>2 DEF Earlier
<1>5. ready' = ready
  BY DEF Create
<1>6. \A o \in Existing : Of(o)' = Of(o)
  BY <1>1 DEF Of
<1>7. \A o \in Existing : DifferingPort(o)' <=> DifferingPort(o)
  BY <1>5, <1>6 DEF DifferingPort, Candidates
<1>8. \A o \in Existing : Translates(o)' <=> Translates(o)
  BY <1>6, <1>7 DEF Translates
<1>9. \A o, a \in Existing : EitherTranslates(a, o)' <=> EitherTranslates(a, o)
  BY <1>8 DEF EitherTranslates
<1>10. \A o \in Existing : SharedTarget(o)' = SharedTarget(o)
  BY <1>1, <1>3, <1>4, <1>6, <1>9 DEF SharedTarget
<1>11. ASSUME NEW o \in Existing PROVE Checks(o)' = Checks(o)
  BY <1>6, <1>7, <1>10 DEF Checks
<1>12. ASSUME NEW o \in Existing PROVE ValidateStandalone(o)' = ValidateStandalone(o)
  <2>1. Checks(o)' = Checks(o)
    BY <1>11
  <2>. QED  BY <2>1 DEF ValidateStandalone
<1>. QED  BY <1>1, <1>3, <1>4, <1>12

(***************************************************************************)
(* The holders among those who were there are the same: with the newcomer  *)
(* left out, the new holders solve the old problem, which has one          *)
(* solution.                                                               *)
(***************************************************************************)
LEMMA HeldStays ==
  ASSUME Objects, Objects', NEW n \in Names, NEW s, Create(n, s),
         \A o \in Existing : portmaps[o].created < now, NEW c, NEW o \in Existing
  PROVE  o \in Held(c)' <=> o \in Held(c)
<1>1. /\ Existing \subseteq Existing' /\ Existing' \subseteq Existing \cup {n}
      /\ n \notin Existing
      /\ \A m \in Existing : portmaps'[m] = portmaps[m]
      /\ \A m, a \in Existing : Earlier(a, m)' <=> Earlier(a, m)
      /\ \A m \in Existing : ~Earlier(n, m)'
      /\ \A m \in Existing : ValidateStandalone(m)' = ValidateStandalone(m)
  BY ChecksStay
<1>2. \A m \in Existing : Of(m)' = Of(m)
  BY <1>1 DEF Of
<1>3. \A m \in Existing : m \in Valid(c)' <=> m \in Valid(c)
  BY <1>1, <1>2 DEF Valid, Group
<1>4. Valid(c) \subseteq Existing /\ Valid(c)' \subseteq Existing'
  BY DEF Valid, Group
<1>5. ASSUME NEW m \in Existing, NEW h \in Existing'
      PROVE  <<h, m>> \in Blocks' <=> <<h, m>> \in Blocks
  <2>1. CASE h = n
    <3>1. <<h, m>> \notin Blocks'
      BY <1>1, <2>1 DEF Blocks, Before
    <3>2. <<h, m>> \notin Blocks
      BY <1>1, <2>1 DEF Blocks, Before
    <3>. QED  BY <3>1, <3>2
  <2>2. CASE h \in Existing
    <3>1. <<h, m>> \in Before' <=> <<h, m>> \in Before
      BY <1>1, <2>2 DEF Before
    <3>2. Of(h)' = Of(h) /\ Of(m)' = Of(m)
      BY <1>2, <2>2
    <3>. QED  BY <3>1, <3>2 DEF Blocks, Overlap
  <2>. QED  BY <1>1, <2>1, <2>2
<1>6. Solves(Held(c), Valid(c), Blocks)
  BY HeldSolves
<1>7. Solves(Held(c)', Valid(c)', Blocks')
  BY HeldSolvesNext DEF Solves
<1>8. Solves(Held(c)' \cap Valid(c), Valid(c), Blocks)
  <2>1. \A m \in Valid(c) : m \in Held(c)' <=> \A h \in Held(c)' : <<h, m>> \notin Blocks
    BY <1>3, <1>4, <1>5, <1>7 DEF Solves
  <2>2. \A h, m : <<h, m>> \in Blocks => h \in Existing
    BY DEF Blocks, Before
  <2>3. Held(c)' \cap Existing \subseteq Valid(c)
    BY <1>3, <1>7 DEF Solves
  <2>. QED  BY <2>1, <2>2, <2>3 DEF Solves
<1>9. Founded(Valid(c), Before) /\ Blocks \subseteq Before
  BY <1>4, EarliestExists DEF Blocks
<1>10. Held(c)' \cap Valid(c) = Held(c)
  BY <1>6, <1>8, <1>9, SolvesUnique
<1>. QED  BY <1>3, <1>6, <1>7, <1>10 DEF Solves

LEMMA LaterStep ==
  ASSUME Objects, Objects', [Next]_vars,
         NEW n \in Names, portmaps[n] = Absent, portmaps'[n] # Absent,
         \A o \in Existing : portmaps[o].created < now,
         NEW o \in Existing
  PROVE  Reason(o)' = Reason(o)
<1>1. \E s \in PortMapSpec : Create(n, s)
  <2>1. \A m \in Names : Delete(m) => portmaps'[n] = Absent
    BY DEF Delete, Objects
  <2>2. \A m \in Names : \A s : Create(m, s) /\ m # n => portmaps'[n] = Absent
    BY DEF Create, Objects
  <2>3. portmaps' # portmaps
    OBVIOUS
  <2>. QED  BY <2>1, <2>2, <2>3 DEF Next, vars, PodChanges, NodeChanges, Second
<1>2. PICK s \in PortMapSpec : Create(n, s)
  BY <1>1
<1>3. portmaps'[o] = portmaps[o] /\ ValidateStandalone(o)' = ValidateStandalone(o)
  BY <1>2, ChecksStay
<1>4. Of(o)' = Of(o)
  BY <1>3 DEF Of
<1>5. \A c : o \in Held(c)' <=> o \in Held(c)
  BY <1>2, HeldStays
<1>6. Accepted(o)' <=> Accepted(o)
  BY <1>4, <1>5 DEF Accepted
<1>. QED  BY <1>3, <1>6 DEF Reason

-----------------------------------------------------------------------------
(* The theorems.                                                           *)

LEMMA ObjectsAlways == Spec => []Objects
<1>1. Init => Objects
  BY ObjectsInit
<1>. QED  BY <1>1, ObjectsNext, PTL DEF Spec

LEMMA RPObjectsAlways == RPSpec => []Objects
<1>1. RPInit => Objects
  BY ObjectsInit
<1>. QED  BY <1>1, ObjectsRPNext, PTL DEF RPSpec

(***************************************************************************)
(* resolveConflicts gives every port of a class and protocol to at most    *)
(* one accepted PortMap, for any PortMaps created and deleted in any       *)
(* order.                                                                  *)
(***************************************************************************)
THEOREM PortMapsHeldDisjoint == Spec => []HeldDisjoint
<1>1. Objects => HeldDisjoint
  BY HeldDisjointHolds
<1>. QED  BY <1>1, ObjectsAlways, PTL

(***************************************************************************)
(* A PortMap that resolveConflicts refuses with PortConflict lost a port   *)
(* to an earlier PortMap of its class that is itself accepted.             *)
(***************************************************************************)
THEOREM PortMapsConflictHasHolder == Spec => []ConflictHasHolder
<1>1. Objects => ConflictHasHolder
  BY ConflictHasHolderHolds
<1>. QED  BY <1>1, ObjectsAlways, PTL

(***************************************************************************)
(* sharedTarget leaves a translating PortMap alone on its Service port.    *)
(***************************************************************************)
THEOREM PortMapsOneReturnRule == Spec => []OneReturnRule
<1>1. Objects => OneReturnRule
  BY OneReturnRuleHolds
<1>. QED  BY <1>1, ObjectsAlways, PTL

(***************************************************************************)
(* Creating a PortMap a second after all others changes the Accepted       *)
(* reason of none of them.                                                 *)
(***************************************************************************)
THEOREM PortMapsLaterChangesNothing == Spec => LaterChangesNothing
<1>1. ASSUME Objects, Objects', [Next]_vars
      PROVE  [\A n \in Names :
                /\ portmaps[n] = Absent /\ portmaps'[n] # Absent
                /\ \A o \in Existing : portmaps[o].created < now
                => \A o \in Existing : Reason(o)' = Reason(o)]_vars
  BY <1>1, LaterStep
<1>. QED  BY <1>1, ObjectsAlways, PTL DEF Spec, LaterChangesNothing

(***************************************************************************)
(* A node that decideRole makes a programmer has the pod, or neededPairs   *)
(* asks for a return link between it and the pod's node, in every cluster  *)
(* of Spec and at every point of the agents' passes in RPSpec.             *)
(***************************************************************************)
THEOREM PortMapsWayBack == (Spec => []WayBack) /\ (RPSpec => []WayBack)
BY WayBackHolds, PTL

(***************************************************************************)
(* Under Single no node but the pod's programs a mapping that has a ready  *)
(* pod on an accepting node, and that node does: chooseEndpoint finds one. *)
(***************************************************************************)
THEOREM PortMapsLocalFirst == (Spec => []LocalFirst) /\ (RPSpec => []LocalFirst)
<1>1. Objects => LocalFirst
  BY LocalFirstHolds
<1>. QED  BY <1>1, ObjectsAlways, RPObjectsAlways, PTL

(***************************************************************************)
(* statusOwner names one node of the cluster for each PortMap.             *)
(***************************************************************************)
THEOREM PortMapsOneWriter == (Spec => []OneWriter) /\ (RPSpec => []OneWriter)
<1>1. Objects => OneWriter
  BY OneWriterHolds
<1>. QED  BY <1>1, ObjectsAlways, RPObjectsAlways, PTL

=============================================================================
