------------------------- MODULE SlotNumbers_proof -------------------------
(***************************************************************************)
(* Proofs about the numbers of a slot, for all 1024 slots and any two      *)
(* underlays.                                                              *)
(***************************************************************************)
EXTENDS SlotNumbers, TLAPS

\* A slot is its low byte and the bits above it, and the mark keeps the two
\* apart (linkMark).
LEMMA SlotParts ==
  ASSUME NEW s \in AllSlots
  PROVE  /\ s % 256 \in 0 .. 255 /\ s \div 256 \in 0 .. 3
         /\ s = 256 * (s \div 256) + (s % 256)
  BY DEF AllSlots, LinkSlots

\* Links never meet in a number (linkMark, tableBase, vniBase, nthSlash31,
\* nthSlash127).
THEOREM NumbersApartHolds == NumbersApart
<1> SUFFICES ASSUME NEW s \in AllSlots, NEW t \in AllSlots, s # t
             PROVE  /\ LinkMark(s) # LinkMark(t)
                    /\ LinkTable(s) # LinkTable(t)
                    /\ LinkVni(s) # LinkVni(t)
                    /\ \A i, j \in {1, 2} : /\ Slash31(s)[i] # Slash31(t)[j]
                                            /\ Slash127(s)[i] # Slash127(t)[j]
  BY DEF NumbersApart
<1>1. LinkMark(s) # LinkMark(t)
  <2> DEFINE a == s % 256  b == s \div 256  c == t % 256  d == t \div 256
  <2>1. /\ a \in 0 .. 255 /\ b \in 0 .. 3 /\ s = 256 * b + a
        /\ c \in 0 .. 255 /\ d \in 0 .. 3 /\ t = 256 * d + c
    BY SlotParts
  <2>2. LinkMark(s) = MarkBase + a + b * 4096 /\ LinkMark(t) = MarkBase + c + d * 4096
    BY DEF LinkMark
  <2> HIDE DEF a, b, c, d
  <2>3. a + b * 4096 # c + d * 4096
    BY <2>1
  <2> QED
    BY <2>1, <2>2, <2>3 DEF MarkBase
<1>2. LinkTable(s) # LinkTable(t) /\ LinkVni(s) # LinkVni(t)
  BY DEF LinkTable, LinkVni, TableBase, VniBase, AllSlots, LinkSlots
<1>3. ASSUME NEW i \in {1, 2}, NEW j \in {1, 2}
      PROVE  Slash31(s)[i] # Slash31(t)[j] /\ Slash127(s)[i] # Slash127(t)[j]
  BY DEF Slash31, Slash127, LinkSubnet, LinkSubnet6, AllSlots, LinkSlots
<1> QED
  BY <1>1, <1>2, <1>3

\* A link's mark disturbs neither Cilium nor the blocked pods (linkMark).
THEOREM MarksClearHolds == MarksClear
<1> SUFFICES ASSUME NEW s \in AllSlots
             PROVE  /\ (LinkMark(s) \div 256) % 16 = 0
                    /\ LinkMark(s) \div 65536 = MarkBase \div 65536
                    /\ LinkMark(s) # EgressBlockedMark
  BY DEF MarksClear
<1> DEFINE a == s % 256  b == s \div 256
<1>1. a \in 0 .. 255 /\ b \in 0 .. 3
  BY SlotParts
<1>2. LinkMark(s) = MarkBase + a + b * 4096
  BY DEF LinkMark
<1> HIDE DEF a, b
<1>3. (LinkMark(s) \div 256) % 16 = 0
  BY <1>1, <1>2 DEF MarkBase
<1>4. LinkMark(s) \div 65536 = MarkBase \div 65536
  BY <1>1, <1>2 DEF MarkBase
<1>5. LinkMark(s) # EgressBlockedMark
  BY <1>1, <1>2 DEF MarkBase, EgressBlockedMark
<1> QED
  BY <1>3, <1>4, <1>5

\* A link's table and addresses are its own (tableBase, linkSubnet).
THEOREM TablesAndAddressesClearHolds == TablesAndAddressesClear
<1>1. ASSUME NEW s \in AllSlots
      PROVE  LinkTable(s) \notin ReservedTables /\ LinkTable(s) # EgressBlockedTable
  <2>1. s \in Int /\ 0 <= s /\ s <= 1023
    BY <1>1 DEF AllSlots, LinkSlots
  <2>2. LinkTable(s) \in Int /\ 10000 <= LinkTable(s) /\ LinkTable(s) <= 11023
    BY <2>1 DEF LinkTable, TableBase
  <2>3. \A t \in ReservedTables : t \in Int /\ t < 10000
    BY DEF ReservedTables
  <2> QED
    BY <2>2, <2>3 DEF EgressBlockedTable
<1>2. ASSUME NEW s \in AllSlots, NEW i \in {1, 2}
      PROVE  /\ Slash31(s)[i] \in LinkSubnet .. LinkSubnet + 2047
             /\ Slash31(s)[i] \notin SteerV4 .. SteerV4 + 255
             /\ LinkSubnet6 <= Slash127(s)[i] /\ Slash127(s)[i] < LinkSubnet6 + 65536
  <2> DEFINE x == Slash31(s)[i]  y == Slash127(s)[i]
  <2>1. s \in Int /\ 0 <= s /\ s <= 1023
    BY <1>2 DEF AllSlots, LinkSlots
  <2>2. x = 16384 + 2 * s \/ x = 16384 + 2 * s + 1
    BY <1>2 DEF Slash31, LinkSubnet
  <2>3. y = 65536 + 2 * s \/ y = 65536 + 2 * s + 1
    BY <1>2 DEF Slash127, LinkSubnet6
  <2> HIDE DEF x, y
  <2>4. x \in LinkSubnet .. LinkSubnet + 2047 /\ x \notin SteerV4 .. SteerV4 + 255
    BY <2>1, <2>2 DEF LinkSubnet, SteerV4
  <2>5. LinkSubnet6 <= y /\ y < LinkSubnet6 + 65536
    BY <2>1, <2>3 DEF LinkSubnet6
  <2> QED
    BY <2>4, <2>5 DEF x, y
<1> QED
  BY <1>1, <1>2 DEF TablesAndAddressesClear

\* The two ends of a link size it alike (linkMTUFor, LinkMTUBetween).
THEOREM EndsAgreeHolds == EndsAgree
<1>1. \A u, v \in Nat \ {0}, outer4 \in BOOLEAN : LinkMTU(u, v, outer4) = LinkMTU(v, u, outer4)
  BY DEF LinkMTU, VxlanOverhead
<1> QED
  BY <1>1 DEF EndsAgree, HasIPv6

\* The end-around carry, without division (onesAdd).
LEMMA OnesAddCases ==
  ASSUME NEW a \in Words, NEW b \in Words
  PROVE  OnesAdd(a, b) = IF a + b < 65536 THEN a + b ELSE a + b - 65535
<1>1. a \in Nat /\ b \in Nat /\ a < 65536 /\ b < 65536
  BY DEF Words
<1>2. CASE a + b < 65536
  <2>1. (a + b) % 65536 = a + b /\ (a + b) \div 65536 = 0
    BY <1>1, <1>2
  <2> QED
    BY <1>1, <1>2, <2>1 DEF OnesAdd
<1>3. CASE ~(a + b < 65536)
  <2>1. (a + b) % 65536 = a + b - 65536 /\ (a + b) \div 65536 = 1
    BY <1>1, <1>3
  <2> QED
    BY <1>1, <1>3, <2>1 DEF OnesAdd
<1> QED
  BY <1>2, <1>3

\* The rewrite to a stand-in leaves checksums as they are (steerV6).
THEOREM ChecksumNeutralHolds == ChecksumNeutral
<1>1. ASSUME NEW want \in Words \ {0}, NEW have \in Words \ {0}
      PROVE  OnesAdd(have, StandInWord(want, have)) = want
  <2> DEFINE w == StandInWord(want, have)
  <2>1. /\ want \in Nat /\ 1 <= want /\ want < 65536
        /\ have \in Nat /\ 1 <= have /\ have < 65536
        /\ 65535 - have \in Words
    BY DEF Words
  <2>2. w = IF want <= have THEN want + 65535 - have ELSE want - have
    BY <2>1, OnesAddCases DEF StandInWord
  <2> HIDE DEF w
  <2>3. w \in Words
    BY <2>1, <2>2 DEF Words
  <2>4. OnesAdd(have, w) = IF have + w < 65536 THEN have + w ELSE have + w - 65535
    BY <2>3, OnesAddCases
  <2>5. OnesAdd(have, w) = want
    BY <2>1, <2>2, <2>4
  <2> QED
    BY <2>5 DEF w
<1>2. ASSUME NEW a \in Words, NEW b \in Words, a + b > 0
      PROVE  OnesAdd(a, b) \in Words \ {0}
  BY <1>2, OnesAddCases DEF Words
<1> QED
  BY <1>1, <1>2 DEF ChecksumNeutral

=============================================================================
