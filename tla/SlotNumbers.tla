---------------------------- MODULE SlotNumbers ----------------------------
(***************************************************************************)
(* The numbers a slot stands for (internal/reconcile/links.go) and those   *)
(* it must stay clear of: marks, routing tables, VNIs, device names, the   *)
(* link's addresses and its size.  A bitwise or of bits that are clear is  *)
(* an addition here, and a shift a multiplication or a division.           *)
(*                                                                         *)
(* An IPv4 address of 169.254.0.0/16 is its low 16 bits, an IPv6 address   *)
(* of fd64:f5ac:e961::/96 its low 32.                                      *)
(***************************************************************************)
EXTENDS Integers

LinkSlots == 1024

MarkBase == 1802502144        \* 0x6b700000

\* The slot's low byte, and its next two bits at 12 and 13.
LinkMark(s) == MarkBase + (s % 256) + (s \div 256) * 4096

TableBase == 10000
LinkTable(s) == TableBase + s

VniBase == 7000
LinkVni(s) == VniBase + s

\* nthSlash31 of 169.254.64.0/21 and nthSlash127 of fd64:f5ac:e961::1:0/112.
LinkSubnet == 16384
LinkSubnet6 == 65536
Slash31(s) == <<LinkSubnet + 2 * s, LinkSubnet + 2 * s + 1>>
Slash127(s) == <<LinkSubnet6 + 2 * s, LinkSubnet6 + 2 * s + 1>>

\* buildLinkParams: the lower-named node has the low address.
Ends(pair, first) == IF first THEN pair ELSE <<pair[2], pair[1]>>

\* The stand-ins of steer.go are 169.254.76.1 to .254.
SteerV4 == 19456
StandIns == 254

Words == {w \in Nat : w < 65536}

\* The ones' complement sum of two 16-bit words, and the last word of an IPv6
\* stand-in: want is the sum of the local address, have that of the stand-in
\* up to there (steerV6).
OnesAdd(a, b) == ((a + b) % 65536) + ((a + b) \div 65536)
StandInWord(want, have) == OnesAdd(want, 65535 - have)

\* The mark and table of a fail-closed Egress (datapath/state.go).
EgressBlockedMark == MarkBase + 61440       \* 0x6b70f000
EgressBlockedTable == 11024

\* The tables of the kernel, Cilium and netbird, as the comment at tableBase
\* lists them, and the old per-class ones.
ReservedTables == {2004, 2005, 7120} \cup 200 .. 255

\* linkMTUFor: the smaller known underlay less the encapsulation, which is
\* larger unless both nodes have IPv4 addresses (outer4); 0 when this node's
\* own underlay is not known.
VxlanOverhead(outer4) == IF outer4 THEN 50 ELSE 70
Ipv6MinMTU == 1280

LinkMTU(this, peer, outer4) ==
  LET u == IF peer > 0 /\ peer < this THEN peer ELSE this IN
  IF u - VxlanOverhead(outer4) <= 0 THEN 0 ELSE u - VxlanOverhead(outer4)

\* Whether the link carries IPv6.
HasIPv6(this, peer, outer4) ==
  LinkMTU(this, peer, outer4) = 0 \/ LinkMTU(this, peer, outer4) >= Ipv6MinMTU

-----------------------------------------------------------------------------
(* What the numbers must be.                                               *)

AllSlots == 0 .. LinkSlots - 1

\* No two links of a node meet: not in mark, table, VNI or any address of
\* either family.
NumbersApart ==
  \A s, t \in AllSlots : s # t =>
    /\ LinkMark(s) # LinkMark(t)
    /\ LinkTable(s) # LinkTable(t)
    /\ LinkVni(s) # LinkVni(t)
    /\ \A i, j \in {1, 2} : Slash31(s)[i] # Slash31(t)[j] /\ Slash127(s)[i] # Slash127(t)[j]

\* A link's mark has none of the bits Cilium reads (mask 0xf00), keeps the
\* high half kuport knows its rules by, and is not the mark of a blocked pod.
MarksClear ==
  \A s \in AllSlots :
    /\ (LinkMark(s) \div 256) % 16 = 0
    /\ LinkMark(s) \div 65536 = MarkBase \div 65536
    /\ LinkMark(s) # EgressBlockedMark

\* A link's table is nobody else's, and its addresses stay inside the /21 and
\* out of the stand-ins' block.
TablesAndAddressesClear ==
  \A s \in AllSlots :
    /\ LinkTable(s) \notin ReservedTables /\ LinkTable(s) # EgressBlockedTable
    /\ \A i \in {1, 2} : /\ Slash31(s)[i] \in LinkSubnet .. LinkSubnet + 2047
                         /\ Slash31(s)[i] \notin SteerV4 .. SteerV4 + 255
                         /\ LinkSubnet6 <= Slash127(s)[i]
                         /\ Slash127(s)[i] < LinkSubnet6 + 65536

\* Two ends that have read the same two rows agree on the link's size and on
\* whether it carries IPv6; with a row missing they need not.
EndsAgree ==
  \A u, v \in Nat \ {0}, outer4 \in BOOLEAN :
    /\ LinkMTU(u, v, outer4) = LinkMTU(v, u, outer4)
    /\ HasIPv6(u, v, outer4) = HasIPv6(v, u, outer4)

\* A stand-in has exactly the sum of the address it stands for, so that TCP
\* and UDP checksums stay right (steerV6); no address that is not all zero has
\* the sum zero.
ChecksumNeutral ==
  /\ \A want, have \in Words \ {0} : OnesAdd(have, StandInWord(want, have)) = want
  /\ \A a, b \in Words : a + b > 0 => OnesAdd(a, b) \in Words \ {0}

=============================================================================
