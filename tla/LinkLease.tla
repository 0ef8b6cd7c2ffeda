----------------------------- MODULE LinkLease -----------------------------
(***************************************************************************)
(* What the pool of Links promises, without agents, caches or versions: a  *)
(* slot is leased to one key at a time, a lease ends only when it has been *)
(* idle for too long or repeats a lease of its key on a lower slot, and a  *)
(* host uses a slot for a key only after that lease was granted.  LinkPool *)
(* implements it.                                                          *)
(***************************************************************************)
EXTENDS Integers

CONSTANTS Nodes, Keys, Slots, Free

VARIABLES
  lease,  \* lease[s]: the key that has slot s, Free, or something that is no key
  idle,   \* the leased slots that have been unused for too long
  past,   \* the leases <<key, slot>> that have ended at least once
  used    \* used[a]: the leases node a's host works with

vars == <<lease, idle, past, used>>

\* The lease was granted, now or earlier.
Granted(k, s) == lease[s] = k \/ <<k, s>> \in past

Init ==
  /\ \A s \in Slots : lease[s] \notin Keys
  /\ idle = {} /\ past = {}
  /\ used = [a \in Nodes |-> {}]

\* Nobody can take a slot that is not free.
Grant(s, k) ==
  /\ lease[s] = Free
  /\ lease' = [lease EXCEPT ![s] = k]
  /\ UNCHANGED <<idle, past, used>>

\* A lease ends as idle, or as one too many.
End(s) ==
  /\ lease[s] \in Keys
  /\ s \in idle \/ \E t \in Slots : t < s /\ Granted(lease[s], t)
  /\ lease' = [lease EXCEPT ![s] = Free]
  /\ past' = past \cup {<<lease[s], s>>}
  /\ idle' = idle \ {s}
  /\ UNCHANGED used

\* Leases become idle, and are needed again.
Idles(I) ==
  /\ \A s \in I : lease[s] \in Keys
  /\ idle' = I
  /\ UNCHANGED <<lease, past, used>>

\* A host is programmed.
Use(a, P) ==
  /\ \A p \in P : Granted(p[1], p[2])
  /\ used' = [used EXCEPT ![a] = P]
  /\ UNCHANGED <<lease, idle, past>>

Next ==
  \/ \E s \in Slots : End(s) \/ \E k \in Keys : Grant(s, k)
  \/ \E I \in SUBSET Slots : Idles(I)
  \/ \E a \in Nodes : \E P \in SUBSET (Keys \X Slots) : Use(a, P)

Spec == Init /\ [][Next]_vars

=============================================================================
