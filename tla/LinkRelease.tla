----------------------------- MODULE LinkRelease -----------------------------
(***************************************************************************)
(* The pool of LinkPool under the timing that docs/decisions.md relies on  *)
(* for releasing Links without a lock ("clock skew between nodes is        *)
(* irrelevant against 24 hours"): what changes is seen by every agent, and *)
(* dealt with, before the clock moves on by one tick, where unusedLinkAge  *)
(* is MaxAge ticks.  An agent passes at least once a minute, so a tick     *)
(* stands for hours.                                                       *)
(***************************************************************************)
EXTENDS LinkPool

VARIABLE quiet   \* quiet[s]: the ticks in a row at which no host had slot s,
                 \* counted up to MaxAge + 1

timedVars == <<vars, quiet>>

InUse(s) == \E a \in Nodes : \E p \in prog[a] : p[2] = s

\* An agent that has caught up and has nothing left to do.
Settled(a) ==
  /\ behind[a] = {}
  /\ view[a] = holders
  /\ pass[a].writes = {}
  /\ prog[a] = Desired(a, cache[a], view[a])
  /\ LinkActions(a, cache[a], view[a]) = {}

TimelyTick ==
  /\ \A a \in Nodes : Settled(a)
  /\ Tick
  /\ quiet' = [s \in Slots |-> IF InUse(s) THEN 0
                               ELSE IF quiet[s] > MaxAge THEN quiet[s]
                               ELSE quiet[s] + 1]

TimelyInit == Init /\ quiet = [s \in Slots |-> 0]

TimelyNext == TimelyTick \/ (Others /\ UNCHANGED quiet)

TimelySpec == TimelyInit /\ [][TimelyNext]_timedVars

\* A Link that does not duplicate another is deleted only after a whole
\* unusedLinkAge in which no host carried its slot, however often its key was
\* needed and given up in between: any agent that sees the need again clears
\* UnusedSince, and the clock starts over.
QuietBeforeRelease ==
  [][\A s \in Slots :
       /\ link[s].key \in Keys
       /\ link'[s].key = Free
       /\ \A t \in Slots : t < s => /\ link[t].key # link[s].key
                                    /\ <<link[s].key, t>> \notin released
       => quiet[s] > MaxAge]_timedVars

=============================================================================
