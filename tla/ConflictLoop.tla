---------------------------- MODULE ConflictLoop ----------------------------
(***************************************************************************)
(* The loop of resolveConflicts (internal/reconcile/conflicts.go) as it is *)
(* written: a class's mappings sorted with earlier, walked once, the       *)
(* holders collected on the way.  PortMaps says what the holders are.      *)
(***************************************************************************)
EXTENDS PortMaps, SequencesExt

\* Mutant of Hold: a mapping that fails its own checks still keeps its ports.
HoldRefused(held, n) == IF ~Taken(n, held) THEN held \cup {n} ELSE held

\* One round: n joins the holders if its checks pass and its ports are free.
Hold(held, n) ==
  IF ValidateStandalone(n) = "Valid" /\ ~Taken(n, held) THEN held \cup {n} ELSE held

\* The holders when the loop over class c is through.
ResolveConflicts(c) == FoldLeft(Hold, {}, SetToSortSeq(Group(c), Earlier))

\* One walk in the order of earlier finds exactly the holders PortMaps decides
\* with: no mapping's fate depends on one that is looked at after it.
LoopDecides == \A c \in Classes : ResolveConflicts(c) = Held(c)

=============================================================================
