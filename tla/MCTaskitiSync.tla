---------------------------- MODULE MCTaskitiSync ----------------------------
(* TaskitiSync on small instances. *)
EXTENDS TaskitiSync, TLC

CONSTANT MaxVersion

\* Offline edits raise versions without bound; the first few are explored.
WithinBounds ==
  \A t \in Task :
    row[t].version <= MaxVersion /\ \A d \in Device : copy[d][t].version <= MaxVersion

\* Delivered and VersionsGrow say nothing of a disturbed task, and it stays
\* one: what follows a disturbance need not be explored.
Undisturbed == WithinBounds /\ disturbed = {}

Symmetry == Permutations(Device) \cup Permutations(Task)
=============================================================================
