------------------------- MODULE MCTaskitiAnalytics -------------------------
(***************************************************************************)
(* One task, since a record counts each task by itself; days of two hours, *)
(* so that a day is still computed after the first purge of what was       *)
(* completed on it; three days of the past, enough for a streak to end.    *)
(***************************************************************************)
EXTENDS TaskitiAnalytics, TLC

CONSTANTS t1, j1, j2

Alike == Permutations(Job)

\* The streaks are checked on every past, and what follows on the one that has
\* a completion on every day but the last.
Past == 0 .. FirstDay - 1
OnePast == Past \subseteq Recorded /\ Past \cap Active = 0 .. FirstDay - 2

=============================================================================
