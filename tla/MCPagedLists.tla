---------------------------- MODULE MCPagedLists ----------------------------
(***************************************************************************)
(* Three rows and pages of one and of two: a walk of up to four pages, and *)
(* one whose second page is cut off in the middle of rows of one date.     *)
(***************************************************************************)
EXTENDS PagedLists, TLC

CONSTANTS r1, r2, r3

Alike == Permutations(Id)
AllLists ==
  {"history", "trash", "accounts", "deleted_accounts", "shared", "tasks", "all_tasks", "sync"}

\* What is written after the walk has ended or gone astray is not followed, nor
\* what was removed before it began.
Reading ==
  \/ walk.open /\ ~walk.astray
  \/ walk = Closed /\ \A r \in Id : rows[r] # Gone

=============================================================================
