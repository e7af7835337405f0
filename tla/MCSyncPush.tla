----------------------------- MODULE MCSyncPush -----------------------------
(* SyncPush on a small instance. *)
EXTENDS SyncPush, TLC

CONSTANTS o1, o2, o3, r1, c1, c2

\* What the database or the handler refuses the second time: the delete of a
\* deleted row, a tag with a slug that is taken, an assignment undone.
Kinds3 == (o1 :> "delete") @@ (o2 :> "create.tag") @@ (o3 :> "unassign")

OneRecord == [op \in Op |-> r1]

\* Queued before the server's first write.
Dates == [op \in Op |-> 0]

\* By AppliedOnce an operation that has been applied twice is torn and says
\* nothing more; what follows need not be explored.
MaxApplied == 1

\* Two pushes overlap in o1.
WithinBounds ==
  /\ \A op \in Op : applied[op] <= MaxApplied
  /\ request[c2].batch \subseteq {o1}
=============================================================================
