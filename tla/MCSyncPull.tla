----------------------------- MODULE MCSyncPull -----------------------------
(* SyncPull on a small instance. *)
EXTENDS SyncPull

CONSTANTS r1, r2, r3

\* r1 goes through all its states; r2 and r3 are there to share its pages.
\* UpToDate says nothing of a record that was hit and has no fresh date since.
WithinBounds ==
  /\ \A r \in {r2, r3} : row[r].rev <= 1 /\ (write[r].on => row[r].rev = 0)
  /\ late \cup undated \cup split \subseteq {r1}
=============================================================================
