--------------------------- MODULE MCWalletLedger ---------------------------
(* WalletLedger on small instances. *)
EXTENDS WalletLedger

CONSTANTS a1, t2, c2

OneAccount == [t \in Transaction |-> a1]

\* Repeated races move a share without bound: once it is beyond MaxShare
\* either way, what follows is not explored.
MaxShare == 1
\* Two requests overlap in t1; t2 has one at a time.
WithinBounds ==
  /\ \A t \in Transaction : counted[t] \in (-MaxShare)..MaxShare
  /\ request[c2].tx # t2
=============================================================================
