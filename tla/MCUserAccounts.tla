--------------------------- MODULE MCUserAccounts ---------------------------
EXTENDS UserAccounts, TLC
CONSTANTS r1, r2, d1, d2, t1, t2, t3, k1, k2, k3

\* The tokens are not in it: telling them apart costs less than sorting them.
Alike == Permutations({r1, r2}) \cup Permutations(Device) \cup Permutations(Key)

\* Bound: a behaviour draws refresh tokens or changes pictures.  The two share
\* the row and the slots of the requests, and no step touches both.
NoPictureYet ==
  /\ torn = {} /\ leaked = {} /\ \A p \in Picture : storage[p] = {}
  /\ \A r \in Request : Op(r) # "profile"
NoTokenYet == Drawn = {} /\ \A r \in Request : Op(r) # "issue"

Apart == NoPictureYet \/ NoTokenYet
=============================================================================
