-------------------------- MODULE MCTransactionTags --------------------------
(* TransactionTags on a small instance. *)
EXTENDS TransactionTags, TLC

CONSTANTS g1, g2, g3, t1, n1, s1, s2, s3, r1, r2

\* "Mi casa" is looked for as s2, with the blank, and is stored as s1.
Lower == n1 :> s2
Normal == n1 :> s1

\* A transaction that has got past the limit, and a tag that was clobbered, say
\* nothing more; what follows need not be explored.
Undisturbed == unlimited = {} /\ clobbered = {}

\* No request reads what a pull was told: once there is a pull to speak of, one
\* request at a time is enough.
PullsApart ==
    (missed # {} \/ ended) => Cardinality({r \in Requests : ~Idle(r)}) <= 1

WithinBounds == Undisturbed /\ PullsApart

Alike == Permutations(Tags) \union Permutations(Requests)
=============================================================================
