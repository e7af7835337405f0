---------------------------- MODULE AtomicLedger ----------------------------
(***************************************************************************)
(* What the wallet promises its users: every request about a transaction   *)
(* takes effect at one instant, and at every instant a transaction is in   *)
(* the balance exactly as its row says.  The code needs several statements *)
(* for a request; WalletLedger shows in which sense it keeps the promise,  *)
(* and for which transactions it breaks it.                                *)
(***************************************************************************)
EXTENDS Integers

CONSTANT Transaction

VARIABLE book  \* [transactions whose promise holds so far -> entry]

Settled == {"saving", "expense"}
Type == Settled \cup {"pending_payment"}

\* share: how often the amount is in the balance; a live saving is credited
\* once, a live expense debited once, and nothing else is in it.
Entry(type, deleted) ==
  [type |-> type, deleted |-> deleted,
   share |-> IF deleted \/ type \notin Settled THEN 0
             ELSE IF type = "saving" THEN 1 ELSE -1]

Kept == DOMAIN book
Set(t, entry) == book' = [book EXCEPT ![t] = entry]

Init == book = [t \in Transaction |-> Entry("unsaved", FALSE)]

Save(t, type) ==
  /\ book[t].type = "unsaved"
  /\ Set(t, Entry(type, FALSE))

\* Once, and never of a payment in the trash.
Complete(t, type) ==
  /\ book[t] = Entry("pending_payment", FALSE)
  /\ Set(t, Entry(type, FALSE))

\* Deleting or restoring moves the balance at most once, however often it is
\* asked for, and never changes what is deleted or restored.
Delete(t) ==
  /\ book[t].type \in Type
  /\ Set(t, Entry(book[t].type, TRUE))

Restore(t) ==
  /\ book[t].type \in Type
  /\ Set(t, Entry(book[t].type, FALSE))

\* The rows ts go with their account, for ever.
Purge(ts) ==
  /\ \A t \in ts : book[t].type \in Type
  /\ book' = [t \in Kept |-> IF t \in ts THEN Entry("purged", FALSE) ELSE book[t]]

\* The promise is broken for ts: nothing is said of them any more.
Break(ts) == book' = [t \in Kept \ ts |-> book[t]]

Next ==
  \/ \E t \in Kept :
       \/ \E type \in Type : Save(t, type)
       \/ \E type \in Settled : Complete(t, type)
       \/ Delete(t)
       \/ Restore(t)
  \/ \E ts \in SUBSET Kept : Purge(ts) \/ Break(ts)

Spec == Init /\ [][Next]_book
=============================================================================
