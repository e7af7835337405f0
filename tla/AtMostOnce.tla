----------------------------- MODULE AtMostOnce -----------------------------
(***************************************************************************)
(* What sync/push promises a device: an operation that it sends, however   *)
(* often, takes effect at one instant at most, after it was sent and       *)
(* before it hears of it, and what it hears is so.  SyncPush shows for     *)
(* which operations the code keeps the promise.                            *)
(***************************************************************************)
CONSTANT Op

VARIABLES
  told,   \* [operations whose promise holds so far -> what the device has
          \* heard of it since it last sent it]
  done,   \* [those operations -> how often they have taken effect]
  twice   \* those that were sent while an earlier push of them was unanswered

Kept == DOMAIN told

Init ==
  /\ told = [op \in Op |-> "none"]
  /\ done = [op \in Op |-> 0]
  /\ twice = {}

\* again: those of ops of which an earlier push is not answered.
Send(ops, again) ==
  /\ \A op \in ops : told[op] # "accepted"
  /\ told' = [op \in Kept |-> IF op \in ops THEN "none" ELSE told[op]]
  /\ twice' = twice \cup again
  /\ UNCHANGED done

Apply(op) ==
  /\ done[op] = 0
  /\ op \in twice \/ told[op] = "none"
  /\ done' = [done EXCEPT ![op] = 1]
  /\ UNCHANGED <<told, twice>>

\* The verdicts of a push.  Only that of an operation sent twice may be an old
\* one: a rejection before it took effect.
Answer(ops, accepted) ==
  /\ \A op \in accepted : done[op] = 1
  /\ \A op \in ops \ twice : told[op] = "none" /\ (done[op] = 1 => op \in accepted)
  /\ told' = [op \in Kept |-> IF op \notin ops THEN told[op]
                              ELSE IF op \in accepted THEN "accepted" ELSE "rejected"]
  /\ UNCHANGED <<done, twice>>

\* The promise is broken for ops: nothing is said of them any more.
Break(ops) ==
  /\ told' = [op \in Kept \ ops |-> told[op]]
  /\ done' = [op \in Kept \ ops |-> done[op]]
  /\ twice' = twice \ ops

Next ==
  \/ \E op \in Kept : Apply(op)
  \/ \E ops \in SUBSET Kept :
       \/ \E again \in SUBSET ops : Send(ops, again)
       \/ \E accepted \in SUBSET ops : Answer(ops, accepted)
       \/ Break(ops)

Spec == Init /\ [][Next]_<<told, done, twice>>
=============================================================================
