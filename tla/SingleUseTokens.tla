-------------------------- MODULE SingleUseTokens ---------------------------
(***************************************************************************)
(* What the Taskiti app is promised of its refresh tokens: a token works   *)
(* until it is exchanged for another, which happens once, at one instant,  *)
(* and nothing that is done with other tokens ends it.  UserAccounts shows *)
(* for which tokens the code keeps the promise.                            *)
(***************************************************************************)
CONSTANTS Token, None

VARIABLES
  heir,    \* [tokens given out, whose promise holds so far -> the token each
           \* was exchanged for, if it was]
  usable,  \* those that can be exchanged
  over,    \* those whose time was over, or whose exchange failed
  broken   \* tokens whose promise was broken

Kept == DOMAIN heir
Fresh == Token \ (Kept \cup broken)

Init ==
  /\ heir = [t \in {} |-> None]
  /\ usable = {} /\ over = {} /\ broken = {}

\* For a login, or for a token whose promise was broken.
GiveOut(t) ==
  /\ t \in Fresh
  /\ heir' = [u \in Kept \cup {t} |-> IF u = t THEN None ELSE heir[u]]
  /\ usable' = usable \cup {t}
  /\ UNCHANGED <<over, broken>>

Exchange(t, new) ==
  /\ t \in usable /\ heir[t] = None
  /\ new \in Fresh
  /\ heir' = [u \in Kept \cup {new} |-> IF u = t THEN new ELSE IF u = new THEN None ELSE heir[u]]
  /\ usable' = (usable \ {t}) \cup {new}
  /\ UNCHANGED <<over, broken>>

\* Its time is over, or a request for its exchange fails; one that is being
\* exchanged at that time may still be usable.
End(t) ==
  /\ t \in Kept
  /\ over' = over \cup {t}
  /\ usable' \in {usable, usable \ {t}}
  /\ UNCHANGED <<heir, broken>>

\* The promise is broken for t: nothing is said of it any more.
Break(t) ==
  /\ t \in Kept
  /\ heir' = [u \in Kept \ {t} |-> heir[u]]
  /\ usable' = usable \ {t}
  /\ over' = over \ {t}
  /\ broken' = broken \cup {t}

Next ==
  \E t \in Token :
    \/ GiveOut(t) \/ End(t) \/ Break(t)
    \/ \E new \in Token : Exchange(t, new)

Spec == Init /\ [][Next]_<<heir, usable, over, broken>>
=============================================================================
