---- MODULE DecisionRecord ----
(***************************************************************************)
(* What the answers of people and their notes in the vault promise: an      *)
(* answer is given once and stays; a decision worth keeping is queued with   *)
(* the answer and later settled once, as published, which takes a note of it *)
(* in the vault, or as blocked, which leaves it to a person.                 *)
(***************************************************************************)
CONSTANTS Interaction, Answer, None

VARIABLES answer, fate, written

vars == <<answer, fate, written>>

Init ==
    /\ answer = [i \in Interaction |-> None]
    /\ fate = [i \in Interaction |-> "none"]
    /\ written = {}

Give(i, a) ==
    /\ answer[i] = None
    /\ answer' = [answer EXCEPT ![i] = a]
    /\ \E f \in {"none", "pending"} : fate' = [fate EXCEPT ![i] = f]
    /\ UNCHANGED written

Write(i) ==
    /\ fate[i] = "pending"
    /\ written' = written \cup {i}
    /\ UNCHANGED <<answer, fate>>

Settle(i) ==
    /\ fate[i] = "pending"
    /\ \/ i \in written /\ fate' = [fate EXCEPT ![i] = "published"]
       \/ fate' = [fate EXCEPT ![i] = "blocked"]
    /\ UNCHANGED <<answer, written>>

Next == \E i \in Interaction : Write(i) \/ Settle(i) \/ \E a \in Answer : Give(i, a)

Spec == Init /\ [][Next]_vars

====
