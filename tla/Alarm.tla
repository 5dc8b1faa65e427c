---- MODULE Alarm ----
(***************************************************************************)
(* What `harness alert` promises the person it writes to: what the report    *)
(* finds is noticed, what is noticed is said while there is a channel, and   *)
(* what was said is taken back once it is over.  Neither files nor runs nor  *)
(* messages appear here.                                                     *)
(***************************************************************************)
CONSTANT Check      \* the checks of the report

VARIABLES
    failing,    \* the checks that are not ok
    open,       \* there is a channel
    noticed,    \* the checks that the last look found failing
    told        \* what the channel last said about a check

vars == <<failing, open, noticed, told>>

TypeOK ==
    /\ failing \subseteq Check
    /\ open \in BOOLEAN
    /\ noticed \subseteq Check
    /\ told \in [Check -> {"nothing", "raised", "resolved"}]

Init ==
    /\ failing = {}
    /\ open \in BOOLEAN
    /\ noticed = {}
    /\ told = [c \in Check |-> "nothing"]

Look ==
    /\ noticed' = failing
    /\ UNCHANGED <<failing, open, told>>

Say(c, word) ==
    /\ open
    /\ told' = [told EXCEPT ![c] = word]
    /\ UNCHANGED <<failing, open, noticed>>

Raise(c) == c \in noticed /\ Say(c, "raised")

Resolve(c) == c \notin noticed /\ Say(c, "resolved")

Due(c) == c \in noticed <=> told[c] # "raised"

Tell(c) == Due(c) /\ (Raise(c) \/ Resolve(c))

Change(c) ==
    /\ failing' = (failing \cup {c}) \ (failing \cap {c})
    /\ UNCHANGED <<open, noticed, told>>

Switch == open' = ~open /\ UNCHANGED <<failing, noticed, told>>

Next == Look \/ Switch \/ \E c \in Check : Raise(c) \/ Resolve(c) \/ Change(c)

Spec == Init /\ [][Next]_vars

Fairness == WF_vars(Look) /\ \A c \in Check : WF_vars(Tell(c))

FairSpec == Spec /\ Fairness
====
