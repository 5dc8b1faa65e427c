---- MODULE TaskLifecycle ----
(***************************************************************************)
(* What the task and attempt tables promise to whoever reads them, without  *)
(* claims, leases, checkpoints or calls: a task is worked on in attempts,   *)
(* one at a time; an attempt is opened once and closed once, together with  *)
(* the change of the task that its outcome stands for; a closed task has no *)
(* open attempt and stays as it is.  A parked task has none either, unless  *)
(* calls share it: then one may park it while another works, and only a     *)
(* cancellation closes the attempt that was left open.                     *)
(***************************************************************************)
EXTENDS Integers, Sequences

CONSTANT
    Shared  \* calls may work on the task next to each other

VARIABLES
    phase,  \* "pending", "working", "parked" or "closed"
    log     \* the outcomes of the attempts so far, "running" for an open one

Open(i) == i \in DOMAIN log /\ log[i] = "running"

NothingOpen == \A i \in DOMAIN log : ~Open(i)

Init == phase = "pending" /\ log = <<>>

\* A call takes the task for planning.
Take ==
    /\ phase = "pending" /\ phase' = "working"
    /\ UNCHANGED log

Begin ==
    /\ phase \in {"working", "parked"} /\ phase' = "working"
    /\ NothingOpen
    /\ log' = Append(log, "running")

\* The outcome of an attempt and what becomes of the task.
Outcomes == { <<"completed", "closed">>, <<"failed", "closed">>,
              <<"failed", "working">>, <<"waiting", "parked">>,
              <<"cancelled", "closed">> }

Close ==
    \E i \in DOMAIN log, outcome \in Outcomes :
        /\ phase = "working" \/ (Shared /\ phase = "parked" /\ outcome[1] = "cancelled")
        /\ Open(i)
        /\ log' = [log EXCEPT ![i] = outcome[1]]
        /\ phase' = outcome[2]

\* A resumed wait is not over yet, or nobody was at work when it was cancelled.
Leave ==
    /\ \/ phase = "working" /\ phase' = "parked" /\ (NothingOpen \/ Shared)
       \/ phase # "closed" /\ phase' = "closed" /\ NothingOpen
    /\ UNCHANGED log

Next == Take \/ Begin \/ Close \/ Leave

Spec == Init /\ [][Next]_<<phase, log>>

====
