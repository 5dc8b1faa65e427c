---- MODULE Alerting ----
(***************************************************************************)
(* `harness alert`: what the doctor's report finds is compared with the      *)
(* state file of the last run, and what is due is sent to a channel, one     *)
(* message at a time.  A run may be killed at any point and a message may be *)
(* refused, or arrive although the sender is told that it was refused.       *)
(*                                                                           *)
(* Time is counted in ticks and kept as ages, up to the largest that makes a *)
(* difference; a run takes less than a tick.  One run at a time: the others  *)
(* find the lock of the job taken and are skipped.                           *)
(***************************************************************************)
EXTENDS Integers

CONSTANTS
    Checks,         \* number of checks; the report lists them in this order
    Never,          \* no message yet
    Cooldown,       \* AlertPolicy, in ticks: between two messages,
    Repeat,         \* between two messages about an escalated alert,
    Escalation      \* until an alert is escalated

Check == 1 .. Checks

ASSUME CheckAssumption == Checks \in Nat \ {0}
ASSUME NeverAssumption == Never \notin Nat
ASSUME PolicyAssumption ==
    Cooldown \in Nat \ {0} /\ Repeat \in Nat \ {0} /\ Escalation \in Nat \ {0}

VARIABLES
    failing,    \* the checks of the report that are not ok
    slack,      \* operations.alerts.provider is slack, and not none
    file,       \* the state file: the entry of each check
    run,        \* the run: where it stands, the message at hand, those that follow
    told        \* the world: what the channel last said about a check

vars == <<failing, slack, file, run, told>>

----------------------------------------------------------------------------
(* The state file                                                          *)

Longest == IF Cooldown > Repeat THEN Cooldown ELSE Repeat

Message == 0 .. Longest \cup {Never}    \* the age of a message

NoEntry == [state |-> "none", seen |-> 0, notified |-> Never, emitted |-> Never,
            escalated |-> FALSE]

Entry == [state : {"none", "active", "resolved"}, seen : 0 .. Escalation,
          notified : Message, emitted : Message, escalated : BOOLEAN]

Active(c) == file[c].state = "active"

Resolved(c) == file[c].state = "resolved"

\* The alert of an entry is old enough to be escalated.
Late(e) == e.seen = Escalation

Sum(age, most) == IF age < most THEN age + 1 ELSE most

Older(e) ==
    IF e.state = "none" THEN e
    ELSE [e EXCEPT !.seen = IF e.state = "active" THEN Sum(@, Escalation) ELSE 0,
                   !.notified = IF @ = Never THEN Never ELSE Sum(@, Longest),
                   !.emitted = IF @ = Never THEN Never ELSE Sum(@, Longest)]

Init ==
    /\ failing = {}
    /\ slack \in BOOLEAN
    /\ file = [c \in Check |-> NoEntry]
    /\ run = [pc |-> "idle", at |-> 1, queue |-> {}]
    /\ told = [c \in Check |-> "nothing"]

----------------------------------------------------------------------------
(* A run                                                                   *)

\* Fault: a resolution keeps what the entry says of the alert.
MergedAsItWas(c) ==
    IF c \in failing
    THEN IF Active(c) THEN file[c] ELSE [NoEntry EXCEPT !.state = "active"]
    ELSE IF Active(c) THEN [file[c] EXCEPT !.state = "resolved", !.seen = 0] ELSE file[c]

\* The entry of a check after comparing report and file: an alert that is gone
\* becomes a resolution, one that is back is new.
Merged(c) ==
    IF c \in failing
    THEN IF Active(c) THEN file[c] ELSE [NoEntry EXCEPT !.state = "active"]
    ELSE IF Active(c) THEN [NoEntry EXCEPT !.state = "resolved"] ELSE file[c]

\* The last message of an entry as far as this provider is concerned.
Last(e) == IF slack THEN e.notified ELSE e.emitted

Interval(e) == IF (slack /\ e.escalated) \/ (~slack /\ Late(e)) THEN Repeat ELSE Cooldown

\* Fault: an alert is sent when it is new, and again only after the interval.
DueOnce(e) == e.state # "none" /\ (Last(e) = Never => e.seen = 0)

\* Fault: what is active is due, and nothing else.
DueActive(e) ==
    /\ e.state = "active"
    /\ Last(e) = Never \/ (Late(e) /\ ~e.escalated) \/ Last(e) >= Interval(e)

Due(e) ==
    \/ e.state # "none" /\ Last(e) = Never
    \/ /\ e.state = "active"
       /\ \/ Late(e) /\ ~e.escalated
          \/ Last(e) >= Interval(e)

\* evaluate_alerts up to the first save
Evaluate ==
    LET after == [c \in Check |-> Merged(c)]
        due == {c \in Check : Due(after[c])}
    IN  /\ run.pc = "idle"
        /\ file' = after
        /\ run' = [run EXCEPT !.pc = IF due = {} THEN "idle" ELSE "next", !.queue = due]
        /\ UNCHANGED <<failing, slack, told>>

\* Alerts in the order of the report, then resolutions.
First(c) ==
    /\ c \in run.queue
    /\ \A d \in run.queue : Active(d) => Active(c) /\ c <= d

Said(c) ==
    IF Resolved(c) THEN "resolved" ELSE IF Late(file[c]) THEN "urgent" ELSE "alert"

Reach(c) == told' = [told EXCEPT ![c] = Said(c)]

\* The webhook accepts the message.
Deliver(c) ==
    /\ run.pc = "next" /\ slack
    /\ First(c)
    /\ Reach(c)
    /\ run' = [pc |-> "sent", at |-> c, queue |-> run.queue \ {c}]
    /\ UNCHANGED <<failing, slack, file>>

Return == run' = [run EXCEPT !.pc = "idle", !.at = 1, !.queue = {}]

\* It refuses the message, or the answer gets lost: the file is saved as it is,
\* and the run ends with what it has left to send.
Refuse(c) ==
    /\ run.pc = "next" /\ slack
    /\ First(c)
    /\ Reach(c) \/ UNCHANGED told
    /\ Return
    /\ UNCHANGED <<failing, slack, file>>

\* Fault: the record of a message covers those that are still to be sent.
RecordedAll(c) ==
    [d \in Check |->
        IF d # c /\ d \notin run.queue THEN file[d]
        ELSE IF Resolved(d) THEN NoEntry
        ELSE [file[d] EXCEPT !.emitted = 0, !.notified = 0, !.escalated = Late(file[d])]]

\* What the file says once the message is sent: a resolution is over.
Recorded(c) ==
    [file EXCEPT ![c] =
        IF Resolved(c) THEN NoEntry
        ELSE [@ EXCEPT !.emitted = 0, !.notified = 0, !.escalated = Late(file[c])]]

Continue(queue) == IF queue = {} THEN Return
                   ELSE run' = [pc |-> "next", at |-> 1, queue |-> queue]

Record ==
    /\ run.pc = "sent"
    /\ file' = Recorded(run.at)
    /\ Continue(run.queue)
    /\ UNCHANGED <<failing, slack, told>>

\* Without a channel the message is part of the output, which the caller prints
\* at the end, and a resolution stays in the file.
Emit(c) ==
    /\ run.pc = "next" /\ ~slack
    /\ First(c)
    /\ file' = [file EXCEPT ![c].emitted = 0,
                            ![c].escalated = IF Active(c) THEN Late(file[c]) ELSE @]
    /\ Continue(run.queue \ {c})
    /\ UNCHANGED <<failing, slack, told>>

\* The process dies, or a save raises.
Crash ==
    /\ run.pc # "idle"
    /\ Return
    /\ UNCHANGED <<failing, slack, file, told>>

----------------------------------------------------------------------------
(* The world                                                               *)

Age ==
    /\ run.pc = "idle"
    /\ file' = [c \in Check |-> Older(file[c])]
    /\ UNCHANGED <<slack, run, told>>

Tick == Age /\ UNCHANGED failing

\* A check fails, or is ok again.
Change(c) ==
    /\ failing' = (failing \cup {c}) \ (failing \cap {c})
    /\ UNCHANGED <<slack, file, run, told>>

\* The configuration is changed between two runs.
Configure ==
    /\ run.pc = "idle"
    /\ slack' = ~slack
    /\ UNCHANGED <<failing, file, run, told>>

Work == Evaluate \/ Record \/ \E c \in Check : Deliver(c) \/ Emit(c)

Next == Work \/ Crash \/ Tick \/ Configure \/ \E c \in Check : Refuse(c) \/ Change(c)

Spec == Init /\ [][Next]_vars

\* The scheduler starts the job again and again, time goes on, and neither the
\* webhook nor whatever kills a run stops the same step each time.
Fairness ==
    /\ WF_vars(Evaluate) /\ SF_vars(Tick) /\ SF_vars(Record)
    /\ \A c \in Check : SF_vars(Deliver(c)) /\ WF_vars(Emit(c))

FairSpec == Spec /\ Fairness

----------------------------------------------------------------------------
(* Properties                                                              *)

Raised(c) == told[c] \in {"alert", "urgent"}

\* What the person at the channel is promised.
Promise == INSTANCE Alarm WITH
    open <- slack,
    noticed <- {c \in Check : Active(c)},
    told <- [c \in Check |-> IF Raised(c) THEN "raised" ELSE told[c]]

TypeOK ==
    /\ failing \subseteq Check
    /\ slack \in BOOLEAN
    /\ file \in [Check -> Entry]
    /\ run \in [pc : {"idle", "next", "sent"}, at : Check, queue : SUBSET Check]
    /\ told \in [Check -> {"nothing", "alert", "urgent", "resolved"}]
    /\ \A c \in run.queue : file[c].state # "none"
    /\ \A c \in Check : file[c].state # "active" => file[c].notified = Never

\* The file calls an alert notified only when the channel has said it, so that
\* nobody waits for the cooldown of a message that was never sent.
NotifiedIsTold == \A c \in Check : file[c].notified # Never => Raised(c)

\* A check that keeps failing is reported, in the end as urgent, and again and
\* again.
FailureIsTold ==
    \A c \in Check : <>[](c \in failing /\ slack) =>
        <>[](told[c] = "urgent") /\ []<><<told[c] = "urgent" /\ Deliver(c)>>_vars

\* Runs, messages and state file keep the promise of Alarm: nothing is said of
\* a check but what the last comparison found, and it is said in the end.
KeepsAlarm == Promise!FairSpec

====
