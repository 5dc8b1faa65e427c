---- MODULE Operations ----
(***************************************************************************)
(* The scheduled jobs of one host together: backups and drills write the     *)
(* receipts, the doctor's report judges their age, and `harness alert`, of    *)
(* which this module assumes what Alarm promises, tells a person.  The jobs   *)
(* run at the same time: `alert` has a lock of its own.                      *)
(***************************************************************************)
EXTENDS Backup

VARIABLES open, noticed, told   \* of Alarm

\* The two checks of inspect_database that read receipts.
Report == {c \in {"backup", "drill"} : IF c = "backup" THEN ~BackupFresh ELSE ~DrillFresh}

Alert == INSTANCE Alarm WITH Check <- {"backup", "drill"}, failing <- Report

alerts == <<open, noticed, told>>

system == <<vars, alerts>>

SystemInit ==
    /\ Init
    /\ open = TRUE
    /\ noticed = {}
    /\ told = [c \in {"backup", "drill"} |-> "nothing"]

\* The jobs beside `alert`, which runs at any moment of theirs.
Beside(job) == job /\ UNCHANGED alerts

Look == UNCHANGED vars /\ Alert!Look

Tell(c) == UNCHANGED vars /\ Alert!Tell(c)

SystemNext == Beside(Next) \/ Look \/ \E c \in {"backup", "drill"} : Tell(c)

SystemSpec == SystemInit /\ [][SystemNext]_system

\* Nobody has to run a backup: what is lost must be told all the same.
SystemFairness ==
    /\ SF_system(Beside(Tick)) /\ WF_system(Beside(Fail)) /\ WF_system(Beside(GiveUp))
    /\ WF_system(Look) /\ \A c \in {"backup", "drill"} : WF_system(Tell(c))

FairSystem == SystemSpec /\ SystemFairness

\* When nothing can be restored any more, the person is told of both checks in
\* the end, although no file of this host says that anything was lost.
LossIsTold == ~Restorable ~> (Restorable \/ \A c \in DOMAIN told : told[c] = "raised")

====
