---- MODULE DecisionOutbox ----
(***************************************************************************)
(* Questions to people, their answers, and the outbox that turns answers    *)
(* into notes of the decision vault (DecisionVault.publish_pending).         *)
(*                                                                           *)
(* The questions are those of one task, whose run is reduced to what changes *)
(* the active checkpoint.  Any number of processes publish at the same time; *)
(* each claim is a lease that may run out while its holder still writes, and *)
(* the directory of notes is shared with people who edit it.                 *)
(***************************************************************************)
EXTENDS Integers, FiniteSets

CONSTANTS
    Interaction,    \* questions that may come up
    Answer,         \* what people answer
    Secret,         \* answers that look like they contain a secret
    Publisher,      \* processes that publish
    None,           \* no answer, no question
    Limit,          \* rows of one publish_pending call
    MaxFaults,      \* bound: failing file operations, crashes, slow writers
    MaxEdits        \* bound: notes people write or change

ASSUME NoneAssumption == None \notin Answer \cup Interaction
ASSUME SubsetAssumption == Secret \subseteq Answer
ASSUME BoundAssumption == Limit \in Nat \ {0} /\ MaxFaults \in Nat /\ MaxEdits \in Nat

VARIABLES
    task,       \* status and wait token of the active checkpoint, which is
                \* named by the question that was asked with it
    inter,      \* task_human_interactions: status, answer and whether it is kept:
                \* those of decisions, plan reviews and reusable information are
    outbox,     \* vault_decision_outbox: status, claim token (the number of the
                \* claim), whether the claim has not run out
    note,       \* the file of a decision: "none", "decision" or "edited"
    pub,        \* what each publishing process is about to do
    faults, edits,
    held        \* history: notes that were the decision at some time

vars == <<task, inter, outbox, note, pub, faults, edits, held>>

Idle == [pc |-> "idle", id |-> None, token |-> 0, seen |-> {}]

Init ==
    /\ task = [status |-> "working", token |-> None]
    /\ inter = [i \in Interaction |-> [status |-> "none", answer |-> None, kept |-> FALSE]]
    /\ outbox = [i \in Interaction |->
                    [status |-> "none", token |-> 0, live |-> FALSE, attempts |-> 0]]
    /\ note = [i \in Interaction |-> "none"]
    /\ pub = [p \in Publisher |-> Idle]
    /\ faults = 0 /\ edits = 0
    /\ held = {}

----------------------------------------------------------------------------
(* Questions and answers                                                   *)

Files == <<note, held>>
Rest == <<outbox, Files, pub, faults, edits>>

\* Fault: older questions stay open.
SupersededNone(i) == inter

\* Asking i supersedes the questions nobody answered.
Superseded(i) == [j \in Interaction |->
    IF j # i /\ inter[j].status = "pending" THEN [inter[j] EXCEPT !.status = "superseded"]
                                            ELSE inter[j]]

\* create_human_wait
Ask(i) ==
    /\ task.status = "working"
    /\ inter[i].status = "none"
    /\ task' = [status |-> "waiting", token |-> i]
    /\ \E kept \in BOOLEAN :
        inter' = [Superseded(i) EXCEPT ![i].status = "pending", ![i].kept = kept]
    /\ UNCHANGED Rest

\* Another checkpoint is saved, with a token of its own or none.
Save ==
    /\ task.status = "working"
    /\ \E status \in {"working", "waiting"} : task' = [status |-> status, token |-> None]
    /\ UNCHANGED <<inter, Rest>>

\* resume(), or run() on a waiting task; the checkpoint stays for the moment.
Work ==
    /\ task.status = "waiting"
    /\ task' = [task EXCEPT !.status = "working"]
    /\ UNCHANGED <<inter, Rest>>

\* _resume_wait finds no answer.
Park ==
    /\ task.status = "working"
    /\ task.token # None
    /\ inter[task.token].status = "pending"
    /\ task' = [task EXCEPT !.status = "waiting"]
    /\ UNCHANGED <<inter, Rest>>

Cancel ==
    /\ task.status # "ended"
    /\ task' = [status |-> "ended", token |-> None]
    /\ UNCHANGED <<inter, Rest>>

\* Only the question the task waits for can be answered, and only once.
Answerable(i) ==
    /\ task.status = "waiting"
    /\ task.token = i
    /\ inter[i].status = "pending"

\* Fault: the row of the outbox is written for every question.
QueuedAlways(i) == [outbox EXCEPT ![i].status = "pending"]

\* The insert of the answer's transaction.
Queued(i) == IF inter[i].kept THEN [outbox EXCEPT ![i].status = "pending"] ELSE outbox

\* answer_human_interaction
Give(i, a) ==
    /\ Answerable(i)
    /\ inter' = [inter EXCEPT ![i].status = "answered", ![i].answer = a]
    /\ outbox' = Queued(i)
    /\ UNCHANGED <<task, Files, pub, faults, edits>>

----------------------------------------------------------------------------
(* Publishing                                                              *)

Asking == <<task, inter>>

Goto(p, pc) == pub' = [pub EXCEPT ![p].pc = pc]

\* publish_pending is called: at the start of a process, after an answer, by the
\* maintenance job.
Begin(p) ==
    /\ pub[p].pc = "idle"
    /\ Goto(p, "scan")
    /\ UNCHANGED <<Asking, outbox, Files, faults, edits>>

\* Fault: rows of processes that are gone are not looked for.
DuePending == {i \in Interaction : outbox[i].status = "pending"}

\* Rows nobody works on, as far as their claims tell.
Due == {i \in Interaction :
    \/ outbox[i].status = "pending"
    \/ outbox[i].status = "publishing" /\ ~outbox[i].live}

Claimable(p) == IF Cardinality(pub[p].seen) < Limit THEN Due \ pub[p].seen ELSE {}

\* _claim.  Rows are taken in the order of their second; here in any order.
Claim(p) ==
    /\ pub[p].pc = "scan"
    /\ \/ \E i \in Claimable(p) :
            /\ outbox' = [outbox EXCEPT ![i] =
                    [status |-> "publishing", token |-> @.attempts + 1, live |-> TRUE,
                     attempts |-> @.attempts + 1]]
            /\ pub' = [pub EXCEPT ![p].pc = "claimed", ![p].id = i,
                                  ![p].token = outbox[i].attempts + 1,
                                  ![p].seen = @ \cup {i}]
       \/ /\ Claimable(p) = {}
          /\ pub' = [pub EXCEPT ![p] = Idle]
          /\ UNCHANGED outbox
    /\ UNCHANGED <<Asking, Files, faults, edits>>

\* Fault: a note that exists was written by somebody else.
VerdictStrict(i) == "unsafe"

\* A note that exists is read and compared.
Verdict(i) == IF note[i] = "decision" THEN "done" ELSE "unsafe"

\* _write up to the temporary file
Inspect(p) ==
    LET i == pub[p].id
    IN  /\ pub[p].pc = "claimed"
        /\ \/ /\ inter[i].status # "answered" \/ inter[i].answer \in Secret
              /\ Goto(p, "unsafe")
           \/ /\ inter[i].status = "answered" /\ inter[i].answer \notin Secret
              /\ Goto(p, IF note[i] = "none" THEN "absent" ELSE Verdict(i))
        /\ UNCHANGED <<Asking, outbox, Files, faults, edits>>

\* Fault: the note is moved over whatever is there.
Overwrite(p) ==
    /\ note' = [note EXCEPT ![pub[p].id] = "decision"]
    /\ held' = held \cup {pub[p].id}
    /\ Goto(p, "done")

\* os.link fails when the name has been taken since.
LinkNote(p) ==
    LET i == pub[p].id
    IN  \/ /\ note[i] = "none"
           /\ note' = [note EXCEPT ![i] = "decision"]
           /\ held' = held \cup {i}
           /\ Goto(p, "done")
        \/ /\ note[i] # "none"
           /\ Goto(p, Verdict(i))
           /\ UNCHANGED Files

Link(p) ==
    /\ pub[p].pc = "absent"
    /\ LinkNote(p)
    /\ UNCHANGED <<Asking, outbox, faults, edits>>

\* A file operation fails.
Fail(p) ==
    /\ pub[p].pc \in {"claimed", "absent"}
    /\ faults < MaxFaults
    /\ faults' = faults + 1
    /\ Goto(p, "error")
    /\ UNCHANGED <<Asking, outbox, Files, edits>>

\* Fault: the row is found by its id alone.
HoldsAlways(p) == TRUE

Holds(p) ==
    LET row == outbox[pub[p].id]
    IN  row.status = "publishing" /\ row.token = pub[p].token

Outcome(pc) == CASE pc = "done" -> "published" [] pc = "unsafe" -> "blocked"
                 [] pc = "error" -> "pending"

\* Fault: the claim stays on the row.
SettledClaimed(row, status) == [row EXCEPT !.status = status]

Settled(row, status) == [row EXCEPT !.status = status, !.token = 0, !.live = FALSE]

\* _finish; a claim that was taken over changes nothing.
Finish(p) ==
    /\ pub[p].pc \in {"done", "unsafe", "error"}
    /\ outbox' = IF Holds(p)
                 THEN [outbox EXCEPT ![pub[p].id] = Settled(@, Outcome(pub[p].pc))]
                 ELSE outbox
    /\ pub' = [pub EXCEPT ![p] = [Idle EXCEPT !.pc = "scan", !.seen = pub[p].seen]]
    /\ UNCHANGED <<Asking, Files, faults, edits>>

Crash(p) ==
    /\ pub[p].pc # "idle"
    /\ faults < MaxFaults
    /\ faults' = faults + 1
    /\ pub' = [pub EXCEPT ![p] = Idle]
    /\ UNCHANGED <<Asking, outbox, Files, edits>>

Writing(i) == \E p \in Publisher :
    pub[p].pc \notin {"idle", "scan"} /\ pub[p].id = i /\ Holds(p)

\* The claim of a process that is gone runs out.
Expire(i) ==
    /\ outbox[i].live
    /\ ~Writing(i)
    /\ outbox' = [outbox EXCEPT ![i].live = FALSE]
    /\ UNCHANGED <<Asking, Files, pub, faults, edits>>

\* So does that of a process that takes more than five minutes.
Overrun(i) ==
    /\ outbox[i].live
    /\ Writing(i)
    /\ faults < MaxFaults
    /\ faults' = faults + 1
    /\ outbox' = [outbox EXCEPT ![i].live = FALSE]
    /\ UNCHANGED <<Asking, Files, pub, edits>>

\* A person writes a note of this name, or changes the one that is there.
Edit(i) ==
    /\ edits < MaxEdits
    /\ edits' = edits + 1
    /\ note' = [note EXCEPT ![i] = "edited"]
    /\ UNCHANGED <<Asking, outbox, pub, faults, held>>

----------------------------------------------------------------------------

Publish(p) == Begin(p) \/ Claim(p) \/ Inspect(p) \/ Link(p) \/ Finish(p)

Task == (\E i \in Interaction : Ask(i)) \/ Save \/ Work \/ Park \/ Cancel

Next ==
    \/ Task
    \/ \E i \in Interaction : Expire(i) \/ Overrun(i) \/ Edit(i) \/ \E a \in Answer : Give(i, a)
    \/ \E p \in Publisher : Publish(p) \/ Fail(p) \/ Crash(p)

Spec == Init /\ [][Next]_vars

\* Somebody publishes again and again (the maintenance job does), and time passes
\* for the claims of processes that are gone.
FairSpec ==
    /\ Spec
    /\ \A p \in Publisher : WF_vars(Publish(p))
    /\ \A i \in Interaction : WF_vars(Expire(i))

----------------------------------------------------------------------------
(* Properties                                                              *)

\* Rows, files and processes are of the shape the code expects; a process that
\* works on a row knows which.
TypeOK ==
    /\ task \in [status : {"working", "waiting", "ended"}, token : Interaction \cup {None}]
    /\ inter \in [Interaction -> [status : {"none", "pending", "answered", "superseded"},
                                  answer : Answer \cup {None}, kept : BOOLEAN]]
    /\ outbox \in [Interaction ->
            [status : {"none", "pending", "publishing", "published", "blocked"},
             token : Nat, live : BOOLEAN, attempts : Nat]]
    /\ \A i \in Interaction : outbox[i].status # "publishing" =>
            outbox[i].token = 0 /\ ~outbox[i].live
    /\ note \in [Interaction -> {"none", "decision", "edited"}]
    /\ pub \in [Publisher ->
            [pc : {"idle", "scan", "claimed", "absent", "done", "unsafe", "error"},
             id : Interaction \cup {None}, token : Nat, seen : SUBSET Interaction]]
    /\ \A p \in Publisher : pub[p].pc \notin {"idle", "scan"} => pub[p].id \in Interaction
    /\ faults \in 0 .. MaxFaults /\ edits \in 0 .. MaxEdits
    /\ held \subseteq Interaction

\* A task never has two questions pending, however its waits are left.
OnePending ==
    \A i, j \in Interaction :
        inter[i].status = "pending" /\ inter[j].status = "pending" => i = j

\* What got into the vault is a decision to be kept, without a secret, and still
\* the answer to its question.
NoteIsDecision ==
    \A i \in held : /\ inter[i].kept
                     /\ inter[i].status = "answered"
                     /\ inter[i].answer \notin Secret

\* A decision is left to a person only if it has a secret or somebody wrote
\* another note; that several processes publish it at once is no reason.
BlockedForCause ==
    \A i \in Interaction : outbox[i].status = "blocked" =>
        inter[i].answer \in Secret \/ note[i] = "edited"

\* What a person wrote is never overwritten, not even by a process that saw no
\* note there before.
EditKept == [][\A i \in Interaction : note[i] = "edited" => note'[i] = "edited"]_vars

\* Every queued decision is published or left to a person, through crashes and
\* lost claims.
Settles ==
    \A i \in Interaction :
        outbox[i].status = "pending" ~> outbox[i].status \in {"published", "blocked"}

\* Answers and outbox keep the promises of DecisionRecord: an answer stays, a
\* settled decision stays settled, and published means that the note is there.
Record == INSTANCE DecisionRecord WITH
    answer <- [i \in Interaction |->
                IF inter[i].status = "answered" THEN inter[i].answer ELSE None],
    fate <- [i \in Interaction |->
                IF outbox[i].status = "publishing" THEN "pending" ELSE outbox[i].status],
    written <- held

KeepsRecord == Record!Spec

====
