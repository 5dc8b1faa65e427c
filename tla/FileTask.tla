---- MODULE FileTask ----
(***************************************************************************)
(* One task that writes one file, from its plan to the verdict: the steps    *)
(* Planner makes of the task, what Executor gets from each of them, what     *)
(* Validator makes of the results, and what Orchestrator makes of that.      *)
(* People edit the file meanwhile, calls get lost, and processes die while    *)
(* they execute.                                                             *)
(*                                                                           *)
(* The task says that the file is to be "new"; "old" is any other content.   *)
(***************************************************************************)
EXTENDS Integers, Sequences, FiniteSets

CONSTANTS
    Tasks,          \* those that are tried
    MaxCycles, MaxRetries, MaxReplans,  \* of the orchestrator
    MaxTrouble,     \* bound: deaths and lost calls
    MaxEdits        \* bound: edits by people

ASSUME LimitAssumption ==
    MaxCycles \in Nat \ {0} /\ MaxRetries \in Nat /\ MaxReplans \in Nat

ASSUME BoundAssumption == MaxTrouble \in Nat /\ MaxEdits \in Nat

Tool == {"filesystem", "git", "sqlite", "test_runner"}

Content == {"none", "old", "new"}

Task == [
    form : {"title", "declared", "prose"},  \* "Create file: ...", metadata["change"], neither
    tools : SUBSET Tool,    \* that are available
    flaw : {"none", "context", "change", "command"},    \* what is not as it has to be
    test : BOOLEAN,         \* there is a test to run
    covered : BOOLEAN,      \* the steps cover all criteria
    dry : BOOLEAN,          \* dry run
    head : Content,         \* the file as of the last commit
    start : Content,        \* the file before the task
    visible : BOOLEAN,      \* git shows changes of the file
    leaves : BOOLEAN,       \* the test leaves files behind
    steady : BOOLEAN]       \* the test does not fail

ASSUME TaskAssumption == Tasks \subseteq Task

VARIABLES
    task,
    disk,       \* the file
    litter,     \* what the test leaves behind is there
    stage,      \* where the task stands
    ckpt,       \* the checkpoint: steps not to be repeated; is it that of the new plan
    journal,    \* the rows of this plan: of calls that are over, or may have happened
    at, got,    \* the call: the next step, and what it has got from those before
    spent,      \* retries, replans and cycles
    proof,      \* history: what was read in this pass, and a test that passed
    trouble, edits

vars == <<task, disk, litter, stage, ckpt, journal, at, got, spent, proof, trouble, edits>>

----------------------------------------------------------------------------
(* Planner                                                                 *)

\* Of texts, criteria and dependencies.
Complete(t) == t.flaw # "context"

SoundChange(t) == t.flaw # "change"

\* An allowed command, and the tool that runs it.
Usable(t) == t.flaw # "command" /\ "test_runner" \in t.tools

Plannable(t) ==
    /\ Complete(t)
    /\ t.tools \cap {"filesystem", "git"} # {}
    /\ t.tools \cap {"filesystem", "sqlite"} # {}
    /\ t.form = "declared" => "filesystem" \in t.tools /\ SoundChange(t)
    /\ t.test /\ t.form # "prose" /\ "filesystem" \in t.tools => Usable(t)

Only(condition, steps) == IF condition THEN steps ELSE <<>>

Git(t, steps) == Only("git" \in t.tools, steps)

Concrete(t) == <<"list", "write", "read">> \o Git(t, <<"status", "diff">>) \o Only(t.test, <<"test">>)

Declared(t) == <<"list", "read", "write", "read">> \o Git(t, <<"diff">>) \o Only(t.test, <<"test">>)

\* The kinds of the steps.  Those of a task in prose have no arguments.
Steps(t) ==
    CASE t.form = "title" /\ "filesystem" \in t.tools -> Concrete(t)
      [] t.form = "declared" -> Declared(t)
      [] OTHER -> <<"bare">>

Place == 1 .. 6

Kind(i) == Steps(task)[i]

Places(kinds) == {i \in DOMAIN Steps(task) : Kind(i) \in kinds}

Effects == {"write", "test"}    \* the steps that have a row in the journal

Started == {"happened", "missed", "failed"}     \* the outcome of the row is not known

NoRows == [i \in Place |-> "none"]
NoProof == [read |-> "none", tested |-> "no"]
NoResults == [i \in Place |-> "nothing"]

StartPass == at' = 1 /\ got' = NoResults /\ proof' = [proof EXCEPT !.read = "none"]

Init ==
    /\ task \in Tasks
    /\ disk = task.start
    /\ litter = FALSE
    /\ stage = "planning"
    /\ ckpt = [skip |-> {}, fresh |-> FALSE]
    /\ journal = NoRows
    /\ at = 1 /\ got = NoResults
    /\ spent = [retries |-> 0, replans |-> 0, cycles |-> 0]
    /\ proof = NoProof
    /\ trouble = 0 /\ edits = 0

MakePlan ==
    /\ stage = "planning"
    /\ IF Plannable(task) THEN stage' = "executing" ELSE stage' = "failed"
    /\ ckpt' = [skip |-> {}, fresh |-> TRUE]
    /\ journal' = NoRows
    /\ at' = 1 /\ got' = NoResults /\ proof' = NoProof
    /\ UNCHANGED <<task, disk, litter, spent, trouble, edits>>

----------------------------------------------------------------------------
(* The limits on further attempts                                          *)

\* Fault: one cycle too many.
LastCycleLate == spent.cycles >= MaxCycles

LastCycle == spent.cycles + 1 >= MaxCycles

\* The same plan once more, without the steps of skip; or another plan.
Again(action, skip) ==
    LET retries == spent.retries + (IF action = "retry" THEN 1 ELSE 0)
        replans == spent.replans + (IF action = "replan" THEN 1 ELSE 0)
    IN  IF retries > MaxRetries \/ replans > MaxReplans \/ LastCycle
        THEN stage' = "failed" /\ UNCHANGED <<ckpt, at, got, spent, proof>>
        ELSE /\ spent' = [retries |-> retries, replans |-> replans, cycles |-> spent.cycles + 1]
             /\ stage' = IF action = "retry" THEN "executing" ELSE "planning"
             /\ ckpt' = [skip |-> skip, fresh |-> FALSE]
             /\ StartPass

----------------------------------------------------------------------------
(* Executor: a call                                                        *)

Pending == \E i \in Place : journal[i] \in Started

\* A call with a row that is not settled does not start; its checkpoint has
\* no completed steps.
Unsettled ==
    /\ stage = "executing" /\ at = 1 /\ got = NoResults /\ Pending
    /\ stage' = "waiting"
    /\ ckpt' = [skip |-> {}, fresh |-> FALSE]
    /\ UNCHANGED <<task, disk, litter, journal, at, got, spent, proof, trouble, edits>>

Runs == stage = "executing" /\ at \in DOMAIN Steps(task) /\ ~Pending

Gets(result) == got' = [got EXCEPT ![at] = result] /\ at' = at + 1

Skip ==
    /\ Runs /\ at \in ckpt.skip
    /\ Gets("resumed")
    /\ UNCHANGED <<task, disk, litter, stage, ckpt, journal, spent, proof, trouble, edits>>

Takes(kinds) == Runs /\ at \notin ckpt.skip /\ Kind(at) \in kinds /\ Kind(at) # "bare" /\ ~task.dry

\* The arguments are missing, or the policy allows no tool in a dry run.
Refuse ==
    /\ Runs /\ at \notin ckpt.skip
    /\ Kind(at) = "bare" \/ task.dry
    /\ Again("replan", {})
    /\ UNCHANGED <<task, disk, litter, journal, trouble, edits>>

Changed == task.visible /\ disk # task.head

Seen(kind) ==
    CASE kind = "list" -> "ok"
      [] kind = "read" -> disk
      [] kind = "status" -> IF Changed THEN "shown" ELSE "empty"
      [] kind = "diff" -> IF Changed /\ task.head # "none" THEN "shown" ELSE "empty"

Look ==
    /\ Takes({"list", "read", "status", "diff"})
    /\ IF Kind(at) = "read" /\ disk = "none"
       THEN stage' = "failed" /\ UNCHANGED <<at, got, proof>>
       ELSE /\ Gets(Seen(Kind(at)))
            /\ proof' = IF Kind(at) = "read" THEN [proof EXCEPT !.read = disk] ELSE proof
            /\ UNCHANGED stage
    /\ UNCHANGED <<task, disk, litter, ckpt, journal, spent, trouble, edits>>

Open == journal[at] \in {"none", "noeffect"}

\* The call was made in an earlier pass.
Journaled ==
    /\ Takes(Effects) /\ ~Open
    /\ Gets("journaled")
    /\ UNCHANGED <<task, disk, litter, stage, ckpt, journal, spent, proof, trouble, edits>>

Row(status) == journal' = [journal EXCEPT ![at] = status]

Write ==
    /\ Takes({"write"}) /\ Open
    /\ disk' = "new" /\ Row("done") /\ Gets("ok")
    /\ UNCHANGED <<task, litter, stage, ckpt, spent, proof, trouble, edits>>

\* The files the test adds are noticed the first time only.
Test ==
    /\ Takes({"test"}) /\ Open
    /\ Row(IF task.leaves /\ ~litter THEN "left" ELSE "done") /\ Gets("ok")
    /\ litter' = task.leaves
    /\ proof' = [proof EXCEPT !.tested = "passed"]
    /\ UNCHANGED <<task, disk, stage, ckpt, spent, trouble, edits>>

TestFails ==
    /\ Takes({"test"}) /\ Open /\ ~task.steady
    /\ Row("failed")
    /\ litter' = task.leaves
    /\ Again("retry", 1 .. (at - 1))
    /\ UNCHANGED <<task, disk, trouble, edits>>

----------------------------------------------------------------------------
(* What gets lost                                                          *)

Trouble == trouble < MaxTrouble /\ trouble' = trouble + 1

\* The call ends in an exception, or its process with it.
Interrupt ==
    /\ Takes(Effects) /\ Open /\ Trouble
    /\ \E outcome \in {"happened", "missed"} :
        /\ Row(outcome)
        /\ disk' = IF outcome = "happened" /\ Kind(at) = "write" THEN "new" ELSE disk
        /\ litter' = (litter \/ (outcome = "happened" /\ Kind(at) = "test" /\ task.leaves))
    /\ \/ stage' = "waiting" /\ ckpt' = [skip |-> 1 .. (at - 1), fresh |-> FALSE]
       \/ stage' = "dead" /\ UNCHANGED ckpt
    /\ UNCHANGED <<task, at, got, spent, proof, edits>>

Die ==
    /\ stage = "executing" /\ Trouble
    /\ stage' = "dead"
    /\ UNCHANGED <<task, disk, litter, ckpt, journal, at, got, spent, proof, edits>>

\* A plan of which nothing was called yet is made again.
Resume ==
    /\ stage = "dead"
    /\ IF ckpt.fresh /\ journal = NoRows
       THEN stage' = "planning" /\ UNCHANGED <<at, got, proof>>
       ELSE stage' = "executing" /\ StartPass
    /\ UNCHANGED <<task, disk, litter, ckpt, journal, spent, trouble, edits>>

\* What may become of the row of step i: the file answers for a write, a person
\* for any call.  Of a test that failed a person may say that it was made.
Answers(i) == {answer \in {"done", "noeffect"} :
    IF answer = "done"
    THEN journal[i] \in {"happened", "failed"} \/ (Kind(i) = "write" /\ disk = "new")
    ELSE journal[i] \in {"missed", "failed"}}

Settle ==
    /\ stage = "waiting"
    /\ \E i \in Place : journal[i] \in Started /\ \E answer \in Answers(i) :
        /\ journal' = [journal EXCEPT ![i] = answer]
        /\ stage' = "executing" /\ at' = 1 /\ got' = NoResults
        /\ proof' = [read |-> "none", tested |->
              IF answer = "done" /\ Kind(i) = "test" THEN "attested" ELSE proof.tested]
    /\ UNCHANGED <<task, disk, litter, ckpt, spent, trouble, edits>>

Edit ==
    /\ stage \notin {"done", "failed"}
    /\ edits < MaxEdits /\ edits' = edits + 1
    /\ \E content \in Content \ {disk} : disk' = content
    /\ UNCHANGED <<task, litter, stage, ckpt, journal, at, got, spent, proof, trouble>>

----------------------------------------------------------------------------
(* Validator                                                               *)

First(places) == CHOOSE i \in places : \A j \in places : i <= j

\* Fault: a step that is not repeated counts as read.
ContentOkResumed == got[First(Places({"read"}))] \in {"new", "resumed"}

\* The first read of the path is the one that counts.
ContentOk == got[First(Places({"read"}))] = "new"

\* Fault: the path has to be in each result.
GitOkEach == \A i \in Places({"status", "diff"}) : got[i] = "shown"

\* One diff that is empty counts as no evidence, and is not looked into.
GitOk ==
    LET git == Places({"status", "diff"})
    IN  \/ \E i \in git : got[i] = "shown"
        \/ Cardinality(git) < 2 /\ \A i \in git : got[i] = "empty"

\* Each criterion is one of a step that was done or is not to be repeated.
Covered == task.covered

\* Plans of declared changes allow the declared files only.
Unexpected ==
    /\ task.form = "declared"
    /\ \E i \in Places({"test"}) : journal[i] = "left" /\ got[i] \in {"ok", "journaled"}

Judge ==
    /\ stage = "executing" /\ at > Len(Steps(task))
    /\ CASE Unexpected -> Again("replan", {})
         [] ~Unexpected /\ Covered /\ ContentOk /\ GitOk ->
                stage' = "done" /\ UNCHANGED <<ckpt, at, got, spent, proof>>
         [] OTHER -> Again("retry", {})
    /\ UNCHANGED <<task, disk, litter, journal, trouble, edits>>

----------------------------------------------------------------------------

Over == stage \in {"done", "failed"} /\ UNCHANGED vars

Work ==
    \/ MakePlan \/ Unsettled \/ Skip \/ Refuse \/ Look \/ Journaled
    \/ Write \/ Test \/ TestFails \/ Judge \/ Resume \/ Settle

Next == Work \/ Interrupt \/ Die \/ Edit \/ Over

Spec == Init /\ [][Next]_vars

FairSpec == Spec /\ WF_vars(Work)

----------------------------------------------------------------------------
(* Properties                                                              *)

TypeOK ==
    /\ task \in Task /\ disk \in Content /\ litter \in BOOLEAN
    /\ stage \in {"planning", "executing", "waiting", "dead", "done", "failed"}
    /\ ckpt \in [skip : SUBSET Place, fresh : BOOLEAN]
    /\ journal \in [Place -> {"none", "done", "left", "noeffect"} \cup Started]
    /\ at \in 1 .. 7
    /\ got \in [Place -> {"nothing", "resumed", "journaled", "ok", "shown", "empty"} \cup Content]
    /\ spent \in [retries : 0 .. MaxRetries, replans : 0 .. MaxReplans, cycles : 0 .. MaxCycles - 1]
    /\ proof \in [read : Content, tested : {"no", "passed", "attested"}]
    /\ trouble \in 0 .. MaxTrouble /\ edits \in 0 .. MaxEdits

\* A task that is done has its file as it should be unless a person edited it, was
\* seen to have it in its last pass (a declared change: maybe before that edit), and
\* its test passed or a person vouched for it.
DoneIsProven ==
    stage = "done" =>
        /\ task.form = "title" => proof.read = "new"
        /\ edits = 0 => disk = "new"
        /\ task.test => proof.tested # "no"

\* The tasks of which the code can get the proof it asks for.
Suitable(t) ==
    /\ Plannable(t) /\ t.form # "prose" /\ "filesystem" \in t.tools /\ ~t.dry /\ t.covered /\ t.steady
    /\ t.form = "declared" => t.start # "none"
    /\ t.form = "title" /\ "git" \in t.tools => t.visible /\ t.head # "new"

\* Every task comes to its end, and one that is suitable is done then if nobody
\* edits its file: the attempts that are spent on mismatches, unexpected files and
\* results that were lost with a call or a process never exhaust the limits.
SuitableIsDone ==
    <>(stage \in {"done", "failed"} /\ (Suitable(task) => stage = "done" \/ edits > 0))
====
