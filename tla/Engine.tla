---- MODULE Engine ----
(***************************************************************************)
(* One task as Orchestrator.run and Orchestrator.resume work on it: the    *)
(* task row with its claim, the attempt rows, the checkpoint row with its   *)
(* resume lease, and any number of concurrent calls in any number of       *)
(* processes that share the SQLite file.  An action is one transaction     *)
(* (TransactionManager.atomic) or one read between two transactions.       *)
(***************************************************************************)
EXTENDS Integers, Sequences, TaskStatus

CONSTANTS
    Call,           \* invocations of run() or resume(), each used at most once
    None,           \* SQL NULL where a claim token is expected
    MaxRetries,     \* max_retries, max_replans and max_cycles of the
    MaxReplans,     \*   engine configuration
    MaxCycles,
    Reasons,        \* the kinds of wait that stages ask for
    RunWaiting,     \* run() may also be called while the task is waiting
    SlowClaims      \* other calls may get through a stage, or a lease run out,
                    \*   between two statements of the claim that run() makes

\* Why a task waits, by what resume() needs to go on: nothing ("auto":
\* temporary_error, workspace_missing, manual_replan), an answer to a question
\* or to a plan review ("human", "review"), the approval of a step ("approval"),
\* or outside information or a verdict on an uncertain tool call ("blocked").
AllReasons == {"auto", "human", "review", "approval", "blocked"}

ASSUME NoneAssumption == None \notin Call
ASSUME LimitsAssumption ==
    /\ MaxRetries \in Nat
    /\ MaxReplans \in Nat
    /\ MaxCycles \in Nat \ {0}
ASSUME SwitchesAssumption ==
    /\ Reasons \subseteq AllReasons
    /\ RunWaiting \in BOOLEAN
    /\ SlowClaims \in BOOLEAN

VARIABLES
    task,       \* row of tasks: status, approval, claim token and its validity,
                \*   execution epoch
    attempts,   \* rows of task_attempts in id order: their statuses
    ckpt,       \* row of task_checkpoints with the wait it describes
    tools,      \* tool journal: rows of no plan, of an older plan only, or of
                \*   the plan in the checkpoint
    call        \* what each call knows and where it stands

vars == <<task, attempts, ckpt, tools, call>>

----------------------------------------------------------------------------
(* Data                                                                    *)

AttemptStatus == {"running", "completed", "failed", "waiting", "cancelled"}

\* The next step of a call; the stages are "planning" (the planner works),
\* "executing" (the executor) and "validating" (the validator).
Pc == {"idle", "claiming", "claimed", "resuming", "dispatch",
       "freshStart", "planStart", "retryStart", "revalidate",
       "planning", "planned", "executing", "validating",
       "release", "finished", "crashed"}

Progress == [retries : Nat, replans : Nat, cycle : Nat]

NoProgress == [retries |-> 0, replans |-> 0, cycle |-> 0]

NoCheckpoint ==
    [active |-> FALSE, action |-> "none", revision |-> 0, attempt |-> 0,
     reason |-> "none", next |-> "none", resolved |-> FALSE,
     planned |-> FALSE, executed |-> FALSE, progress |-> NoProgress,
     holder |-> None, live |-> FALSE]

IdleCall ==
    [pc |-> "idle", fenced |-> FALSE, resumed |-> FALSE, token |-> None,
     epoch |-> 0, attempt |-> 0, seen |-> 0, progress |-> NoProgress]

Running == \E i \in DOMAIN attempts : attempts[i] = "running"

IsRunning(i) == i \in DOMAIN attempts /\ attempts[i] = "running"

\* Faults: attempts stay open; an error text ends up in the status column.
CloseNone(st) == attempts
CloseWithReason(st) ==
    [i \in DOMAIN attempts |->
        IF attempts[i] = "running" THEN "interrupted" ELSE attempts[i]]

\* UPDATE task_attempts SET status = st WHERE status = 'running'
CloseAll(st) ==
    [i \in DOMAIN attempts |->
        IF attempts[i] = "running" THEN st ELSE attempts[i]]

\* Fault: the conflict clause leaves attempt_id as it was.
SavedOldAttempt(action, attempt, wait, planned, executed, progress) ==
    [active |-> TRUE, action |-> action, revision |-> ckpt.revision + 1,
     attempt |-> ckpt.attempt, reason |-> wait.reason, next |-> wait.next,
     resolved |-> FALSE, planned |-> planned, executed |-> executed,
     progress |-> progress, holder |-> ckpt.holder, live |-> ckpt.live]

\* CheckpointStore.save overwrites the row under a new revision; only the
\* resume lease columns are not touched.  (So are the columns of an answered
\* external wait when the new row is no wait; they only count in a wait.)
Saved(action, attempt, wait, planned, executed, progress) ==
    [active |-> TRUE, action |-> action, revision |-> ckpt.revision + 1,
     attempt |-> attempt, reason |-> wait.reason, next |-> wait.next,
     resolved |-> FALSE, planned |-> planned, executed |-> executed,
     progress |-> progress, holder |-> ckpt.holder, live |-> ckpt.live]

NoWait == [reason |-> "none", next |-> "none"]

\* Fault: the lease is cleared, invalidated_at is not set.
OnlyUnleased == [ckpt EXCEPT !.holder = None, !.live = FALSE]

\* CheckpointStore.invalidate
Invalidated == [ckpt EXCEPT !.active = FALSE, !.holder = None, !.live = FALSE]

Spent(p, action) ==
    [retries |-> IF action = "retry_execution" THEN p.retries + 1 ELSE p.retries,
     replans |-> IF action = "replan" THEN p.replans + 1 ELSE p.replans,
     cycle   |-> p.cycle]

NextCycle(p) ==
    [retries |-> p.retries, replans |-> p.replans, cycle |-> p.cycle + 1]

\* Fault: one cycle too many.
ExhaustedLate(p) ==
    \/ p.retries > MaxRetries
    \/ p.replans > MaxReplans
    \/ p.cycle + 1 > MaxCycles

Exhausted(p) ==
    \/ p.retries > MaxRetries
    \/ p.replans > MaxReplans
    \/ p.cycle + 1 >= MaxCycles

\* Fault: any valid claim will do.
OwnerByLease(c) ==
    call[c].fenced => task.holder # None /\ task.live /\ task.status \notin Terminal

\* TransactionManager.assert_owner: no transaction of a call that has a fencing
\* identity commits once the claim, the epoch or a lease is gone.
Owner(c) ==
    call[c].fenced =>
        /\ task.holder = call[c].token
        /\ task.holder # None
        /\ task.epoch = call[c].epoch
        /\ task.live
        /\ task.status \notin Terminal
        /\ call[c].resumed =>
            /\ ckpt.active
            /\ ckpt.holder = call[c].token
            /\ ckpt.live

Goto(c, pc) == call' = [call EXCEPT ![c].pc = pc]

\* The call returned or its process died: its local state is gone.
End(c, pc) == call' = [call EXCEPT ![c] = [IdleCall EXCEPT !.pc = pc]]

Init ==
    /\ task = [status |-> "ready", approved |-> TRUE, holder |-> None,
               live |-> FALSE, epoch |-> 0]
    /\ attempts = <<>>
    /\ ckpt = NoCheckpoint
    /\ tools = "none"
    /\ call = [c \in Call |-> IdleCall]

----------------------------------------------------------------------------
(* Claiming the task                                                       *)

\* run() reads the status first and only claims a task it saw ready.
RunRead(c) ==
    /\ call[c].pc = "idle"
    /\ task.status = "ready"
    /\ Goto(c, "claiming")
    /\ UNCHANGED <<task, attempts, ckpt, tools>>

\* For a waiting task _claim_task answers None: the pipeline starts with no
\* claim and no fencing identity.  With a tool journal and an active checkpoint
\* run() turns into resume(), which is ResumeRead.
RunUnclaimed(c) ==
    /\ RunWaiting
    /\ call[c].pc = "idle"
    /\ task.status = "waiting"
    /\ ~(tools # "none" /\ ckpt.active)
    /\ Goto(c, "freshStart")
    /\ UNCHANGED <<task, attempts, ckpt, tools>>

\* TaskStore.claim, whose UPDATE accepts more statuses than run() looked for.
CanClaim ==
    /\ task.status \in IF SlowClaims THEN {"ready"} \cup Active ELSE {"ready"}
    /\ task.approved
    /\ ~task.live

Claim(c) ==
    /\ call[c].pc = "claiming"
    /\ \/ /\ CanClaim
          /\ task' = [task EXCEPT
                !.status = IF @ = "ready" THEN "planning" ELSE @,
                !.holder = c, !.live = TRUE, !.epoch = @ + 1]
          /\ Goto(c, "claimed")
       \/ /\ ~CanClaim
          /\ End(c, "finished")
          /\ UNCHANGED task
    /\ UNCHANGED <<attempts, ckpt, tools>>

\* _claim_task reads the fencing identity back after the claim committed, and
\* takes whatever token and epoch the row holds by then.
Adopt(c) ==
    /\ call[c].pc = "claimed"
    /\ call' = [call EXCEPT ![c].pc = "planStart", ![c].fenced = TRUE,
                            ![c].token = task.holder, ![c].epoch = task.epoch]
    /\ UNCHANGED <<task, attempts, ckpt, tools>>

\* resume() remembers the revision of the checkpoint it read.
ResumeRead(c) ==
    /\ call[c].pc = "idle"
    /\ task.status \notin Terminal
    /\ ckpt.active
    /\ call' = [call EXCEPT ![c].pc = "resuming", ![c].seen = ckpt.revision]
    /\ UNCHANGED <<task, attempts, ckpt, tools>>

\* Fault: a wait is only resumed while the task waits.
ResumableFromStatusName ==
    [wait            |-> {"waiting"},
     validate        |-> {"executing", "validating", "waiting"},
     retry_execution |-> {"executing", "validating"},
     replan          |-> {"planning", "executing", "validating"}]

\* The statuses in which a checkpoint of each kind may be claimed.
ResumableFrom ==
    [wait            |-> {"waiting", "executing", "validating"},
     validate        |-> {"executing", "validating", "waiting"},
     retry_execution |-> {"executing", "validating"},
     replan          |-> {"planning", "executing", "validating"}]

\* EngineUnitOfWork.claim_resume_lease, but for the comparison of revisions.
Claimable ==
    /\ ckpt.active
    /\ task.status \in ResumableFrom[ckpt.action]
    /\ ckpt.action = "wait" => ~IsRunning(ckpt.attempt)
    /\ task.status # "waiting" => ~task.live
    /\ ~ckpt.live

ClaimResume(c) ==
    /\ call[c].pc = "resuming"
    /\ \/ /\ Claimable /\ call[c].seen = ckpt.revision
          /\ task' = [task EXCEPT !.holder = c, !.live = TRUE, !.epoch = @ + 1]
          /\ ckpt' = [ckpt EXCEPT !.holder = c, !.live = TRUE]
          /\ attempts' = IF task.status = "waiting" THEN attempts
                                                    ELSE CloseAll("failed")
          /\ call' = [call EXCEPT ![c].pc = "dispatch", ![c].fenced = TRUE,
                                  ![c].resumed = TRUE, ![c].token = c,
                                  ![c].epoch = task.epoch + 1]
       \/ /\ ~(Claimable /\ call[c].seen = ckpt.revision)
          /\ End(c, "finished")
          /\ UNCHANGED <<task, attempts, ckpt>>
    /\ UNCHANGED tools

\* EngineUnitOfWork.claim_orphaned_run: nothing was persisted that could tell
\* how far the lost run came, so it may only have planned.
Orphaned ==
    /\ task.status \in Active
    /\ ~ckpt.active
    /\ tools = "none"
    /\ ~task.live

ClaimOrphan(c) ==
    /\ call[c].pc = "idle"
    /\ Orphaned
    /\ task' = [task EXCEPT !.holder = c, !.live = TRUE, !.epoch = @ + 1]
    /\ attempts' = CloseAll("failed")
    /\ call' = [call EXCEPT ![c].pc = "planStart", ![c].fenced = TRUE,
                            ![c].token = c, ![c].epoch = task.epoch + 1]
    /\ UNCHANGED <<ckpt, tools>>

\* Fault: the release goes through the fence.
ReleaseIfOwner(c) ==
    /\ call[c].pc = "release"
    /\ Owner(c)
    /\ task' = [task EXCEPT !.holder = None, !.live = FALSE]
    /\ ckpt' = IF call[c].resumed THEN [ckpt EXCEPT !.holder = None, !.live = FALSE]
                                  ELSE ckpt
    /\ End(c, "finished")
    /\ UNCHANGED <<attempts, tools>>

\* The finally blocks of run() and resume(): both columns are cleared by token,
\* in a transaction that is not fenced.
Release(c) ==
    /\ call[c].pc = "release"
    /\ task' = IF call[c].fenced /\ task.holder = call[c].token
               THEN [task EXCEPT !.holder = None, !.live = FALSE] ELSE task
    /\ ckpt' = IF call[c].resumed /\ ckpt.holder = call[c].token
               THEN [ckpt EXCEPT !.holder = None, !.live = FALSE] ELSE ckpt
    /\ End(c, "finished")
    /\ UNCHANGED <<attempts, tools>>

----------------------------------------------------------------------------
(* Starting a stage                                                        *)

\* Fault: the answer is not looked at.
WaitTargetUnasked ==
    CASE ckpt.next = "replan" -> "planStart"
      [] ckpt.next = "validate" -> "revalidate"
      [] ckpt.next = "retry" -> IF ckpt.planned THEN "retryStart" ELSE "planStart"
      [] OTHER -> IF ckpt.planned /\ ckpt.executed THEN "retryStart" ELSE "planStart"

\* _resume_wait: where a claimed wait checkpoint leads, "stay" when its blocker
\* is not resolved.
WaitTarget ==
    IF ckpt.reason \in {"human", "review"} /\ ~ckpt.resolved THEN "stay"
    ELSE CASE ckpt.next = "replan" -> "planStart"
           [] ckpt.next = "validate" -> "revalidate"
           [] ckpt.next = "retry" ->
                IF ckpt.planned THEN "retryStart" ELSE "planStart"
           [] /\ ckpt.next = "none"
              /\ \/ ckpt.reason = "auto"
                 \/ ckpt.reason = "blocked" /\ ckpt.resolved
                 \/ ckpt.reason = "approval" /\ ckpt.resolved /\ task.approved ->
                IF ckpt.planned /\ ckpt.executed THEN "retryStart" ELSE "planStart"
           [] OTHER -> "stay"

\* resume() and _resume_from_checkpoint: the persisted next_action decides.  A
\* plan whose execution is not on record is executed again only when the journal
\* shows that it already had effects.
Target ==
    CASE ckpt.action = "wait" -> WaitTarget
      [] ckpt.action = "validate" ->
            IF ckpt.executed THEN "revalidate"
            ELSE IF tools = "thisPlan" THEN "retryStart" ELSE "planStart"
      [] ckpt.action = "retry_execution" ->
            IF ckpt.planned THEN "retryStart" ELSE "planStart"
      [] OTHER -> "planStart"

\* The checkpoint is read again after the claim.
Dispatch(c) ==
    /\ call[c].pc = "dispatch"
    /\ \/ /\ ~ckpt.active
          /\ Goto(c, "release")
          /\ UNCHANGED task
       \/ /\ ckpt.active
          /\ Target # "stay"
          /\ call' = [call EXCEPT ![c].pc = Target, ![c].progress = ckpt.progress]
          /\ UNCHANGED task
       \/ /\ ckpt.active
          /\ Target = "stay"
          /\ task' = IF Owner(c) /\ CanMove(task.status, "waiting", task.approved)
                     THEN [task EXCEPT !.status = "waiting"] ELSE task
          /\ Goto(c, "release")
    /\ UNCHANGED <<attempts, ckpt, tools>>

\* The status a starting call moves the task to.
StageOf == [freshStart |-> "planning", planStart |-> "planning",
            retryStart |-> "executing", revalidate |-> "validating"]

\* start_cycle insists on a transition; _run_pipeline skips it for a claimed
\* call whose task already is planning or executing.
CanEnter(c) ==
    LET stage == StageOf[call[c].pc]
    IN  \/ CanMove(task.status, stage, task.approved)
        \/ task.status = stage /\ call[c].pc \in {"planStart", "retryStart"}

\* Fault: attempts are inserted unconditionally.
CanAlwaysRecord == TRUE

\* TaskStore.record_attempt raises RuntimeError next to a running attempt.
CanRecordAttempt == ~Running

CanStart(c) == Owner(c) /\ CanEnter(c) /\ CanRecordAttempt

\* One transaction moves the task and opens the attempt of the stage.
Start(c) ==
    /\ call[c].pc \in DOMAIN StageOf
    /\ CanStart(c)
    /\ LET stage == StageOf[call[c].pc]
       IN  /\ task' = [task EXCEPT !.status = stage]
           /\ call' = [call EXCEPT ![c].pc = stage,
                                   ![c].attempt = Len(attempts) + 1]
    /\ attempts' = Append(attempts, "running")
    /\ UNCHANGED <<ckpt, tools>>

----------------------------------------------------------------------------
(* Decisions of a stage, each with all its effects in one transaction       *)

\* commit_decision and validation_decision: fenced, the status the stage ran
\* under, its attempt still running.
CanCommit(c) ==
    /\ Owner(c)
    /\ task.status = call[c].pc
    /\ IsRunning(call[c].attempt)

\* The task ends: failed stage, exhausted budget, STOP, or validated.
Finish(c, attemptStatus, taskStatus) ==
    /\ attempts' = [attempts EXCEPT ![call[c].attempt] = attemptStatus]
    /\ task' = [task EXCEPT !.status = taskStatus]
    /\ ckpt' = Invalidated
    /\ Goto(c, "release")

\* The task waits, with all that a later resume needs in the checkpoint.
Park(c, reason, next, planned, executed) ==
    /\ attempts' = [attempts EXCEPT ![call[c].attempt] = "waiting"]
    /\ task' = [task EXCEPT !.status = "waiting"]
    /\ ckpt' = Saved("wait", call[c].attempt, [reason |-> reason, next |-> next],
                     planned, executed, call[c].progress)
    /\ Goto(c, "release")

\* create_human_wait: unlike CanCommit it accepts any active status.
CanAsk(c) == Owner(c) /\ task.status \in Active /\ IsRunning(call[c].attempt)

Ask(c, next, planned, executed) ==
    \E reason \in Reasons \cap {"human", "review"} :
        CanAsk(c) /\ Park(c, reason, next, planned, executed)

\* A wait without a question, after an execution.
Wait(c) == \E reason \in Reasons \cap {"auto", "approval", "blocked"} :
              CanCommit(c) /\ Park(c, reason, "none", TRUE, TRUE)

\* The same plan again, or a new one: charged to the budget, persisted, and
\* continued by the same call.  The task keeps the status of the stage.
Redo(c, action) ==
    LET spent == Spent(call[c].progress, action)
        kept == NextCycle(spent)
    IN  IF Exhausted(spent)
        THEN Finish(c, "failed", "failed")
        ELSE /\ attempts' = [attempts EXCEPT ![call[c].attempt] = "failed"]
             /\ ckpt' = Saved(action, call[c].attempt, NoWait, TRUE, TRUE, kept)
             /\ call' = [call EXCEPT
                    ![c].pc = IF action = "replan" THEN "planStart" ELSE "retryStart",
                    ![c].progress = kept]
             /\ UNCHANGED task

\* A new plan replaces the one whose effects the journal knows, or equals it.
PlanAccepted(c) ==
    /\ CanCommit(c)
    /\ ckpt' = Saved("validate", call[c].attempt, NoWait, TRUE, FALSE,
                     call[c].progress)
    /\ tools' \in IF tools = "none" THEN {"none"} ELSE {"otherPlan", "thisPlan"}
    /\ Goto(c, "planned")
    /\ UNCHANGED <<task, attempts>>

Plan(c) ==
    /\ call[c].pc = "planning"
    /\ \/ PlanAccepted(c)
       \/ /\ CanCommit(c) /\ Finish(c, "failed", "failed")
          /\ UNCHANGED tools
       \/ /\ \E planned, executed \in BOOLEAN, next \in {"retry", "replan", "validate"} :
                /\ next = "validate" => planned /\ executed
                /\ Ask(c, next, planned, executed)
          /\ UNCHANGED tools

\* The status moves in a transaction of its own, after the plan was persisted.
CanExecute(c) == Owner(c) /\ CanMove(task.status, "executing", task.approved)

Execute(c) ==
    /\ call[c].pc = "planned"
    /\ CanExecute(c)
    /\ task' = [task EXCEPT !.status = "executing"]
    /\ Goto(c, "executing")
    /\ UNCHANGED <<attempts, ckpt, tools>>

\* begin_tool_invocation reserves the journal row before the tool is called.
UseTool(c) ==
    /\ call[c].pc = "executing"
    /\ Owner(c) /\ task.status = "executing"
    /\ tools' = "thisPlan"
    /\ UNCHANGED <<task, attempts, ckpt, call>>

Executed(c) ==
    /\ call[c].pc = "executing"
    /\ \/ /\ CanCommit(c)
          /\ \/ Finish(c, "failed", "failed")
             \/ Finish(c, "completed", "done")
             \/ Redo(c, "retry_execution")
             \/ Redo(c, "replan")
             \/ /\ task' = [task EXCEPT !.status = "validating"]
                /\ ckpt' = Saved("validate", call[c].attempt, NoWait, TRUE, TRUE,
                                 call[c].progress)
                /\ Goto(c, "validating")
                /\ UNCHANGED attempts
       \/ Wait(c)
       \/ \E next \in {"retry", "replan"} : Ask(c, next, TRUE, TRUE)
    /\ UNCHANGED tools

Validated(c) ==
    /\ call[c].pc = "validating"
    /\ \/ /\ CanCommit(c)
          /\ \/ Finish(c, "completed", "done")
             \/ Finish(c, "failed", "failed")
             \/ Redo(c, "retry_execution")
             \/ Redo(c, "replan")
       \/ Wait(c)
       \/ \E next \in {"retry", "replan", "validate"} : Ask(c, next, TRUE, TRUE)
    /\ UNCHANGED tools

\* A transaction that is refused rolls back and raises; the exception leaves
\* the pipeline through the finally block.
Refused(c) ==
    \/ call[c].pc \in DOMAIN StageOf /\ ~CanStart(c)
    \/ call[c].pc \in Active /\ ~CanCommit(c)
    \/ call[c].pc = "planned" /\ ~CanExecute(c)

Abort(c) ==
    /\ Refused(c)
    /\ Goto(c, "release")
    /\ UNCHANGED <<task, attempts, ckpt, tools>>

----------------------------------------------------------------------------
(* What others do to the task                                              *)

\* A process dies between two transactions; SQLite keeps what was committed.
Crash(c) ==
    /\ call[c].pc \notin {"idle", "finished", "crashed"}
    /\ End(c, "crashed")
    /\ UNCHANGED <<task, attempts, ckpt, tools>>

\* A lease runs out.  While its holder works it is renewed, and renewal never
\* revives it, so running out is the only change of a lease that counts.
ExpireClaim ==
    /\ task.live
    /\ SlowClaims \/ \A c \in Call : call[c].pc # "claimed"
    /\ task' = [task EXCEPT !.live = FALSE]
    /\ UNCHANGED <<attempts, ckpt, tools, call>>

ExpireLease ==
    /\ ckpt.live
    /\ ckpt' = [ckpt EXCEPT !.live = FALSE]
    /\ UNCHANGED <<task, attempts, tools, call>>

Cancel ==
    /\ CanMove(task.status, "cancelled", task.approved)
    /\ attempts' = CloseAll("cancelled")
    /\ task' = [task EXCEPT !.status = "cancelled", !.holder = None,
                            !.live = FALSE, !.epoch = @ + 1]
    /\ ckpt' = Invalidated
    /\ UNCHANGED <<tools, call>>

\* TaskStore.approve and revoke_approval, in any status.
SetApproval ==
    /\ task' = [task EXCEPT !.approved = ~@]
    /\ UNCHANGED <<attempts, ckpt, tools, call>>

\* resolve_external_wait, resolve_tool_invocation, and decide_approval, which
\* approves a step only of an approved task.
Resolve ==
    /\ task.status = "waiting"
    /\ ckpt.active /\ ~ckpt.resolved
    /\ \/ ckpt.reason = "blocked"
       \/ ckpt.reason = "approval" /\ task.approved
    /\ ckpt' = [ckpt EXCEPT !.resolved = TRUE]
    /\ UNCHANGED <<task, attempts, tools, call>>

\* decide_approval revokes an approved step whatever the task is doing by then.
Withdraw ==
    /\ task.status \notin Terminal
    /\ ckpt.active /\ ckpt.reason = "approval" /\ ckpt.resolved
    /\ ckpt' = [ckpt EXCEPT !.resolved = FALSE]
    /\ UNCHANGED <<task, attempts, tools, call>>

\* answer_human_interaction; a reviewed plan may be sent back.
Answer ==
    /\ task.status = "waiting"
    /\ ckpt.active /\ ckpt.reason \in {"human", "review"} /\ ~ckpt.resolved
    /\ \E next \in {ckpt.next} \cup
                   (IF ckpt.reason = "review" THEN {"replan"} ELSE {}) :
        ckpt' = [ckpt EXCEPT !.resolved = TRUE, !.next = next]
    /\ UNCHANGED <<task, attempts, tools, call>>

----------------------------------------------------------------------------

\* The steps a call owes once it is under way.
Work(c) ==
    \/ Claim(c) \/ Adopt(c) \/ ClaimResume(c) \/ Dispatch(c)
    \/ Start(c) \/ Plan(c) \/ Execute(c) \/ Executed(c) \/ Validated(c)
    \/ Abort(c) \/ Release(c)

Enter(c) == RunRead(c) \/ RunUnclaimed(c) \/ ResumeRead(c) \/ ClaimOrphan(c)

Others ==
    \/ ExpireClaim \/ ExpireLease
    \/ Cancel \/ SetApproval \/ Resolve \/ Withdraw \/ Answer

Next ==
    \/ \E c \in Call : Enter(c) \/ Work(c) \/ UseTool(c) \/ Crash(c)
    \/ Others

Spec == Init /\ [][Next]_vars

\* A call that is not killed is executed by a running process.
FairSpec == Spec /\ \A c \in Call : WF_vars(Work(c))

----------------------------------------------------------------------------
(* Properties                                                              *)

Task == [status : Status, approved : BOOLEAN, holder : Call \cup {None},
         live : BOOLEAN, epoch : Nat]

Checkpoint ==
    [active : BOOLEAN, revision : Nat, attempt : Nat,
     action : {"none", "wait", "validate", "retry_execution", "replan"},
     reason : {"none"} \cup AllReasons,
     next : {"none", "retry", "replan", "validate"},
     resolved : BOOLEAN, planned : BOOLEAN, executed : BOOLEAN,
     progress : Progress, holder : Call \cup {None}, live : BOOLEAN]

CallState ==
    [pc : Pc, fenced : BOOLEAN, resumed : BOOLEAN, token : Call \cup {None},
     epoch : Nat, attempt : Nat, seen : Nat, progress : Progress]

\* Every row and every call is of the shape the code expects: statuses of the
\* two graphs, claims by calls, counters that never go below zero.
TypeOK ==
    /\ task \in Task
    /\ attempts \in Seq(AttemptStatus)
    /\ ckpt \in Checkpoint
    /\ tools \in {"none", "otherPlan", "thisPlan"}
    /\ call \in [Call -> CallState]

\* However many processes run, resume and take over: a task never has two
\* running attempts (record_attempt refuses the second, takeovers close the
\* first).
OneRunningAttempt ==
    \A i, j \in DOMAIN attempts :
        attempts[i] = "running" /\ attempts[j] = "running" => i = j

\* A task that is done, failed or cancelled has no attempt left running and no
\* checkpoint a resume could pick up, whoever ended it and whoever was at work.
TerminalClean ==
    task.status \in Terminal => ~Running /\ ~ckpt.active

\* Calls may get in each other's way: run() works on a waiting task without a
\* claim, and a claim that is read back late may be that of another call.
Shared == RunWaiting \/ SlowClaims

\* A waiting task can be woken: it has an active wait checkpoint whose attempt
\* is recorded as waiting, and nobody is at work on another one, unless calls
\* get in each other's way.
WaitingIsResumable ==
    task.status = "waiting" =>
        /\ ckpt.active /\ ckpt.action = "wait"
        /\ ckpt.attempt \in DOMAIN attempts
        /\ attempts[ckpt.attempt] = "waiting"
        /\ Running => Shared

\* Nobody has a valid claim on a task that is under way (what stale_task_ids
\* looks for), and nobody a valid lease on its checkpoint.
Abandoned == task.status \in Active /\ ~task.live /\ ~ckpt.live

\* A task lost by its process while executing or validating can be claimed by
\* the next resume(), whichever step the process died after.
ExecutionIsRecoverable ==
    Abandoned /\ task.status # "planning" => Claimable

\* The same for every abandoned task, which is what maintenance is there for.
AbandonedIsRecoverable == Abandoned => Claimable \/ Orphaned

\* A resume() that claimed a checkpoint with a finished execution can start the
\* validation it is there to repeat.
ResumedValidationStarts ==
    \A c \in Call : call[c].pc = "revalidate" /\ Owner(c) => CanStart(c)

\* The call is about to start a stage, or works on one.
AtWork(c) ==
    call[c].pc \in DOMAIN StageOf \cup Active \cup {"planned"}

\* The call works without a claim of its own: without any, or with one that it
\* read back after another call had taken the task.
Stray(c) == ~call[c].fenced \/ call[c].token # c

\* At most one call is entitled to write: a superseded worker commits nothing.
\* When calls get in each other's way two may pass the fence, but one of them
\* is astray, and only one has an open attempt, without which it decides nothing.
OneOwner ==
    \A c, d \in Call :
        AtWork(c) /\ Owner(c) /\ AtWork(d) /\ Owner(d) =>
            \/ c = d
            \/ /\ Shared /\ (Stray(c) \/ Stray(d))
               /\ ~(IsRunning(call[c].attempt) /\ IsRunning(call[d].attempt))

\* The checkpoint is the one that the call read, or the last that it wrote.
Current(c) ==
    ckpt.revision = call[c].seen \/ ckpt.attempt = call[c].attempt

Within(p) ==
    p.retries <= MaxRetries /\ p.replans <= MaxReplans /\ p.cycle <= MaxCycles - 1

NotLess(p, q) ==
    p.retries >= q.retries /\ p.replans >= q.replans /\ p.cycle >= q.cycle

EntersStage(c) == call[c].pc \in DOMAIN StageOf /\ call'[c].pc \in Active

\* Crashes, takeovers and resumes never give back spent retries, replans or
\* cycles, and no checkpoint records more than the configuration allows.  A call
\* that starts a stage counts on from the checkpoint.  When calls get in each
\* other's way, one that starts on a checkpoint it neither read nor wrote may
\* count from its own figures, and only its commits can take some back.
BudgetKept ==
    /\ Within(ckpt'.progress)
    /\ \A c \in Call : EntersStage(c) =>
            call[c].progress = ckpt.progress \/ (Shared /\ ~Current(c))
    /\ \/ NotLess(ckpt'.progress, ckpt.progress)
       \/ /\ Shared
          /\ \E c \in Call : /\ call[c].pc \in Active /\ IsRunning(call[c].attempt)
                            /\ ckpt'.attempt = call[c].attempt
                            /\ call[c].progress # ckpt.progress

BudgetNeverReset == [][BudgetKept]_vars

\* The blocker of the wait is gone.  (An approval may be withdrawn after
\* resume() looked; the executor asks for it again.)
Unblocked == ckpt.reason \in {"auto", "approval"} \/ ckpt.resolved

\* A task leaves a wait only when its blocker is gone.  When calls get in each
\* other's way, a call that neither read nor wrote the checkpoint of this wait
\* may start a stage over it; one that did may not.
WaitRespected ==
    [][task.status = "waiting" /\ task'.status \in Active =>
        \/ Unblocked
        \/ Shared /\ \E c \in Call : EntersStage(c) /\ ~Current(c)]_vars

\* Every call that begins returns, unless its process dies: the budgets bound
\* the cycles, and a lost claim or a refused transaction ends the call.
CallsReturn ==
    \A c \in Call : call[c].pc # "idle" ~> call[c].pc \in {"finished", "crashed"}

\* The task and attempt tables keep the promises of TaskLifecycle, whatever the
\* calls do between transactions; those for calls that share a task when calls
\* can get in each other's way.
PhaseOf(status) ==
    CASE status \in {"created", "ready"} -> "pending"
      [] status \in Active -> "working"
      [] status = "waiting" -> "parked"
      [] OTHER -> "closed"

Lifecycle == INSTANCE TaskLifecycle WITH phase <- PhaseOf(task.status),
                                         log <- attempts, Shared <- Shared

KeepsLifecycle == Lifecycle!Spec

====
