# A verification of md-harness

md-harness drives tasks through planning, execution and validation. A task lives
in one SQLite file that several processes may open at the same time: `harness
run`, `harness resume`, the HTTP API, the maintenance job of the operating
system's scheduler. Everything that has to survive a process is a row of that
file, so the difficult part of the program is a protocol on rows: claims with
leases and epochs, attempts, a checkpoint that says how to go on, a journal of
tool calls whose effect may be unknown, questions that wait for an answer.

Next to it run jobs of the operating system's scheduler: backups, restore drills and
alerts, whose state is files on two hosts.

This directory holds TLA+ models of these protocols and of what a task goes through from
its plan to the verdict, TLC configurations that check them on small instances, and proofs
for any number of calls.

Paths below are relative to `src/src/harness/` of the repository snapshot.

## 1. Inventory

| Component | State | Operations | Talks to | What is hard | What makes it correct |
|---|---|---|---|---|---|
| Status graph (`storage/task_store.py`) | `tasks.status`, `approval_status` | `transition` | every writer | a status nobody expected when the transition is finally made | only edges of the graph; planning and execution need an approval |
| Orchestrator (`engine/orchestrator.py`) and unit of work (`storage/transaction.py`) | local plan, counters, fencing identity | `run`, `resume`, `cancel`; one transaction per decision | all stores, planner, executor, validator | crash between two transactions, takeover while a stage is running, answers that race a resume | one owner, one running attempt, nothing half-ended, budgets kept, every lost task recoverable |
| Claims and attempts (`storage/task_store.py`) | `claim_token`, `claimed_until`, `execution_epoch`; `task_attempts` | `claim`, `renew_claim`, `release_claim`, `record_attempt`, `cancel` | orchestrator | an expired lease whose holder is still alive | an epoch has one writer |
| Checkpoints (`storage/checkpoint_store.py`) | one row per task with revision and resume lease | `save`, `claim_resume_lease`, `invalidate`, `resolve_external_wait` | orchestrator, human answers | a checkpoint that changes between being read and being claimed | a waiting task has a checkpoint that can wake it |
| Executor and tool journal (`engine/executor.py`, `storage/tool_invocation_store.py`) | `task_tool_invocations` | `execute`; `reserve`, `complete`, `resolve` | tools (effects outside the database), orchestrator | crash between effect and record; a superseded worker inside a tool call | no effect is repeated blindly; an unknown outcome stops the task |
| Step approvals (`storage/approval_store.py`, `security/approval.py`) | `task_step_approvals` | `create`, `decide`, `ready` | executor, orchestrator | an approval of an older plan or of other arguments | only the approved call is made |
| Human interactions (`storage/human_interaction_store.py`, `engine/hitl.py`) | `task_human_interactions` | `create`, `answer`, supersede | orchestrator, vault outbox | a late answer to a superseded question | an answer belongs to the wait it was given for |
| Decision vault (`knowledge/decision_vault.py`) | `vault_decision_outbox`, note files | `publish_pending`, claim, finish | answers | two publishers, crash between file and row | every answer is published, once, with its content |
| Maintenance and process lock (`cli.py`, `storage/operations.py`) | lock file | `_run_maintenance`, `process_lock` | resume, run, the other jobs | overlapping jobs; tasks that cannot be recovered in front of those that can | one run of a job per host; every lost task is resumed |
| Backup (`storage/operations.py`) | copies in a directory that is rotated | `create_verified_backup`, `verify_backup`, `restore_verified_backup` | database, file system | runs that fail leave files, which the rotation counts | the last good copy is kept |
| Offsite backup (`storage/offsite_backup.py`) | bundles and a manifest on another host, receipts on this one | `create_offsite_backup`, `restore_drill` | other host, doctor | a damaged transfer, a loss nobody notices, a drill next to a backup | a receipt means a copy that was restored; a loss is noticed |
| Alerting (`alerting.py`) | alert state file | `evaluate_alerts` | doctor's report, webhook | a refused message, a run that is killed between message and record, a check that fails again | a failure is told, and told to be over |
| Dependencies (`storage/task_store.py`) | `task_dependencies` | `add_dependency`, `_depends_on` | task selection | a cycle through several edges | the graph stays acyclic |
| Planner (`engine/planner.py`) | none | `plan` | orchestrator | steps in an order that cannot be proven | a plan only of tasks that can be carried out |
| Validator (`engine/validator.py`) | none | `validate` | orchestrator | evidence of another pass, evidence that never comes | no success without the evidence, and success with it |
| Tools (`tools/`) and policies (`security/tool_policy.py`) | files, repository | `execute`, `authorize` | executor | effects that nobody recorded | see the executor |
| Agent runner, secrets, context builder, events, artifacts, CLI, API, migrations, launch agents | little or none | | | | listed in `PROJECT.json` with the reason they are left out |

### How the parts interact

`run` reads the task, claims it (status `ready` becomes `planning`, epoch + 1) and
remembers token and epoch as its fencing identity. Every stage opens an attempt in
the transaction that moves the status. The stage itself (planner, executor,
validator) runs outside of any transaction while a heartbeat renews the lease. Its
decision is one transaction, `commit_decision`: attempt, task, checkpoint and events
together, refused when the fence (`assert_owner`) no longer holds. `resume` reads
the checkpoint, claims task and checkpoint in one transaction (closing the attempt
of a lost process) and dispatches on `next_action`. Humans, approvers and operators
change the same rows in transactions of their own that are not fenced.

The stages of a task meet in three places: the plan the planner returns is what the
executor walks through; the results of its steps are what the validator judges; and the
checkpoint, which the orchestrator writes after each of them, says which steps a later
pass leaves out. Outside of tasks, `harness backup` and `harness restore-drill` share a
lock and two receipts; the doctor's report (`inspect_database`) judges the age of the
receipts, and `harness alert` compares that report with what it has already told.

## 2. Modules

| Module | Models | Built on |
|---|---|---|
| `TaskStatus` | the status graph and its approval rule | |
| `Engine` | one task under any number of concurrent `run` and `resume` calls | `TaskStatus` |
| `TaskLifecycle` | abstract: what the task and attempt tables promise | |
| `MCEngine` | `Engine` for TLC (symmetry) | `Engine` |
| `EngineProofs` | theorems about `Engine` that need no more than its tables | `Engine`, TLAPS |
| `EngineClaimProofs` | theorems about recovery, ownership, waits, budgets, and that `Engine` implements `TaskLifecycle` | `EngineProofs` |
| `ToolJournal` | the steps of a plan, the journal of tool calls and their effects outside, under any number of processes | |
| `MCToolJournal` | `ToolJournal` for TLC (what each step of a plan is) | `ToolJournal` |
| `JournalProofs` | theorems about `ToolJournal` | `ToolJournal`, TLAPS |
| `StepApproval` | the grants that single steps of a plan need, from the request to the call | |
| `MCStepApproval` | `StepApproval` for TLC (which steps need a grant) | `StepApproval` |
| `ApprovalProofs` | theorems about `StepApproval` | `StepApproval`, TLAPS |
| `DecisionOutbox` | questions of a task, their answers, and any number of processes that publish answers as notes | |
| `DecisionRecord` | abstract: what an answer and its note promise | |
| `Alerting` | the alert state file, the runs that compare it with a report, and the messages they send | `Alarm` |
| `Alarm` | abstract: what a person at the channel is promised | |
| `Backup` | backups on this host and on another, their receipts, and drills | |
| `Operations` | the jobs of one host side by side: `Backup` as it is, alerts as `Alarm` promises them | `Backup`, `Alarm` |
| `FileTask` | one task that writes a file, from the plan through passes of the executor to the verdict | |
| `MCFileTask` | `FileTask` for TLC (which tasks are tried) | `FileTask` |
| `BackupProofs` | theorems about `Backup` among the jobs of `Operations` | `Operations`, TLAPS |
| `AlertingProofs` | theorems about `Alerting`, and that its steps are those of `Alarm` | `Alerting`, TLAPS |
| `FileTaskProofs` | theorems about `FileTask` | `FileTask`, TLAPS |
| `OutboxProofs` | theorems about `DecisionOutbox`, and that it implements `DecisionRecord` | `DecisionOutbox`, TLAPS |

### Engine: state

| Variable | Code |
|---|---|
| `task` | row of `tasks`: `status`, `approval_status = 'approved'`, `claim_token` (`holder`), whether `claimed_until` lies ahead (`live`), `execution_epoch` |
| `attempts` | rows of `task_attempts` in id order |
| `ckpt` | row of `task_checkpoints`: `invalidated_at IS NULL` (`active`), `next_action`, `revision`, `attempt_id`, reason code, whether the blocker is resolved, whether the payload has a plan and an execution, the three counters, resume lease |
| `tools` | the journal as far as `has_for_task` and `has_for_plan` can tell |
| `call[c]` | where a call stands; its fencing identity, attempt, counters and the revision it read |

Time is abstracted: a lease that is valid may stop being valid at any moment, and
renewal only keeps a valid lease valid. The planner, the executor and the validator
are choices between their possible results. Events, artifacts and messages are left out.

### Engine: actions

| Action | Code |
|---|---|
| `RunRead`, `Claim`, `Adopt` | `_claim_task`: the read of the status, `TaskStore.claim`, the read of token and epoch after it |
| `RunUnclaimed` | `run()` on a waiting task, where `_claim_task` answers `None` |
| `ResumeRead`, `ClaimResume`, `Dispatch` | `resume()`: the first read, `claim_resume_lease`, the second read and `_resume_from_checkpoint` / `_resume_wait` |
| `ClaimOrphan` | `claim_orphaned_run` |
| `Start` | the transaction that enters a stage: `start_cycle` or the branch of `_run_pipeline` for claimed calls |
| `Plan`, `Execute`, `Executed`, `Validated` | the decision after each stage, and the transition between plan and execution, which is a transaction of its own |
| `UseTool` | `begin_tool_invocation` |
| `Abort`, `Release` | a refused transaction; the `finally` blocks |
| `Crash`, `ExpireClaim`, `ExpireLease` | a process dies; a lease runs out |
| `Cancel`, `SetApproval`, `Resolve`, `Withdraw`, `Answer` | what people and other processes do to the task |

Two switches say what the environment does. `RunWaiting` lets `run()` be called for a
task that waits. `SlowClaims` lets other calls get through between the statements of
one claim; without it, the status that `run()` read still holds when it claims and its
lease does not run out before it has read token and epoch back. The code permits both:
`POST /tasks/{id}/run` (`api.py:110-120`) and `harness run` call `run()` without looking at
the status, and nothing keeps a lease alive between the claim and the read after it. The
switches only select what a run explores. Every property is stated for all four settings:
where one of the two leaves an exception, the property names it, guarded by `Shared` (either
switch is on), and so does `TaskLifecycle`, to which `Shared` is a constant.

### ToolJournal: state

`Engine` asks the journal only whether it has rows. `ToolJournal` is about the rows:
which step is called, what is known of the call, and what happened outside. To keep both
small it reduces a claim to its owner (a takeover may come at any moment a task is under
way, as a lease may have run out) and makes claim, plan and the move to `executing` one
action; how these interleave is the subject of `Engine`. A lost validation is not taken
over here: `engine_revalidate` shows that it aborts.

| Variable | Code |
|---|---|
| `task` | `status`, the owner of the claim, the worker whose attempt is running |
| `ckpt` | `next_action` (`kind`), plan, `completed_steps`, the reason of a wait with the row it asks about, cycles |
| `journal` | `task_tool_invocations.status` for each plan fingerprint and step id |
| `worker[w]` | position in `Executor.execute`; `known` is `context.completed_steps`, `done` the steps that succeeded in this execution, `row` the row of unknown outcome |
| `effects`, `refuted`, `performed` | histories, no code: how often a step took effect, how often somebody said it had not, which steps of a plan succeeded |

### ToolJournal: actions

| Action | Code |
|---|---|
| `Run`, `RunUnclaimed`, `Wake`, `Takeover` | how an execution begins: `run()`, `run()` on a waiting task, `resume()` of a wait, `resume()` of a lost execution |
| `CheckPending`, `Skip`, `Read`, `Reserve`, `Call`, `Complete` | the step loop of `Executor.execute`, with the transactions around a tool call |
| `Refuse`, `FailedTest`, `Uncertain`, `Executed` | how the loop ends, each with the decision that follows (`_finish_persistent_execution`) |
| `Validated`, `Replan` | `_finish_validation`; the next cycle with another plan |
| `Abort`, `Crash` | a refused transaction; the process dies, and its tool with it |
| `Confirm`, `Refute` | `resolve_tool_invocation`, by a person or by the readback of a written file |
| `Unblock`, `Cancel` | an approval or answer; cancellation |

`Call` is the only action outside of the database, and no fence reaches it: a worker that
has lost the task may still be inside. A verdict is honest, it says what is the case when
it is given. `RunWaiting` lets `run()` be called for a waiting task; `LateCalls` lets a
verdict be given while the call is still going on, so that its effect may come after it.
As in `Engine`, the properties name the exceptions that `RunWaiting` leaves.

### StepApproval: state

`agents/runner.py` marks each step with an effect as one that needs a grant. The executor
asks for it when it gets there, the task waits, a person decides about exactly this
request, and a resumed execution finds the decision. Claims and the journal are those of
`Engine` and `ToolJournal`, reduced further: every step has an effect, effects are not
counted, a validation is its decision, and `run()` is not called for a waiting task.

| Variable | Code |
|---|---|
| `task` | `status`, `approval_status = 'approved'`, the owner of the claim |
| `ckpt` | as in `ToolJournal`, with `wait_token` |
| `grant` | rows of `task_step_approvals` per wait token: `status`, plan, step. A plan stands for its version and fingerprint, which covers tool and arguments of each step |
| `waits` | wait tokens given out; a token is a fresh UUID in the code, a number here |
| `journal`, `worker[w]` | as in `ToolJournal`; `token` is the request with which a step was authorized |
| `used` | history, no code: calls that were reserved with a request |

### StepApproval: actions

| Action | Code |
|---|---|
| `Run`, `Wake`, `Takeover`, `Supersede` | `run()`, `resume()` of a wait that is over (`_resume_wait`, `_approval_checkpoint_ready`), `resume()` of an execution whose process is gone, or only slow |
| `CheckPending`, `Skip`, `Authorize`, `Reserve`, `Complete` | the step loop; `Authorize` is `ToolSecurityPolicy.authorize` with `_approval_allowed`, a transaction before the one of `begin_tool_invocation` |
| `AskApproval`, `Uncertain`, `Fail`, `Finish`, `Replan` | how the loop ends and goes on: wait for a grant, wait for a verdict, an error before the call, all steps done, the next plan |
| `Approve`, `Reject`, `Revoke` | `decide_approval` |
| `Judge`, `SetApproval`, `Cancel`, `Abort`, `Crash` | verdicts about unknown outcomes; approval of the whole task; cancellation; a refused transaction; a process dies |

Four things that this module makes visible and that no document of the repository
contradicts: a request that was rejected or revoked cannot be approved any more, so its
task waits until somebody cancels it or calls `run()`; a revocation after `authorize` does
not stop the call that follows it; a plan that the validator sends back is asked for the
grants of its steps again although the journal will answer for those that are completed;
and when the approval of the whole task is withdrawn during an execution, a request is
made for the step at hand even if that step needs no grant.

### DecisionOutbox: state

| Variable | Code |
|---|---|
| `task` | what answering depends on: whether the task waits, and the `wait_token` of the active checkpoint (`create_human_wait` uses the id of the question for it) |
| `inter` | rows of `task_human_interactions`: `status`, `response_data`; `kept` says whether the kind of the question, or its `reusable` flag, makes the answer a decision to keep |
| `outbox` | rows of `vault_decision_outbox`: `status`, `claim_token`, whether `claim_expires_at` lies ahead (`live`), `attempts` |
| `note` | the file `<interaction id>.md`: absent, equal to the content the answer gives, or something else |
| `pub[p]` | where a call of `publish_pending` stands, with its row, token and the rows it has `seen` |
| `held` | history, no code: rows whose file was the decision at some time |
| `faults`, `edits` | counters for the two bounds |

A claim token is a fresh UUID; here it is the number of the claim, `attempts` after it,
which differs for each claim of a row. Content is a function of the answered row, so two
publishers of one row produce the same note.

### DecisionOutbox: actions

| Action | Code |
|---|---|
| `Ask`, `Save`, `Work`, `Park`, `Cancel` | `create_human_wait` with its superseding; what else changes the active checkpoint: a save, a call that picks the task up, `_resume_wait` without an answer, cancellation |
| `Give` | `answer_human_interaction`, the row of the outbox included |
| `Begin`, `Claim` | `publish_pending`, `_claim` |
| `Inspect`, `Link` | `_write` up to the check of the file, then the link that puts the note there; between the two anything may happen |
| `Finish` | `_finish`, which finds the row by its token |
| `Fail`, `Crash` | a file operation raises; the process dies |
| `Expire`, `Overrun` | a claim runs out, of a process that is gone or of one that is slow |
| `Edit` | a person writes or changes a note |

### Alerting: state

| Variable | Code |
|---|---|
| `failing` | checks of `inspect_database` that are not ok when the report is made |
| `slack` | whether a webhook is configured (`_run_alert`) |
| `file` | alert state: per check whether it is under `active` or `resolved`, how long ago `first_seen`, `last_notified` and `last_emitted` are, `escalated` |
| `run` | where a run of `evaluate_alerts` stands, with the notifications it still has |
| `told` | history, no code: what the channel last said about a check |

Times are ages in ticks, which pass between runs and stop at the largest one that any
comparison can tell from others.

### Alerting: actions

| Action | Code |
|---|---|
| `Evaluate` | `evaluate_alerts` up to its first save: `active` and `resolved` after the report, and what is due |
| `Deliver`, `Record` | `notifier.send`, then the entry and the save after it |
| `Refuse` | `send` raises; the message may have arrived |
| `Emit` | a notification without a channel, which only becomes part of the output |
| `Crash` | the process dies anywhere, or a save raises |
| `Tick`, `Change`, `Configure` | time; a check fails or is ok again; the configuration changes between runs |

### Backup and Operations

| Variable | Code |
|---|---|
| `copy` | `harness-<stamp>.sqlite`, absent, not verified, or good |
| `artifact`, `manifest` | bundles and `latest.manifest` on the other host |
| `receipt`, `age`, `drilled` | the backup receipt of this host with the age of its `created_at`, the age of the drill result |
| `backup`, `drill` | where each job stands |
| `newest` | history, no code: the last backup whose local part was completed |
| `open`, `noticed`, `told` | those of `Alarm`, in `Operations` |

| Action | Code |
|---|---|
| `Copy`, `Verify`, `Rotate` | `create_verified_backup`: the copy, `verify_backup`, the files that are removed |
| `Upload`, `List`, `Confirm` | `create_offsite_backup`: bundle, its readback and the manifest, the readback of that and the receipt |
| `Find`, `Restore`, `Attest` | `restore_drill`: the manifest, the restored bundle with the receipt, the result |
| `GiveUp`, `Fail` | an error, or the process dies, between any two of these |
| `Tick`, `Lose` | time; a bundle on the other host is lost |
| `Look`, `Tell` | a run of `harness alert` that sees the report; one that says so |

That time does not run backwards is assumed of the stamps in file names, and that a
rotation is one step of the model: it unlinks old files one by one, oldest first, and
stopping in between leaves more of them, as a failed run does. A manifest may arrive
damaged, a bundle may too, and either is found when it is read back.

### FileTask: state

| Variable | Code |
|---|---|
| `task` | what decides about its plan and its evidence: the form of its text, tools, what is wrong with it, the file before the task and in the last commit, whether git shows it, what its test does |
| `disk`, `litter` | the file; whether the files the test adds are there |
| `stage` | `status`, with `dead` for an execution whose process is gone |
| `ckpt` | `completed_step_ids` of the checkpoint, and whether it is the one written with the plan |
| `journal` | rows of this plan: `happened`, `missed` and `failed` are `started` with what became of the call, `left` is `completed` with `changed_files` |
| `at`, `got` | the step loop: next step, and `result` of the steps before it |
| `spent` | retries, replans, cycles |
| `proof` | history, no code: what was read in this pass, how the test was passed |

### FileTask: actions

| Action | Code |
|---|---|
| `MakePlan` | `Planner.plan`: a title `Create file: ...` or a declared change gives concrete steps, any other text steps without arguments |
| `Unsettled`, `Skip`, `Refuse`, `Look`, `Journaled`, `Write`, `Test`, `TestFails` | a pass of `Executor.execute` with the tool of each step |
| `Judge` | `Validator.validate` and the decision about its result |
| `Interrupt`, `Die` | a call that raises or whose process dies, with or without its effect; a process dies elsewhere |
| `Resume`, `Settle` | `resume()` of a lost execution; the readback of a written file, or a person's verdict |
| `Edit` | a person writes another content, or removes the file |

`Again` is the budget of both the executor's and the validator's decision.

What this module makes visible and no document of the repository contradicts:

* A declared change is judged by the read before its write, since the first read of the
  path is taken (`validator.py:190`). Its first pass always ends in a mismatch unless the
  file had the content before, and the read after the write, `verify-<n>`, is never looked
  at: when somebody changes the file between the write and that read, the task is done
  nevertheless. Such a `create` of a file that is not there fails in its first read. No
  code but tests sets `metadata["change"]`.
* Files that a test leaves behind make a declared change plan again, once.
* A wait in the middle of a pass costs a retry: what was read before it is `resumed`, which is
  not the content that is asked for.
* A file whose wanted content is that of the last commit cannot be done by title with git among the
  tools, because git has nothing to show.
* A retry does not write the file again, as the journal answers for the write: a task whose
  file somebody changes after it was written fails.
* The row of a failed test command stays `started`, so that the retry that is scheduled
  waits for a verdict first; `engine/engine.md:522` describes this wait for crashes and
  write errors only.

## 3. Runs

| Run | Instance | Shows |
|---|---|---|
| `engine_waits` | 2 calls, all five kinds of wait, both switches on | shapes of all rows; a waiting task can be woken; who knows of a wait ends it only when its blocker is gone; the tables refine `TaskLifecycle` |
| `engine_takeover` | 3 calls, switches off | a lost execution or validation can be claimed; spent budget is never given back |
| `engine_any_schedule` | 2 fair calls, both switches on | one running attempt at a time; two owners only if one of them has no claim of its own, and never two with an open attempt; an ended task has nothing left open, and a call that begins returns |
| `engine_stranded` | 2 calls | violated: a process lost between persisting a plan and starting to execute it leaves a task that no takeover accepts |
| `engine_revalidate` | 2 calls | violated: a validation lost with its process can be claimed but not started again |
| `journal_calm` | 2 workers, 2 plans of 3 steps, switches off | a step of a plan takes effect at most once |
| `journal_any_schedule` | 2 workers, 2 plans of 2 steps, both switches on | one open call per task; a second effect only after a verdict that there was none; a wait for an outcome can be ended, and only steps that succeeded reach validation, but for what an unclaimed run can do |
| `approval` | 2 workers, 2 plans of 2 steps | a step is called only with a grant for this step of this plan, a grant is good for one call, an approved task does not stay where it is |
| `outbox` | 2 questions, 2 publishers | a decision is settled once, as a note that is the answer or as a case for a person, and it is settled in the end; nothing a person wrote is lost |
| `alerting` | 2 checks, cooldown 1, repeat 2, escalation 1 | what is recorded as told was told; the runs implement `Alarm`; a failure that lasts is told as urgent, again and again |
| `operations` | 3 backups, 1 copy kept, 2 faults | receipts name bundles that were restored once and never go back; rotation keeps the last good copy; a loss of everything on the other host is told to a person |
| `file_task` | 400 kinds of tasks, the limits of the code, 2 lost calls or processes, 1 edit | a task that is done has its file and its proof; one that can be proven is done within the limits |

Bounds: one retry, one replan and two cycles are the smallest values for which every
branch of the budget (another try, another plan, each limit exceeded) occurs. Two calls
suffice for every race between an old and a new owner; `engine_takeover` uses three, so
that a takeover can itself be taken over. Each call runs once; `attempts`, `revision` and
`epoch` stay bounded because calls and budgets are.

In the journal runs two workers give the old and the new owner, and two plans a plan and
its replacement; two cycles allow one retry or replan. The two plans of `journal_calm`
have a read, a test command and another effect, in different orders, so that each kind of
step is followed by another in which a process can be lost, and equal step ids stand for
different calls. `journal_any_schedule`, which has far more schedules, has two steps per
plan. One refutation per row (`MaxRefuted`) is enough for a row to be opened a second
time, and for a late effect after it.

In `approval` one plan has a free step before the one that needs a grant, the other needs
one for each step, so that one request is over when the next step is authorized. Three
waits (`MaxWaits`) allow a request, a wait for a verdict about the call made with it and a
second request; two cycles a retry or replan between them; one fault a crash or a
takeover of a slow process at any point. Takeovers of processes that are gone are not
bounded.

In `outbox` two questions give an open one and the one that supersedes it, two answers
one that is published and one that looks like a secret, two publishers every race for a
row or a file. `MaxFaults = 2` allows, for example, a claim that runs out under its holder
and then a crash of the process that took over; failing files, crashes and slow writers
share it. `MaxEdits = 1` is a person who writes before, between or after the two looks at
a file. `Limit` covers both rows. `created_at`, by which rows are ordered, has a
resolution of a second, so rows are claimed in any order.

In `alerting` two checks give a message before and one after the one that fails, and the
three intervals are different where the code tells them apart. `Tick` is not bounded,
ages are. In `operations` three backups are one that is replaced, the one that
replaces it and a run that fails in between; `Keep = 1` is the setting where rotation
comes closest; two faults damage a bundle and lose another, or its manifest. In
`file_task` the limits are the defaults of the code. Two lost calls can hit the write and
the test of one plan, or of two; three change nothing of the result. `MCTasks` leaves out
combinations of attributes of which one makes the others irrelevant.

More can be seen with these models than the two violated runs. `_claim_task` reads token
and epoch back after its claim has committed (`orchestrator.py:295`), and a call that is slow
between the two adopts the identity of the call that took over. And `run()` on a waiting task
goes on although `_claim_task` answers `None` (`orchestrator.py:303`). The properties say
exactly what this can lead to, as the exceptions under `Shared` and `RunWaiting`:

* Two calls can pass the fence at once (`OneOwner`). One of the two has no claim of its own,
  and only one has an open attempt, without which no decision is recorded;
  `OneRunningAttempt` and `OneOpenRow` hold without exception.
* A stage can begin over a wait whose blocker is still there (`WaitRespected`), and budget can
  be given back (`BudgetNeverReset`), but only by calls that neither read nor wrote the
  checkpoint they work on.
* One call can park the task while another works (`WaitingIsResumable`, `TaskLifecycle`).
  `resume()` accepts the task, but no stage starts next to the open attempt, and since the
  decision of its own call is refused, only a cancellation closes it.
* The context of a new plan is built from the checkpoint of the wait
  (`context_builder.py:67`), and a step of the new plan that has the id of a step the old plan
  completed is skipped as resumed (`executor.py:80`). `ExecutedMeansPerformed` says that it
  can only be a step without an effect, since such a run ends when the journal has rows.
* An open row can belong to another plan than the checkpoint; the verdict on it is refused
  as stale (`transaction.py:819`) and the wait does not end (`OutcomeDecidable`).

The runs that check these properties have `RunWaiting` on, and `SlowClaims` where it exists; only
`engine_takeover`, which needs three calls and has far more schedules, has both off, and
TLC confirms `BudgetNeverReset` with both on for two calls. What holds with the switches off, that
is, without the exceptions, is the other half of the theorems of section 4. To see an exception
happen, remove its disjunct; two calls or workers are enough, three for a task that one call
parks while another works.

Fairness (`FairSpec`): weak fairness of `Work(c)` for each call. A call that is not
killed is executed by a running process, its transactions succeed or raise, and its
stages return. `Crash`, expiries, people, and `Enter` are not fair. Safety runs use no
fairness.

`StepApproval` assumes, besides the fairness of running calls, that a task that can go on
is resumed: a wait whose request was approved by an operator, who calls `resume` so that the
workflow goes on once the blocker is gone (`engine/engine.md:404`), a lost execution by the
maintenance job (`cli.py:384`). Nobody has to
decide: `GrantsLeadOn` begins when a request has been approved. It ends with another
checkpoint, a withdrawal or the end of the task, or at the bound of waits.

`DecisionOutbox` assumes that publishing is called again and again: at the start of an
application, after each answer, and by the maintenance job that the operating system
starts periodically. It also assumes that a claim whose holder is gone runs out, which
five minutes see to. Faults are bounded, so `Settles` speaks of a system whose file
operations work in the end; a note that can never be written stays `pending`, which is
what the code intends.

`Alerting` assumes that the scheduler starts `harness alert` again and again and that time
goes on in between. The webhook may refuse and processes may be killed at any moment, but not
the same step for ever: `Deliver` and `Record` are strongly fair. Nobody has to fix a
check, change the configuration or leave it alone. `Operations` takes from it the fairness
of `Alarm` and adds that a job which stands still is over at some time; no backup or drill
has to be made, since a loss must be told just then.

`FileTask` assumes that what is lost is resumed and that a wait is answered: the file
answers for a write, and for a test a person, who says what is the case.

## 4. Proofs

`EngineProofs` proves for any set of calls, any limits and both values of each switch:

* `TypeCorrect`: `Spec => []TypeOK`
* `OneAttemptAtATime`: `Spec => []OneRunningAttempt`
* `EndedTaskIsClean`: `Spec => []TerminalClean`

The assumptions are those of `Engine`: `None` is no call, the limits are natural numbers
with at least one cycle, the switches have the type of their use. The inductive invariant
is the conjunction of the three: the second needs the type of `attempts`, and the third
needs the second, because a decision closes only the attempt of its own call and ends the
task: that nothing else is running then is `OneRunningAttempt`. One lemma describes how
any step changes the attempt table (`LogChanges`: not at all, by opening an attempt next
to closed ones, by closing one, or by closing all), and both later theorems follow from it.

`EngineClaimProofs` proves, for the same values, first

* `LostExecutionIsRecoverable`: `Spec => []ExecutionIsRecoverable`

`History` is what it needs: which attempt a checkpoint is about and what is recorded of that
attempt. It says nothing of claims. The others do:

* `OnlyOneOwner`: `Spec => []OneOwner`
* `WaitsCanBeResumed`: `Spec => []WaitingIsResumable`
* `WaitsAreRespected`: `Spec => WaitRespected`
* `BudgetIsKept`: `Spec => BudgetNeverReset`
* `LifecycleIsKept`: `Spec => KeepsLifecycle`, that is, `TaskLifecycle!Spec`
* `LostClaimsStayLost`: `Spec => LostForGood`, an action property that is only stated there

None of them assumes anything of the switches. A `run()` that enters a waiting task
(`orchestrator.py:303`, `331-344`) and a claim that is read back after another call has taken the
task (`orchestrator.py:295`) are steps of `Spec`, and the theorems say what both leave
standing.

The invariant for any schedule is `Steady`: `TypeOK`, `OneRunningAttempt`, `History` and six more
parts. `Fresh` and `Behind`: a call that has read nothing knows nothing, and nobody knows
of revisions or attempts to come. `OwnAttempts`: no two calls hold the same attempt. `Parked`: a
waiting task has the checkpoint of a wait. `PlanStands`: between a plan and its execution the
task is planning with the attempt of this call open. `Informed`: a call that works on
the checkpoint it read or wrote knows its budget, and that its wait is over. None of them
mentions fences. A call is kept to the truth by the attempt it must have open to
decide, and an attempt belongs to one call.

What more holds without sharing is `Sound`: besides the first three parts `WaitingIsResumable`,
`Claims` (every call at work is fenced, by its own token or by none) and `Holds` (what the
holder of the claim has read is still true). A call that has lost its claim may believe
anything: lemma `OwnerHolds` shows that only the holder passes the fence, so only its beliefs
get into the tables. `SoundOrShared` puts the two together: in every schedule of every instance
`Steady` holds, and `Shared \/ Sound`. From the first come the exceptions, from the second that
there are none without sharing.

`LostForGood` says of any schedule that a call with a claim that does not pass the fence will
never pass it again. Every step that gives the task to a call counts the epoch up, or else
only lets claims go (`NewEpoch`, `LetsGo`), and a call takes an identity on only while it has
none; `Identified` is the fact that its epoch is never ahead of that of the task.

`JournalProofs` proves for any workers, plans, steps and limits and both values of each
switch:

* `JournalTypeCorrect`: `Spec => []TypeOK`
* `JournalOneOpenRow`: `Spec => []OneOpenRow`
* `JournalNoBlindRepeat`: `Spec => []NoBlindRepeat`

`OneOpenRow` is inductive as it stands, since `reserve` looks at all rows of the task in
the transaction that opens one. `NoBlindRepeat` is not: it says nothing of calls under
way, and a call may have its effect without asking anybody. The invariant `Accounted`
counts the workers inside the tool together with the effects and bounds the sum by what
the rows permit: one for a row that is open or completed and one for each verdict that
there was no effect. Opening a row raises both sides, an effect moves a worker from one
summand to the other, a verdict exchanges the open row for the count of refutations, and
every other step only lets workers leave (lemmas `Quiet`, `MovesLeave`). Fences and claims
play no part in the argument; that is why it survives both switches.

Three more make no assumption about the switches either, the last an action property that
only the proof module states; one does:

* `JournalExecutedMeansPerformed`: `Spec => []ExecutedMeansPerformed`
* `JournalOutcomeDecidable`: `Spec => []OutcomeDecidable`
* `JournalStrayRows`: `Spec => StrayRowsAreUnclaimed`
* `JournalEffectOnce`: `Spec => []EffectOnce` if `~LateCalls`

If a verdict may be given while the call goes on, the effect of the call and that of its
repetition may both happen; `JournalNoBlindRepeat`, which assumes nothing, is what is left then.
`EffectOnce` rests on `Careful`: a row that was not opened, or refuted, has had no effect, and a
call under way is the only one and has had none yet.

`Proven` says of each place that takes a step for done (rows, `completed_steps` of the
checkpoint, what a worker knows and what it did) that the step was performed for the plan it
is taken for, and that a checkpoint from which a claimed worker begins another plan lists none.
A `run()` that enters a wait does take over what the old plan completed. It works only with an
empty journal, though, and `Called` says that a step with an effect succeeds only with a
row; so what it takes over was only read (`TakenOver`), which is the exception of the property.

For verdicts, `Recorded` says that the row a wait asks about is in the journal. `Matching` says
that a worker with a claim has the plan of the checkpoint as long as it passes the fence; so
`reserve`, which does not look at the checkpoint, opens a row of another plan only for a worker
without a claim. This is `JournalStrayRows`, and the only source of the exception in
`OutcomeDecidable`. Without `RunWaiting` every worker has a claim (`Fenced`), and `Askable` follows:
open rows belong to the plan in the checkpoint, and after its first look at the journal the
owner has none but its own. With `OneOpenRow` a verdict on the row is accepted then, unless
it is settled already and `resume` goes on without (`AskableOrShared`).

`ApprovalProofs` proves for any workers, plans, steps, needs and limits:

* `ApprovalTypeCorrect`: `Spec => []TypeOK`
* `ApprovalCallsAreGranted`: `Spec => []CallsAreGranted`

The invariant of the second adds two facts. `Fresh`: tokens above `waits` have no request,
so that a new request replaces none. `Entitled`: a worker between authorization and
reservation stands at a step somebody approved, for this plan; this stays true when the
request is revoked, superseded or its task taken over, because rows of requests are never
deleted and an approved one can only become revoked (lemmas `GrantsLast`, `BackedLasts`). A
worker comes to that place only by `Authorize` (`Arrives`), and a row of the journal comes
only from there (`JournalGrows`). What the checks of `begin_tool_invocation` add is not
needed for it. It is needed for

* `ApprovalOneCallPerGrant`: `Spec => []OneCallPerGrant`

whose invariant `Charged` has two parts more. `Permitted`: if the worker that owns the task
is allowed to call by a grant, the grant is for this very call and the checkpoint is still
the wait for it. `Spent`: a used grant was given and was used once, and as long as its wait is
the checkpoint, its row is open or completed, so that nothing can be reserved with it. A
verdict that there was no effect makes the row free again, but to ask for the verdict the
checkpoint became another wait, and the old grant is not ready any more. A superseded
worker may still be allowed by any grant; it is the fence in the transaction of the
reservation that stops it.

`OutboxProofs` proves for any questions, answers, publishers and bounds:

* `OutboxTypeCorrect`: `Spec => []TypeOK`
* `OutboxNoteIsDecision`: `Spec => []NoteIsDecision`
* `OutboxBlockedForCause`: `Spec => []BlockedForCause`
* `OutboxEditKept`: `Spec => EditKept`
* `OutboxKeepsRecord`: `Spec => KeepsRecord`, that is, `DecisionRecord!Spec`
* `OutboxOnePending`: `Spec => []OnePending`

The inductive invariant `Sound` adds to `TypeOK` what each stage of publishing takes from
the one before: a row belongs to an answer that is to be kept (`Queue`); what a publisher
found out about its row is true, now and after any step of others (`Findings`): an absent
note was looked for on behalf of an answer without a secret, `done` means that the note was
there, `unsafe` that there is a cause; what is in the vault came from such a row (`Notes`);
and a settled row has what its status claims (`Fates`). `Findings` is stable because answers are
never changed, files never vanish and `held` only grows (lemma `Lasting`). It
speaks of every publisher, with or without a valid claim, so the proof holds for any
number of publishers that work on one row. The claim token matters only for the refinement: a
publisher that still holds its token settles a row that nobody has settled before.

`BackupProofs` proves for the jobs of `Operations`, any number of backups and faults and any
settings:

* `BackupTypeCorrect`: `SystemSpec => []TypeOK`, with it that the rotation leaves at most
  `Keep` files
* `BackupNewestIsKept`: `SystemSpec => []NewestIsKept`
* `BackupNamedWasProven`: `SystemSpec => []NamedWasProven`
* `BackupReceiptIsListed`: `SystemSpec => []ReceiptIsListed`
* `BackupReceiptNeverGoesBack`: `SystemSpec => ReceiptNeverGoesBack`

A step of the system is a step of `Backup` or a stutter, whatever `alert` does
(`SystemStep`). The inductive invariant `Inv` adds two facts to the invariants. `Local`: the
file of a run is the last there is, so the rotation never takes it (`OwnIsRotated`), and the
last completed backup is older until the run rotates. `Remote`: until a run lists its
backup, neither the manifest nor the receipt names it, so an upload disturbs nothing that
was proven; and backup and drill are never under way together, which keeps the manifest
under a drill as the drill found it. Without the common lock this last conjunct is lost, and
with it `ReceiptNeverGoesBack`. That at most `Keep` files are left (`FewAreKept`) follows
from the oldest of them: the others are newer, and fewer than `Keep` are.

`AlertingProofs` proves for any checks and any policy:

* `AlertingTypeCorrect`: `Spec => []TypeOK`
* `AlertingNotifiedIsTold`: `Spec => []NotifiedIsTold`
* `AlertingIsAlarm`: `Spec => Promise!Spec`, which is `KeepsAlarm` without its fairness

`Sending` is the fact that both later ones need: between a message and the save that records
it, the message that was sent is that of its entry, and this run will not send it again. A
run that is killed in between loses the record, not the message. In the refinement a
delivery is a message of `Alarm`, a comparison changes what `Alarm` has noticed, and
the other saves are stutters.

`FileTaskProofs` proves for any tasks and any limits:

* `FileTaskTypeCorrect`: `Spec => []TypeOK`
* `FileTaskDoneIsProven`: `Spec => []DoneIsProven`

The lemmas `Layout` and `PlanFacts` say of the plans of the planner what executor and validator
rely on: a test is the last step, there is a read to judge by, and a plan from a title has one
read only. The invariant `Solid` has four parts. `Bareness`: a plan without arguments never gets
beyond its step. `ReadResults`: content comes from reads. `ReadNew`: once a read of this pass has
shown the new content, the file is new unless somebody edited it. `Tested`: a test is
never skipped, and whoever is past it, or finds its row completed, has its proof.

Every invariant and every action property of the passing runs is stated by a theorem. The
liveness properties are only model-checked: `CallsReturn`, `GrantsLeadOn`, `Settles`,
`FailureIsTold`, `LossIsTold`, `SuitableIsDone` and the fairness in `KeepsAlarm`. They need
ENABLED, for which these provers have no rules. What the two violated runs refute,
`AbandonedIsRecoverable` and `ResumedValidationStarts`, is of course not proved either;
`LostExecutionIsRecoverable` is the part of the former that holds.

## 5. Plan

1. `Engine` with `TaskStatus` and `TaskLifecycle` (done), its theorems (ten done).
2. `ToolJournal` (done), its theorems (seven done).
3. `DecisionOutbox` with `DecisionRecord` (done), its theorems (six done).
4. `StepApproval` (done), its theorems (three done).
5. `Backup`, `Alerting` with `Alarm`, and their composition `Operations` (done), the theorems
   of `Operations` (five done) and of `Alerting` (three done).
6. `FileTask` (done), its theorems (two done).
7. `Maintenance`: many tasks, of which each run takes `recovery_limit`, composed with what
   `Engine` says is recoverable. The job orders its candidates by `updated_at`
   (`storage/operations.py:266`), and those that `resume` cannot recover keep theirs.
8. `Dependencies`: acyclic under concurrent additions.
9. Proofs of the new modules.

## 6. Not modelled

* Code paths for databases of an older schema and for stores without a unit of work.
* The agent profile preflight of `run` and `resume`; it only refuses.
* Contents of plans, events, artifacts and messages; SQL beyond what a transaction reads
  and writes; SQLite itself (transactions are atomic and serial, which is what
  `BEGIN IMMEDIATE` gives).
* The loop of the maintenance job, `restore_verified_backup` (a person's call, which
  refuses an existing target), launch agents: each is a sequence without shared state of
  its own.
* Other operations of git and of the file system, GitFlow and command policies, SQL as a
  tool: predicates and effects of one call.
* Secrets and their rotation, encryption, digests, the text of messages and notes, the
  command line and the HTTP API.
* A published note that a person deletes: files of `DecisionOutbox` do not vanish, and a row
  that is settled is not looked at again.
* Tracked files of others that are dirty while a `FileTask` runs. The validator takes the
  diff of the whole tree (`validator.py:212-219`), so a dirty file of somebody else changes what
  git shows.
* Time stamps in the future, which the age check of a backup also refuses.
