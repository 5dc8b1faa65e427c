---- MODULE EngineClaimProofs ----
(***************************************************************************)
(* More theorems about Engine: what the checkpoint keeps, who may write,    *)
(* what a wait and a budget are worth, and that task and attempts keep the  *)
(* promises of TaskLifecycle.  All hold for every value of the constants:   *)
(* Steady is the invariant for calls that get in each other's way, Sound    *)
(* the stronger one for calls that do not.                                 *)
(***************************************************************************)
EXTENDS EngineProofs

----------------------------------------------------------------------------
(* What a step of a call does, in plain terms                              *)

\* The other calls notice nothing.
Alone(c) == \A d \in Call : d # c => call'[d] = call[d]

SameClaim(c) == call'[c].fenced = call[c].fenced /\ call'[c].token = call[c].token

Went(c, pc) ==
    Alone(c) /\ SameClaim(c) /\ call'[c].pc = pc /\ call'[c].progress = call[c].progress

Left(c) ==
    /\ Alone(c)
    /\ call'[c].pc \in {"finished", "crashed"}
    /\ call'[c].fenced = FALSE /\ call'[c].progress = NoProgress

\* The checkpoint, but for its lease and the answer to its wait.
SamePoint ==
    UNCHANGED <<ckpt.active, ckpt.action, ckpt.revision, ckpt.attempt, ckpt.reason, ckpt.progress>>

Starting == {"freshStart", "planStart", "retryStart", "revalidate"}

\* The call reads, is refused, or dies; nothing is written but the journal.
Reads(c) ==
    /\ UNCHANGED <<task, attempts, ckpt>>
    /\ \/ Left(c)
       \/ UNCHANGED call
       \/ Went(c, "release")
       \/ call[c].pc = "idle" /\ Went(c, "claiming")
       \/ call[c].pc = "idle" /\ Went(c, "resuming")
       \/ /\ RunWaiting /\ task.status = "waiting"
          /\ call[c].pc = "idle" /\ Went(c, "freshStart")
       \/ /\ call[c].pc = "claimed" /\ Alone(c)
          /\ call'[c].pc = "planStart" /\ call'[c].fenced = TRUE
          /\ call'[c].token = task.holder /\ call'[c].progress = call[c].progress
       \/ /\ call[c].pc = "dispatch" /\ ckpt.active /\ Target # "stay"
          /\ Alone(c) /\ SameClaim(c)
          /\ call'[c].pc = Target /\ call'[c].progress = ckpt.progress

\* A claim of any of the three kinds.
Takes(c) ==
    /\ task'.holder = c /\ task'.live = TRUE
    /\ SamePoint /\ UNCHANGED <<ckpt.resolved, ckpt.next>>
    /\ Alone(c)
    /\ \/ /\ call[c].pc = "claiming" /\ call'[c].pc = "claimed"
          /\ SameClaim(c) /\ call'[c].progress = call[c].progress
          /\ CanClaim
          /\ task'.status = IF task.status = "ready" THEN "planning" ELSE task.status
          /\ UNCHANGED attempts
       \/ /\ call[c].pc = "resuming" /\ call'[c].pc = "dispatch"
          /\ call'[c].fenced = TRUE /\ call'[c].token = c
          /\ call'[c].progress = call[c].progress
          /\ Claimable
          /\ UNCHANGED task.status
          /\ attempts' = IF task.status = "waiting" THEN attempts ELSE CloseAll("failed")
       \/ /\ call[c].pc = "idle" /\ call'[c].pc = "planStart"
          /\ call'[c].fenced = TRUE /\ call'[c].token = c
          /\ call'[c].progress = call[c].progress
          /\ Orphaned
          /\ UNCHANGED task.status
          /\ attempts' = CloseAll("failed")

\* The wait that the call was to resume goes on.
Waits(c) ==
    /\ call[c].pc = "dispatch" /\ ckpt.active /\ Target = "stay"
    /\ Owner(c) /\ CanMove(task.status, "waiting", task.approved)
    /\ task'.status = "waiting" /\ UNCHANGED <<task.holder, task.live>>
    /\ UNCHANGED <<attempts, ckpt>>
    /\ Went(c, "release")

Starts(c) ==
    /\ call[c].pc \in Starting
    /\ CanStart(c)
    /\ task'.status = StageOf[call[c].pc] /\ UNCHANGED <<task.holder, task.live>>
    /\ attempts' = Append(attempts, "running")
    /\ UNCHANGED ckpt
    /\ Went(c, StageOf[call[c].pc])

Executes(c) ==
    /\ call[c].pc = "planned"
    /\ Owner(c) /\ CanMove(task.status, "executing", task.approved)
    /\ task'.status = "executing" /\ UNCHANGED <<task.holder, task.live>>
    /\ UNCHANGED <<attempts, ckpt>>
    /\ Went(c, "executing")

Releases(c) ==
    /\ UNCHANGED <<task.status, attempts, ckpt.resolved, ckpt.next>>
    /\ SamePoint
    /\ IF call[c].fenced /\ task.holder = call[c].token
       THEN task'.holder = None /\ task'.live = FALSE
       ELSE UNCHANGED <<task.holder, task.live>>
    /\ Left(c)

\* The stage decides: its call may write and its attempt still runs.
Decides(c) ==
    /\ call[c].pc \in Active /\ Owner(c)
    /\ task.status \in Active
    /\ IsRunning(call[c].attempt)
    /\ UNCHANGED <<task.holder, task.live>>

Outcome(c, status) == attempts' = [attempts EXCEPT ![call[c].attempt] = status]

\* A checkpoint of this kind is written.
Writes(c, action) ==
    /\ ckpt'.active = TRUE /\ ckpt'.action = action
    /\ ckpt'.revision = ckpt.revision + 1
    /\ ckpt'.attempt = call[c].attempt
    /\ ckpt'.progress = call'[c].progress

Finishes(c) ==
    /\ Decides(c)
    /\ \/ task'.status = "failed" /\ Outcome(c, "failed")
       \/ task'.status = "done" /\ Outcome(c, "completed")
    /\ ckpt' = Invalidated
    /\ Went(c, "release")

Parks(c) ==
    /\ Decides(c)
    /\ task'.status = "waiting" /\ Outcome(c, "waiting")
    /\ Writes(c, "wait")
    /\ ckpt'.reason # "none"
    /\ ckpt'.reason \in {"auto", "approval", "blocked"} => ckpt'.next = "none"
    /\ Went(c, "release")

\* The next cycle: a step of the budget is spent that was still there.
Repeats(c) ==
    /\ Decides(c)
    /\ UNCHANGED task.status /\ Outcome(c, "failed")
    /\ \E action \in {"retry_execution", "replan"} :
        /\ Writes(c, action)
        /\ ~Exhausted(Spent(call[c].progress, action))
        /\ call'[c].progress = NextCycle(Spent(call[c].progress, action))
    /\ Alone(c) /\ SameClaim(c)
    /\ call'[c].pc \in {"planStart", "retryStart"}

\* A plan or an execution is on record.
Records(c) ==
    /\ Decides(c)
    /\ Writes(c, "validate")
    /\ UNCHANGED attempts
    /\ \/ /\ Went(c, "planned")
          /\ task.status = "planning" /\ UNCHANGED task.status
       \/ Went(c, "validating") /\ task'.status = "validating"

CallStep(c) ==
    \/ Reads(c) \/ Takes(c) \/ Waits(c) \/ Starts(c) \/ Executes(c) \/ Releases(c)
    \/ Finishes(c) \/ Parks(c) \/ Repeats(c) \/ Records(c)

\* Going on to another statement changes nothing else that counts.
LEMMA GotoWent ==
    ASSUME TypeOK, NEW c \in Call
    PROVE  /\ \A pc : Goto(c, pc) => Went(c, pc)
           /\ \A pc \in {"finished", "crashed"} : End(c, pc) => Left(c)
<1>1. call \in [Call -> CallState]
  BY DEF TypeOK
<1>2. \A pc : Goto(c, pc) => Went(c, pc)
  BY <1>1 DEF Goto, Went, Alone, SameClaim, CallState
<1>3. ASSUME NEW pc \in {"finished", "crashed"}, End(c, pc) PROVE Left(c)
  BY <1>1, <1>3 DEF End, Left, Alone, IdleCall
<1> QED
  BY <1>2, <1>3

\* The reads and refusals of a call.
LEMMA ReadStep ==
    ASSUME TypeOK, NEW c \in Call,
           \/ RunRead(c) \/ RunUnclaimed(c) \/ ResumeRead(c) \/ Adopt(c)
           \/ Abort(c) \/ Crash(c) \/ UseTool(c)
    PROVE  Reads(c)
<1>1. call \in [Call -> CallState]
  BY DEF TypeOK
<1>2. CASE RunRead(c) \/ RunUnclaimed(c) \/ Abort(c)
  BY <1>2, GotoWent DEF RunRead, RunUnclaimed, Abort, Reads
<1>3. CASE ResumeRead(c)
  <2>1. Went(c, "resuming")
    BY <1>1, <1>3 DEF ResumeRead, Went, Alone, SameClaim, CallState
  <2> QED
    BY <1>3, <2>1 DEF ResumeRead, Reads
<1>4. CASE Adopt(c)
  <2>1. /\ Alone(c) /\ call'[c].pc = "planStart" /\ call'[c].fenced = TRUE
        /\ call'[c].token = task.holder /\ call'[c].progress = call[c].progress
    BY <1>1, <1>4 DEF Adopt, Alone, CallState
  <2> QED
    BY <1>4, <2>1 DEF Adopt, Reads
<1>5. CASE Crash(c)
  BY <1>5, GotoWent DEF Crash, Reads
<1>6. CASE UseTool(c)
  BY <1>6 DEF UseTool, Reads
<1> QED
  BY <1>2, <1>3, <1>4, <1>5, <1>6

\* The claims, and the reading back of one.
LEMMA ClaimStep ==
    ASSUME TypeOK, NEW c \in Call, Claim(c) \/ ClaimResume(c) \/ ClaimOrphan(c)
    PROVE  Reads(c) \/ Takes(c)
<1>1. /\ call \in [Call -> CallState] /\ call[c] \in CallState
      /\ task \in Task /\ ckpt \in Checkpoint
  BY DEF TypeOK
<1>2. CASE Claim(c)
  <2>1. CASE CanClaim
    <3>1. /\ task'.holder = c /\ task'.live = TRUE
          /\ task'.status = IF task.status = "ready" THEN "planning" ELSE task.status
      BY <1>1, <1>2, <2>1 DEF Claim, Task
    <3>2. Went(c, "claimed") /\ call[c].pc = "claiming"
      BY <1>2, <2>1, GotoWent DEF Claim
    <3>3. UNCHANGED <<attempts, ckpt>>
      BY <1>2 DEF Claim
    <3> QED
      BY <2>1, <3>1, <3>2, <3>3 DEF Takes, Went, SamePoint
  <2>2. CASE ~CanClaim
    BY <1>2, <2>2, GotoWent DEF Claim, Reads
  <2> QED
    BY <2>1, <2>2
<1>3. CASE ClaimResume(c)
  <2>1. CASE Claimable /\ call[c].seen = ckpt.revision
    <3>1. /\ task'.holder = c /\ task'.live = TRUE /\ task'.status = task.status
          /\ SamePoint /\ ckpt'.resolved = ckpt.resolved /\ ckpt'.next = ckpt.next
      BY <1>1, <1>3, <2>1 DEF ClaimResume, Task, Checkpoint, SamePoint
    <3>2. /\ Alone(c) /\ call[c].pc = "resuming" /\ call'[c].pc = "dispatch"
          /\ call'[c].fenced = TRUE /\ call'[c].token = c
          /\ call'[c].progress = call[c].progress
      BY <1>1, <1>3, <2>1 DEF ClaimResume, Alone, CallState
    <3>3. attempts' = IF task.status = "waiting" THEN attempts ELSE CloseAll("failed")
      BY <1>3, <2>1 DEF ClaimResume
    <3> QED
      BY <2>1, <3>1, <3>2, <3>3 DEF Takes
  <2>2. CASE ~(Claimable /\ call[c].seen = ckpt.revision)
    BY <1>3, <2>2, GotoWent DEF ClaimResume, Reads
  <2> QED
    BY <2>1, <2>2
<1>4. CASE ClaimOrphan(c)
  <2>1. /\ task'.holder = c /\ task'.live = TRUE /\ task'.status = task.status
    BY <1>1, <1>4 DEF ClaimOrphan, Task
  <2>2. /\ Alone(c) /\ call[c].pc = "idle" /\ call'[c].pc = "planStart"
        /\ call'[c].fenced = TRUE /\ call'[c].token = c
        /\ call'[c].progress = call[c].progress
    BY <1>1, <1>4 DEF ClaimOrphan, Alone, CallState
  <2> QED
    BY <1>4, <2>1, <2>2 DEF ClaimOrphan, Takes, SamePoint
<1> QED
  BY <1>2, <1>3, <1>4

\* The steps between claim and stages.
LEMMA WorkStep ==
    ASSUME TypeOK, NEW c \in Call, Dispatch(c) \/ Start(c) \/ Execute(c) \/ Release(c)
    PROVE  Reads(c) \/ Waits(c) \/ Starts(c) \/ Executes(c) \/ Releases(c)
<1>1. /\ call \in [Call -> CallState] /\ call[c] \in CallState
      /\ task \in Task /\ ckpt \in Checkpoint
  BY DEF TypeOK
<1>2. CASE Dispatch(c)
  <2>1. CASE ~ckpt.active
    BY <1>2, <2>1, GotoWent DEF Dispatch, Reads
  <2>2. CASE ckpt.active /\ Target # "stay"
    <3>1. /\ Alone(c) /\ SameClaim(c) /\ call[c].pc = "dispatch"
          /\ call'[c].pc = Target /\ call'[c].progress = ckpt.progress
      <4> HIDE DEF Target
      <4> QED
        BY <1>1, <1>2, <2>2 DEF Dispatch, Alone, SameClaim, CallState
    <3> QED
      BY <1>2, <2>2, <3>1 DEF Dispatch, Reads
  <2>3. CASE ckpt.active /\ Target = "stay"
    <3>1. Went(c, "release")
      BY <1>2, <2>3, GotoWent DEF Dispatch
    <3>2. CASE Owner(c) /\ CanMove(task.status, "waiting", task.approved)
      <4>1. task'.status = "waiting" /\ task'.holder = task.holder /\ task'.live = task.live
        BY <1>1, <1>2, <2>3, <3>2 DEF Dispatch, Task
      <4> QED
        BY <1>2, <2>3, <3>1, <3>2, <4>1 DEF Dispatch, Waits
    <3>3. CASE ~(Owner(c) /\ CanMove(task.status, "waiting", task.approved))
      BY <1>2, <2>3, <3>1, <3>3 DEF Dispatch, Reads
    <3> QED
      BY <3>2, <3>3
  <2> QED
    BY <2>1, <2>2, <2>3
<1>3. CASE Start(c)
  <2> DEFINE stage == StageOf[call[c].pc]
  <2>1. call[c].pc \in Starting /\ CanStart(c)
    BY <1>3 DEF Start, StageOf, Starting
  <2>2. /\ task' = [task EXCEPT !.status = stage]
        /\ call' = [call EXCEPT ![c].pc = stage, ![c].attempt = Len(attempts) + 1]
        /\ attempts' = Append(attempts, "running") /\ ckpt' = ckpt
    BY <1>3 DEF Start
  <2>3. task'.status = stage /\ task'.holder = task.holder /\ task'.live = task.live
    BY <1>1, <2>2 DEF Task
  <2>4. Went(c, stage)
    <3> HIDE DEF stage
    <3> QED
      BY <1>1, <2>2 DEF Went, Alone, SameClaim, CallState
  <2> QED
    BY <2>1, <2>2, <2>3, <2>4 DEF Starts
<1>4. CASE Execute(c)
  <2>1. task'.status = "executing" /\ task'.holder = task.holder /\ task'.live = task.live
    BY <1>1, <1>4 DEF Execute, Task
  <2>2. Went(c, "executing")
    BY <1>4, GotoWent DEF Execute
  <2> QED
    BY <1>4, <2>1, <2>2 DEF Execute, CanExecute, Executes
<1>5. CASE Release(c)
  <2>1. /\ task'.status = task.status
        /\ IF call[c].fenced /\ task.holder = call[c].token
           THEN task'.holder = None /\ task'.live = FALSE
           ELSE task'.holder = task.holder /\ task'.live = task.live
    BY <1>1, <1>5 DEF Release, Task
  <2>2. SamePoint /\ ckpt'.resolved = ckpt.resolved /\ ckpt'.next = ckpt.next
    BY <1>1, <1>5 DEF Release, SamePoint, Checkpoint
  <2>3. Left(c)
    BY <1>5, GotoWent DEF Release
  <2> QED
    BY <1>5, <2>1, <2>2, <2>3 DEF Release, Releases
<1> QED
  BY <1>2, <1>3, <1>4, <1>5

\* A decision that ends the task.
LEMMA FinishStep ==
    ASSUME TypeOK, NEW c \in Call, CanCommit(c), call[c].pc \in Active,
           Finish(c, "failed", "failed") \/ Finish(c, "completed", "done")
    PROVE  Finishes(c)
<1>1. task \in Task
  BY DEF TypeOK
<1>2. /\ task'.holder = task.holder /\ task'.live = task.live
      /\ \/ task'.status = "failed" /\ Outcome(c, "failed")
         \/ task'.status = "done" /\ Outcome(c, "completed")
  BY <1>1 DEF Finish, Task, Outcome
<1>3. ckpt' = Invalidated /\ Went(c, "release")
  BY GotoWent DEF Finish
<1> QED
  BY <1>2, <1>3 DEF Finishes, Decides, CanCommit

\* A decision that parks it.
LEMMA ParkStep ==
    ASSUME TypeOK, NEW c \in Call, call[c].pc \in Active,
           Wait(c) \/ \E next, planned, executed : Ask(c, next, planned, executed)
    PROVE  Parks(c)
<1>1. task \in Task /\ ckpt \in Checkpoint
  BY DEF TypeOK
<1>2. PICK reason, next, planned, executed :
        /\ Owner(c) /\ task.status \in Active /\ IsRunning(call[c].attempt)
        /\ reason \in AllReasons
        /\ reason \in {"auto", "approval", "blocked"} => next = "none"
        /\ Park(c, reason, next, planned, executed)
  <2>1. CASE Wait(c)
    BY <2>1 DEF Wait, CanCommit, AllReasons
  <2>2. CASE \E next, planned, executed : Ask(c, next, planned, executed)
    BY <2>2 DEF Ask, CanAsk, AllReasons
  <2> QED
    BY <2>1, <2>2
<1>3. task'.status = "waiting" /\ task'.holder = task.holder /\ task'.live = task.live
  BY <1>1, <1>2 DEF Park, Task
<1>4. Went(c, "release") /\ Outcome(c, "waiting")
  BY <1>2, GotoWent DEF Park, Outcome
<1>5. Writes(c, "wait") /\ ckpt'.reason = reason /\ ckpt'.next = next
  BY <1>2, <1>4 DEF Park, Saved, Writes, Went
<1> QED
  BY <1>2, <1>3, <1>4, <1>5 DEF Parks, Decides, AllReasons

\* A decision for another cycle, or the end of the budget.
LEMMA RedoStep ==
    ASSUME TypeOK, NEW c \in Call, CanCommit(c), call[c].pc \in Active,
           NEW action \in {"retry_execution", "replan"}, Redo(c, action)
    PROVE  Finishes(c) \/ Repeats(c)
<1> DEFINE spent == Spent(call[c].progress, action)
           kept == NextCycle(spent)
           pc == IF action = "replan" THEN "planStart" ELSE "retryStart"
<1>1. CASE Exhausted(spent)
  BY <1>1, FinishStep DEF Redo
<1>2. CASE ~Exhausted(spent)
  <2>1. /\ Outcome(c, "failed")
        /\ ckpt' = Saved(action, call[c].attempt, NoWait, TRUE, TRUE, kept)
        /\ call' = [call EXCEPT ![c].pc = pc, ![c].progress = kept]
        /\ task' = task
    BY <1>2 DEF Redo, Outcome
  <2>2. /\ Alone(c) /\ SameClaim(c) /\ call'[c].pc = pc /\ call'[c].progress = kept
    <3> HIDE DEF pc, kept
    <3> QED
      BY <2>1 DEF TypeOK, CallState, Alone, SameClaim
  <2>3. Writes(c, action)
    <3> HIDE DEF pc, kept
    <3> QED
      BY <2>1, <2>2 DEF Writes, Saved
  <2> QED
    BY <1>2, <2>1, <2>2, <2>3 DEF Repeats, Decides, CanCommit
<1> QED
  BY <1>1, <1>2

\* The decisions of the stages are of these kinds.
LEMMA DecideStep ==
    ASSUME TypeOK, NEW c \in Call, Plan(c) \/ Executed(c) \/ Validated(c)
    PROVE  Finishes(c) \/ Parks(c) \/ Repeats(c) \/ Records(c)
<1>1. call[c].pc \in Active /\ task \in Task
  BY DEF Plan, Executed, Validated, Active, TypeOK
<1>2. ASSUME CanCommit(c),
             \/ Finish(c, "failed", "failed")
             \/ Finish(c, "completed", "done")
             \/ Redo(c, "retry_execution")
             \/ Redo(c, "replan")
      PROVE  Finishes(c) \/ Repeats(c)
  BY <1>1, <1>2, FinishStep, RedoStep
<1>3. CASE Plan(c)
  <2>1. CASE PlanAccepted(c)
    <3>1. Went(c, "planned")
      BY <2>1, GotoWent DEF PlanAccepted
    <3>2. Writes(c, "validate")
      BY <2>1, <3>1 DEF PlanAccepted, Saved, Writes, Went
    <3> QED
      BY <1>1, <1>3, <2>1, <3>1, <3>2 DEF Plan, PlanAccepted, Records, Decides, CanCommit
  <2> QED
    BY <1>1, <1>2, <1>3, <2>1, ParkStep DEF Plan
<1>4. CASE Executed(c)
  <2>1. ASSUME CanCommit(c), task' = [task EXCEPT !.status = "validating"],
               ckpt' = Saved("validate", call[c].attempt, NoWait, TRUE, TRUE,
                             call[c].progress),
               Goto(c, "validating"), attempts' = attempts
        PROVE  Records(c)
    <3>1. Went(c, "validating")
      BY <2>1, GotoWent
    <3>2. Writes(c, "validate")
      BY <2>1, <3>1 DEF Saved, Writes, Went
    <3>3. task'.status = "validating" /\ task'.holder = task.holder /\ task'.live = task.live
      BY <1>1, <2>1 DEF Task
    <3> QED
      BY <1>1, <2>1, <3>1, <3>2, <3>3 DEF Records, Decides, CanCommit
  <2> QED
    BY <1>1, <1>2, <1>4, <2>1, ParkStep DEF Executed
<1>5. CASE Validated(c)
  BY <1>1, <1>2, <1>5, ParkStep DEF Validated
<1> QED
  BY <1>3, <1>4, <1>5

\* Every step of a call is one of these.
LEMMA CallSteps ==
    ASSUME TypeOK, NEW c \in Call, Enter(c) \/ Work(c) \/ UseTool(c) \/ Crash(c)
    PROVE  CallStep(c)
<1> USE DEF CallStep
<1>1. CASE \/ RunRead(c) \/ RunUnclaimed(c) \/ ResumeRead(c) \/ Adopt(c)
           \/ Abort(c) \/ Crash(c) \/ UseTool(c)
  BY <1>1, ReadStep
<1>2. CASE Claim(c) \/ ClaimResume(c) \/ ClaimOrphan(c)
  BY <1>2, ClaimStep
<1>3. CASE Dispatch(c) \/ Start(c) \/ Execute(c) \/ Release(c)
  BY <1>3, WorkStep
<1>4. CASE Plan(c) \/ Executed(c) \/ Validated(c)
  BY <1>4, DecideStep
<1> QED
  BY <1>1, <1>2, <1>3, <1>4 DEF Enter, Work

\* What others do, as far as it matters here.
Expires ==
    /\ UNCHANGED <<task.status, task.holder, attempts, call>>
    /\ SamePoint /\ UNCHANGED <<ckpt.resolved, ckpt.next>>
    /\ \/ UNCHANGED task.live
       \/ SlowClaims \/ \A c \in Call : call[c].pc # "claimed"

Cancels ==
    /\ task.status \notin Terminal
    /\ task'.status = "cancelled" /\ task'.holder = None
    /\ attempts' = CloseAll("cancelled")
    /\ ckpt' = Invalidated
    /\ UNCHANGED call

Settles ==
    /\ UNCHANGED <<task, attempts, call>>
    /\ SamePoint
    /\ \/ ckpt'.resolved = TRUE
       \/ ckpt.reason = "approval"
    /\ ckpt.reason \in {"human", "review"} \/ UNCHANGED ckpt.next

\* What the world does next to the calls.
LEMMA OtherSteps ==
    ASSUME TypeOK, Others
    PROVE  Expires \/ Cancels \/ Settles
<1>1. task \in Task /\ ckpt \in Checkpoint
  BY DEF TypeOK
<1>2. CASE ExpireClaim
  BY <1>1, <1>2 DEF ExpireClaim, Expires, Task, SamePoint
<1>3. CASE ExpireLease
  BY <1>1, <1>3 DEF ExpireLease, Expires, Checkpoint, SamePoint
<1>4. CASE Cancel
  <2>1. task.status \notin Terminal
    BY <1>4 DEF Cancel, CanMove, Edges, From, Terminal
  <2>2. task'.status = "cancelled" /\ task'.holder = None
    BY <1>1, <1>4 DEF Cancel, Task
  <2> QED
    BY <1>4, <2>1, <2>2 DEF Cancel, Cancels
<1>5. CASE SetApproval
  BY <1>1, <1>5 DEF SetApproval, Expires, Task, SamePoint
<1>6. CASE Resolve \/ Withdraw
  BY <1>1, <1>6 DEF Resolve, Withdraw, Settles, Checkpoint, SamePoint
<1>7. CASE Answer
  <2>1. PICK next : ckpt' = [ckpt EXCEPT !.resolved = TRUE, !.next = next]
    BY <1>7 DEF Answer
  <2> QED
    BY <1>1, <1>7, <2>1 DEF Answer, Settles, Checkpoint, SamePoint
<1> QED
  BY <1>2, <1>3, <1>4, <1>5, <1>6, <1>7 DEF Others

\* What a step of a call does to what the call has read and what it works on.
SameView(c) == call'[c].seen = call[c].seen /\ call'[c].attempt = call[c].attempt

Looks(c) ==
    \/ SameView(c)
    \/ /\ call'[c].pc \in {"finished", "crashed"}
       /\ call'[c].seen = 0 /\ call'[c].attempt = 0
    \/ /\ call[c].pc = "idle" /\ call'[c].pc = "resuming"
       /\ call'[c].seen = ckpt.revision /\ call'[c].attempt = call[c].attempt
    \/ /\ call[c].pc \in Starting /\ call'[c].pc \in Active
       /\ call'[c].seen = call[c].seen
       /\ call'[c].attempt = Len(attempts) + 1
       /\ attempts' = Append(attempts, "running")

\* What a step of a call does to what it has seen and to its attempt.
LEMMA LookSteps ==
    ASSUME TypeOK, NEW c \in Call, Enter(c) \/ Work(c) \/ UseTool(c) \/ Crash(c)
    PROVE  Looks(c)
<1>1. call \in [Call -> CallState]
  BY DEF TypeOK
<1>2. \A pc : Goto(c, pc) => SameView(c)
  BY <1>1 DEF Goto, SameView, CallState
<1>3. ASSUME NEW pc \in {"finished", "crashed"}, End(c, pc) PROVE Looks(c)
  BY <1>1, <1>3 DEF End, Looks, IdleCall
<1>4. CASE RunRead(c) \/ RunUnclaimed(c) \/ Abort(c) \/ Execute(c) \/ UseTool(c)
  BY <1>2, <1>4 DEF RunRead, RunUnclaimed, Abort, Execute, UseTool, SameView, Looks
<1>5. CASE ResumeRead(c)
  BY <1>1, <1>5 DEF ResumeRead, Looks, CallState
<1>6. CASE Release(c) \/ Crash(c)
  BY <1>3, <1>6 DEF Release, Crash
<1>7. CASE Claim(c) \/ ClaimResume(c)
  <2>1. CASE End(c, "finished")
    BY <1>3, <2>1
  <2>2. CASE Goto(c, "claimed")
    BY <1>2, <2>2 DEF Looks
  <2>3. CASE call' = [call EXCEPT ![c].pc = "dispatch", ![c].fenced = TRUE,
                                  ![c].resumed = TRUE, ![c].token = c,
                                  ![c].epoch = task.epoch + 1]
    BY <1>1, <2>3 DEF Looks, SameView, CallState
  <2> QED
    BY <1>7, <2>1, <2>2, <2>3 DEF Claim, ClaimResume
<1>8. CASE Adopt(c) \/ ClaimOrphan(c)
  BY <1>1, <1>8 DEF Adopt, ClaimOrphan, Looks, SameView, CallState
<1>9. CASE Dispatch(c)
  <2>1. CASE call' = [call EXCEPT ![c].pc = Target, ![c].progress = ckpt.progress]
    <3> HIDE DEF Target
    <3> QED
      BY <1>1, <2>1 DEF Looks, SameView, CallState
  <2>2. CASE Goto(c, "release")
    BY <1>2, <2>2 DEF Looks
  <2> QED
    BY <1>9, <2>1, <2>2 DEF Dispatch
<1>10. CASE Start(c)
  <2> DEFINE stage == StageOf[call[c].pc]
  <2>1. /\ call[c].pc \in Starting /\ stage \in Active
        /\ attempts' = Append(attempts, "running")
        /\ call' = [call EXCEPT ![c].pc = stage, ![c].attempt = Len(attempts) + 1]
    BY <1>10 DEF Start, StageOf, Starting, Active
  <2>2. /\ call'[c].pc = stage /\ call'[c].seen = call[c].seen
        /\ call'[c].attempt = Len(attempts) + 1
    <3> HIDE DEF stage
    <3> QED
      BY <1>1, <2>1 DEF CallState
  <2> QED
    BY <2>1, <2>2 DEF Looks
<1>11. CASE Plan(c) \/ Executed(c) \/ Validated(c)
  <2>1. ASSUME NEW st, NEW status, Finish(c, st, status) PROVE SameView(c)
    BY <1>2, <2>1 DEF Finish
  <2>2. ASSUME NEW reason, NEW next, NEW planned, NEW executed,
               Park(c, reason, next, planned, executed)
        PROVE  SameView(c)
    BY <1>2, <2>2 DEF Park
  <2>3. ASSUME NEW action, Redo(c, action) PROVE SameView(c)
    <3> DEFINE kept == NextCycle(Spent(call[c].progress, action))
               pc == IF action = "replan" THEN "planStart" ELSE "retryStart"
    <3>1. CASE call' = [call EXCEPT ![c].pc = pc, ![c].progress = kept]
      <4> HIDE DEF pc, kept
      <4> QED
        BY <1>1, <3>1 DEF SameView, CallState
    <3> QED
      BY <2>1, <2>3, <3>1 DEF Redo
  <2>4. Wait(c) => SameView(c)
    BY <2>2 DEF Wait
  <2>5. (\E next, planned, executed : Ask(c, next, planned, executed)) => SameView(c)
    BY <2>2 DEF Ask
  <2>6. CASE Plan(c)
    BY <1>2, <2>1, <2>5, <2>6 DEF Plan, PlanAccepted, Looks
  <2>7. CASE Executed(c)
    BY <1>2, <2>1, <2>3, <2>4, <2>5, <2>7 DEF Executed, Looks
  <2>8. CASE Validated(c)
    BY <2>1, <2>3, <2>4, <2>5, <2>8 DEF Validated, Looks
  <2> QED
    BY <1>11, <2>6, <2>7, <2>8
<1> QED
  BY <1>4, <1>5, <1>6, <1>7, <1>8, <1>9, <1>10, <1>11 DEF Enter, Work

\* A step of one call leaves the others as they are.
LEMMA NobodyElse == ASSUME NEW c \in Call, CallStep(c) PROVE Alone(c)
BY DEF CallStep, Reads, Takes, Waits, Starts, Executes, Releases, Finishes, Parks,
       Repeats, Records, Went, Left, Alone

\* The log of attempts only grows.
LEMMA LogGrows ==
    ASSUME TypeOK, LogStep
    PROVE  Len(attempts) \in Nat /\ Len(attempts') \in Nat /\ Len(attempts) <= Len(attempts')
<1>1. attempts \in Seq(AttemptStatus) /\ Len(attempts) \in Nat
  BY LenProperties DEF TypeOK
<1>2. CASE attempts' = attempts
  BY <1>1, <1>2
<1>3. CASE Opened
  BY <1>1, <1>3, AppendProperties DEF Opened, AttemptStatus
<1>4. ASSUME NEW st \in AttemptStatus \ {"running"}, attempts' = CloseAll(st)
      PROVE  Len(attempts') = Len(attempts)
  <2>1. attempts' \in Seq(AttemptStatus)
    BY <1>1, <1>4, ClosedLog
  <2>2. DOMAIN attempts' = DOMAIN attempts
    BY <1>4 DEF CloseAll
  <2> QED
    BY <1>1, <2>1, <2>2, LenProperties
<1>5. ASSUME NEW i \in Nat, NEW st \in AttemptStatus \ {"running"}, IsRunning(i),
             attempts' = [attempts EXCEPT ![i] = st]
      PROVE  Len(attempts') = Len(attempts)
  <2>1. attempts' \in Seq(AttemptStatus) /\ DOMAIN attempts' = DOMAIN attempts
    BY <1>1, <1>5, UpdateAttempt DEF IsRunning
  <2> QED
    BY <1>1, <2>1, LenProperties
<1> QED
  BY <1>1, <1>2, <1>3, <1>4, <1>5 DEF LogStep, AllClosed, OneClosed

----------------------------------------------------------------------------
(* What the checkpoint keeps, under every schedule                          *)

\* Once a checkpoint was written there is one until the task ends.
CheckpointKept ==
    /\ ckpt.revision = 0 =>
        ckpt.progress = NoProgress /\ ckpt.action = "none" /\ ckpt.active = FALSE
    /\ ckpt.revision # 0 =>
        ckpt.action # "none" /\ (ckpt.active \/ task.status \in Terminal)

\* Nobody executes or validates before a plan is on record.
Recorded ==
    /\ task.status \in {"executing", "validating"} => ckpt.revision # 0
    /\ \A c \in Call :
        call[c].pc \in {"planned", "retryStart", "revalidate", "executing", "validating"}
            => ckpt.revision # 0

Begun == {"claimed", "dispatch", "planned"} \cup Starting \cup Active

\* Nothing happened to a task that is still ready, and it never is ready again.
Pristine ==
    /\ task.status \in {"created", "ready"} => ckpt.revision = 0 /\ attempts = <<>>
    /\ \A c \in Call : call[c].pc \in Begun => task.status \notin {"created", "ready"}

\* The attempt of a wait is recorded as waiting, and only what a person was
\* asked says how to go on.
WaitPoint ==
    /\ ckpt.active /\ ckpt.action = "wait" =>
        ckpt.attempt \in DOMAIN attempts /\ attempts[ckpt.attempt] = "waiting"
    /\ ckpt.action = "wait" =>
        /\ ckpt.reason # "none"
        /\ ckpt.reason \in {"auto", "approval", "blocked"} => ckpt.next = "none"

History == CheckpointKept /\ Recorded /\ Pristine /\ WaitPoint

\* No transition leaves a terminal status.
LEMMA MoveFacts ==
    ASSUME NEW from, NEW to, NEW approved, CanMove(from, to, approved)
    PROVE  from \notin Terminal /\ (from = "ready" => to \in {"planning", "failed", "cancelled"})
BY DEF CanMove, Edges, From, Status, Terminal

\* No recorded wait is lost from the log.
LEMMA WaitingStays ==
    ASSUME TypeOK, LogStep
    PROVE  \A i \in DOMAIN attempts :
             i \in DOMAIN attempts' /\ (attempts[i] = "waiting" => attempts'[i] = "waiting")
<1>1. attempts \in Seq(AttemptStatus)
  BY DEF TypeOK
<1>2. CASE Opened
  <2>1. /\ DOMAIN attempts = 1 .. Len(attempts)
        /\ DOMAIN attempts' = 1 .. (Len(attempts) + 1)
        /\ Len(attempts) \in Nat
        /\ \A i \in 1 .. Len(attempts) : attempts'[i] = attempts[i]
    BY <1>1, <1>2, AppendProperties, LenProperties DEF Opened, AttemptStatus
  <2> QED
    BY <2>1
<1>3. CASE AllClosed
  BY <1>3 DEF AllClosed, CloseAll
<1>4. CASE OneClosed
  BY <1>4 DEF OneClosed, IsRunning
<1> QED
  BY <1>2, <1>3, <1>4 DEF LogStep

\* History holds at first.
LEMMA HistoryInit == Init => History
<1> SUFFICES ASSUME Init PROVE History
  OBVIOUS
<1>1. CheckpointKept /\ WaitPoint
  BY DEF Init, NoCheckpoint, CheckpointKept, WaitPoint
<1>2. Recorded /\ Pristine
  BY DEF Init, NoCheckpoint, IdleCall, Recorded, Pristine, Begun, Starting, Active
<1> QED
  BY <1>1, <1>2 DEF History

\* A checkpoint that is only leased, answered or left alone keeps its history.
LEMMA SamePointKeeps ==
    ASSUME TypeOK, History, SamePoint, LogStep,
           task.status \in Terminal => task'.status \in Terminal,
           ckpt'.next = ckpt.next \/ ckpt.reason \in {"human", "review"}
    PROVE  CheckpointKept' /\ WaitPoint'
<1>1. CheckpointKept'
  BY DEF History, CheckpointKept, SamePoint
<1>2. WaitPoint'
  BY WaitingStays DEF History, WaitPoint, SamePoint
<1> QED
  BY <1>1, <1>2

\* Every step of a call keeps History.
LEMMA HistoryCall ==
    ASSUME TypeOK, History, LogStep, NEW c \in Call, CallStep(c)
    PROVE  History'
<1>1. /\ task \in Task /\ ckpt \in Checkpoint /\ call[c] \in CallState
      /\ attempts \in Seq(AttemptStatus)
  BY DEF TypeOK
<1>2. ckpt.revision \in Nat /\ ckpt.revision + 1 # 0
  BY <1>1 DEF Checkpoint
<1>3. CheckpointKept /\ Recorded /\ Pristine /\ WaitPoint
  BY DEF History
<1>4. CASE Reads(c)
  <2>1. CheckpointKept' /\ WaitPoint'
    BY <1>3, <1>4 DEF Reads, CheckpointKept, WaitPoint
  <2>2. Target # "stay" => Target \in {"planStart", "retryStart", "revalidate"}
    BY TargetSteps
  <2>3. Recorded'
    <3> HIDE DEF Target
    <3> QED
      BY <1>3, <1>4, <2>2 DEF Reads, Left, Went, Alone, Recorded, CheckpointKept
  <2>4. Pristine'
    <3> HIDE DEF Target
    <3> QED
      BY <1>3, <1>4, <2>2 DEF Reads, Left, Went, Alone, Pristine, Begun, Starting, Active
  <2> QED
    BY <2>1, <2>3, <2>4 DEF History
<1>5. CASE Takes(c)
  <2>1. task'.status \notin {"created", "ready"}
    BY <1>1, <1>5 DEF Takes, CanClaim, Claimable, ResumableFrom, Orphaned, Active,
                      Checkpoint, CheckpointKept, History
  <2>2. task.status \in Terminal => task'.status \in Terminal
    BY <1>5 DEF Takes, Terminal
  <2>3. CheckpointKept' /\ WaitPoint'
    BY <1>5, <2>2, SamePointKeeps DEF Takes
  <2>4. Recorded'
    BY <1>3, <1>5 DEF Takes, SamePoint, Alone, Recorded
  <2>5. Pristine'
    BY <2>1 DEF Pristine
  <2> QED
    BY <2>3, <2>4, <2>5 DEF History
<1>6. CASE Waits(c) \/ Executes(c)
  <2>1. task.status \notin Terminal
    BY <1>6, MoveFacts DEF Waits, Executes
  <2>2. CheckpointKept' /\ WaitPoint'
    BY <1>6, <2>1, SamePointKeeps DEF Waits, Executes, SamePoint
  <2>3. Recorded'
    BY <1>3, <1>6 DEF Waits, Executes, Went, Alone, Recorded
  <2>4. Pristine'
    BY <1>6 DEF Waits, Executes, Pristine
  <2> QED
    BY <2>2, <2>3, <2>4 DEF History
<1>7. CASE Starts(c)
  <2>1. task.status \notin Terminal
    BY <1>7, MoveFacts DEF Starts, CanStart, CanEnter, StageOf, Starting, Terminal
  <2>2. CheckpointKept' /\ WaitPoint'
    BY <1>7, <2>1, SamePointKeeps DEF Starts, SamePoint
  <2>3. Recorded'
    BY <1>3, <1>7 DEF Starts, Went, Alone, Recorded, StageOf, Starting
  <2>4. Pristine'
    BY <1>7 DEF Starts, Pristine, StageOf, Starting
  <2> QED
    BY <2>2, <2>3, <2>4 DEF History
<1>8. CASE Releases(c)
  <2>1. CheckpointKept' /\ WaitPoint'
    BY <1>8, SamePointKeeps DEF Releases
  <2>2. Recorded'
    BY <1>3, <1>8 DEF Releases, SamePoint, Left, Alone, Recorded
  <2>3. Pristine'
    BY <1>3, <1>8 DEF Releases, SamePoint, Left, Alone, Pristine, Begun, Starting, Active
  <2> QED
    BY <2>1, <2>2, <2>3 DEF History
<1>9. CASE Finishes(c)
  <2>1. /\ ckpt'.active = FALSE /\ ckpt'.revision = ckpt.revision
        /\ ckpt'.action = ckpt.action /\ ckpt'.progress = ckpt.progress
        /\ ckpt'.reason = ckpt.reason /\ ckpt'.next = ckpt.next
    BY <1>1, <1>9 DEF Finishes, Invalidated, Checkpoint
  <2>2. task'.status \in {"failed", "done"}
    BY <1>9 DEF Finishes
  <2>3. CheckpointKept' /\ WaitPoint'
    BY <1>3, <2>1, <2>2 DEF CheckpointKept, WaitPoint, Terminal
  <2>4. Recorded'
    BY <1>3, <1>9, <2>1, <2>2 DEF Finishes, Went, Alone, Recorded
  <2>5. Pristine'
    BY <2>2 DEF Pristine
  <2> QED
    BY <2>3, <2>4, <2>5 DEF History
<1>10. CASE Parks(c)
  <2>1. ckpt'.revision # 0 /\ ckpt'.active = TRUE /\ ckpt'.action = "wait"
    BY <1>2, <1>10 DEF Parks, Writes
  <2>2. ckpt'.attempt \in DOMAIN attempts' /\ attempts'[ckpt'.attempt] = "waiting"
    BY <1>10 DEF Parks, Writes, Outcome, Decides, IsRunning
  <2>3. CheckpointKept' /\ WaitPoint'
    BY <1>10, <2>1, <2>2 DEF Parks, CheckpointKept, WaitPoint
  <2>4. Recorded' /\ Pristine'
    BY <1>10, <2>1 DEF Parks, Recorded, Pristine
  <2> QED
    BY <2>3, <2>4 DEF History
<1>11. CASE Repeats(c) \/ Records(c)
  <2>1. /\ ckpt'.revision # 0 /\ ckpt'.active = TRUE
        /\ ckpt'.action \notin {"none", "wait"}
    BY <1>2, <1>11 DEF Repeats, Records, Writes
  <2>2. CheckpointKept' /\ WaitPoint' /\ Recorded'
    BY <2>1 DEF CheckpointKept, WaitPoint, Recorded
  <2>3. task'.status \notin {"created", "ready"}
    BY <1>11 DEF Repeats, Records, Decides, Active
  <2>4. Pristine'
    BY <2>3 DEF Pristine
  <2> QED
    BY <2>2, <2>4 DEF History
<1> QED
  BY <1>4, <1>5, <1>6, <1>7, <1>8, <1>9, <1>10, <1>11 DEF CallStep

\* So does every step.
LEMMA HistoryStep ==
    ASSUME TypeOK, History, [Next]_vars
    PROVE  History'
<1>1. LogStep
  BY LogChanges
<1>2. CASE \E c \in Call : Enter(c) \/ Work(c) \/ UseTool(c) \/ Crash(c)
  BY <1>1, <1>2, CallSteps, HistoryCall
<1>3. CASE Others
  <2>1. CheckpointKept /\ Recorded /\ Pristine /\ WaitPoint /\ ckpt \in Checkpoint
    BY DEF History, TypeOK
  <2>2. CASE Expires \/ Settles
    <3>1. CheckpointKept' /\ WaitPoint'
      BY <1>1, <2>2, SamePointKeeps DEF Expires, Settles
    <3>2. Recorded' /\ Pristine'
      BY <2>1, <2>2 DEF Expires, Settles, SamePoint, Recorded, Pristine
    <3> QED
      BY <3>1, <3>2 DEF History
  <2>3. CASE Cancels
    <3>1. /\ ckpt'.active = FALSE /\ ckpt'.revision = ckpt.revision
          /\ ckpt'.action = ckpt.action /\ ckpt'.progress = ckpt.progress
          /\ ckpt'.reason = ckpt.reason /\ ckpt'.next = ckpt.next
      BY <2>1, <2>3 DEF Cancels, Invalidated, Checkpoint
    <3>2. CheckpointKept' /\ WaitPoint' /\ Recorded' /\ Pristine'
      BY <2>1, <2>3, <3>1 DEF Cancels, CheckpointKept, WaitPoint, Recorded, Pristine, Terminal
    <3> QED
      BY <3>2 DEF History
  <2> QED
    BY <1>3, <2>2, <2>3, OtherSteps
<1>4. CASE UNCHANGED vars
  BY <1>4 DEF vars, History, CheckpointKept, Recorded, Pristine, WaitPoint
<1> QED
  BY <1>2, <1>3, <1>4 DEF Next

\* And so it always holds.
LEMMA HistoryAlways == Spec => [](TypeOK /\ History)
<1>1. Init => TypeOK /\ History
  BY TypeInit, HistoryInit
<1>2. TypeOK /\ History /\ [Next]_vars => TypeOK' /\ History'
  BY TypeStep, HistoryStep
<1> QED
  BY <1>1, <1>2, PTL DEF Spec

\* A task that was lost while executing or validating has a checkpoint that the
\* next resume() may claim, under every schedule of calls and claims.
THEOREM LostExecutionIsRecoverable == Spec => []ExecutionIsRecoverable
<1>1. TypeOK /\ History => ExecutionIsRecoverable
  <2> SUFFICES ASSUME TypeOK, History, Abandoned, task.status # "planning"
               PROVE  Claimable
    BY DEF ExecutionIsRecoverable
  <2>1. task.status \in {"executing", "validating"} /\ ~task.live /\ ~ckpt.live
    BY DEF Abandoned, Active
  <2>2. ckpt.active /\ ckpt.action # "none" /\ ckpt \in Checkpoint
    BY <2>1 DEF History, Recorded, CheckpointKept, Terminal, TypeOK
  <2>3. task.status \in ResumableFrom[ckpt.action]
    BY <2>1, <2>2 DEF ResumableFrom, Checkpoint
  <2>4. ckpt.action = "wait" => ~IsRunning(ckpt.attempt)
    BY <2>2 DEF History, WaitPoint, IsRunning
  <2> QED
    BY <2>1, <2>2, <2>3, <2>4 DEF Claimable
<1> QED
  BY <1>1, HistoryAlways, PTL

----------------------------------------------------------------------------
(* What holds however calls get in each other's way                        *)

Early == {"idle", "claiming", "claimed", "resuming"}

\* What a call knows before it has read anything.
Fresh ==
    \A c \in Call :
        /\ call[c].pc \in {"idle", "claiming", "claimed"} => call[c].seen = 0
        /\ call[c].pc \in Early => call[c].progress = NoProgress
        /\ call[c].pc \in Early \cup {"dispatch"} => call[c].attempt = 0

\* Nobody knows of revisions or attempts that are still to come.
Behind ==
    /\ \A c \in Call : call[c].seen <= ckpt.revision /\ call[c].attempt <= Len(attempts)
    /\ ckpt.attempt <= Len(attempts)

\* No two calls work on one attempt, and every checkpoint was written by one.
OwnAttempts ==
    /\ \A c, d \in Call :
        c # d /\ call[c].attempt # 0 => call[c].attempt # call[d].attempt
    /\ ckpt.revision # 0 => ckpt.attempt # 0

\* A task waits for what its checkpoint says.
Parked == task.status = "waiting" => ckpt.active /\ ckpt.action = "wait"

\* Between a plan and its execution nobody takes the task.
PlanStands ==
    \A c \in Call : call[c].pc = "planned" =>
        \/ task.status \in Terminal
        \/ /\ task.status = "planning" /\ IsRunning(call[c].attempt)
           /\ ckpt.active /\ ckpt.action = "validate"

\* A call that works on the checkpoint it read or wrote knows its budget, and
\* that its wait is over.
Informed ==
    \A c \in Call : AtWork(c) /\ Current(c) =>
        /\ call[c].progress = ckpt.progress
        /\ call[c].pc \in Starting /\ ckpt.action = "wait" => Unblocked

\* What a step of a call does to the checkpoint: nothing that counts here, or
\* it writes one for its open attempt.
Kept ==
    /\ UNCHANGED <<ckpt.revision, ckpt.attempt, ckpt.action, ckpt.progress>>
    /\ Unblocked => Unblocked'

Written(c) ==
    /\ ckpt'.revision = ckpt.revision + 1
    /\ ckpt'.attempt = call[c].attempt
    /\ ckpt'.progress = call'[c].progress
    /\ call[c].pc \in Active /\ IsRunning(call[c].attempt)
    /\ call'[c].pc \in {"release", "planned", "validating", "planStart", "retryStart"}
    /\ ckpt'.action = "wait" => call'[c].pc = "release"

\* Every step of a call is of one of these two kinds.
LEMMA PointSteps ==
    ASSUME TypeOK, NEW c \in Call, CallStep(c)
    PROVE  Kept \/ Written(c)
<1>1. ckpt \in Checkpoint
  BY DEF TypeOK
<1>2. CASE Reads(c) \/ Waits(c) \/ Starts(c) \/ Executes(c)
  BY <1>2 DEF Reads, Waits, Starts, Executes, Kept, Unblocked
<1>3. CASE Takes(c) \/ Releases(c)
  BY <1>3 DEF Takes, Releases, SamePoint, Kept, Unblocked
<1>4. CASE Finishes(c)
  BY <1>1, <1>4 DEF Finishes, Invalidated, Checkpoint, Kept, Unblocked
<1>5. CASE Parks(c) \/ Repeats(c) \/ Records(c)
  BY <1>5 DEF Parks, Repeats, Records, Writes, Decides, Went, Written
<1> QED
  BY <1>2, <1>3, <1>4, <1>5 DEF CallStep

\* A call that has not read the checkpoint knows nothing of it.
LEMMA FreshCall ==
    ASSUME TypeOK, Fresh, NEW c \in Call, CallStep(c), Looks(c)
    PROVE  Fresh'
<1>1. Target # "stay" => Target \in {"planStart", "retryStart", "revalidate"}
  BY TargetSteps
<1>2. call'[c].pc \in Early \cup {"dispatch"} =>
        \/ call'[c] = call[c]
        \/ /\ call'[c].progress = call[c].progress
           /\ \/ call[c].pc = "idle" /\ call'[c].pc = "claiming"
              \/ call[c].pc = "idle" /\ call'[c].pc = "resuming"
              \/ call[c].pc = "claiming" /\ call'[c].pc = "claimed"
              \/ call[c].pc = "resuming" /\ call'[c].pc = "dispatch"
  <2> HIDE DEF Target
  <2>1. CASE Reads(c)
    BY <1>1, <2>1 DEF Reads, Left, Went, Early
  <2>2. CASE Takes(c)
    BY <2>2 DEF Takes, Early
  <2>3. CASE ~Reads(c) /\ ~Takes(c)
    BY <2>3 DEF CallStep, Waits, Starts, StageOf, Starting, Executes, Releases, Left,
                Finishes, Parks, Repeats, Records, Went, Early
  <2> QED
    BY <2>1, <2>2, <2>3
<1>3. Alone(c)
  BY NobodyElse
<1>4. call'[c].pc \in Early \cup {"dispatch"} =>
        \/ call'[c].attempt = call[c].attempt /\ call'[c].seen = call[c].seen
        \/ call'[c].attempt = call[c].attempt /\ call'[c].pc = "resuming"
  BY <1>2 DEF Looks, SameView, Early, Active
<1>5. ASSUME NEW d \in Call
      PROVE  /\ call'[d].pc \in {"idle", "claiming", "claimed"} => call'[d].seen = 0
             /\ call'[d].pc \in Early => call'[d].progress = NoProgress
             /\ call'[d].pc \in Early \cup {"dispatch"} => call'[d].attempt = 0
  <2>1. CASE d # c
    BY <1>3, <2>1 DEF Alone, Fresh
  <2>2. CASE d = c
    BY <1>2, <1>4, <2>2 DEF Fresh, Early
  <2> QED
    BY <2>1, <2>2
<1> QED
  BY <1>5 DEF Fresh

\* Revisions and attempts are counted up by whoever writes them.
LEMMA BehindCall ==
    ASSUME TypeOK, TypeOK', Behind, LogStep, NEW c \in Call, CallStep(c), Looks(c)
    PROVE  Behind'
<1>1. /\ ckpt.revision \in Nat /\ ckpt.attempt \in Nat
      /\ \A d \in Call : call[d].seen \in Nat /\ call[d].attempt \in Nat
  BY DEF TypeOK, Checkpoint, CallState
<1>2. Len(attempts) \in Nat /\ Len(attempts') \in Nat /\ Len(attempts) <= Len(attempts')
  BY LogGrows
<1>3. /\ ckpt'.revision \in {ckpt.revision, ckpt.revision + 1}
      /\ ckpt'.attempt \in {ckpt.attempt, call[c].attempt}
  BY PointSteps DEF Kept, Written
<1>4. call'[c].seen \in {call[c].seen, 0, ckpt.revision}
  BY DEF Looks, SameView
<1>5. call'[c].attempt <= Len(attempts')
  <2>1. CASE attempts' = Append(attempts, "running") /\ call'[c].attempt = Len(attempts) + 1
    BY <1>2, <2>1, AppendProperties DEF TypeOK, AttemptStatus
  <2>2. CASE call'[c].attempt \in {call[c].attempt, 0}
    BY <1>1, <1>2, <2>2 DEF Behind
  <2> QED
    BY <2>1, <2>2 DEF Looks, SameView
<1>6. \A d \in Call : call'[d].seen <= ckpt'.revision /\ call'[d].attempt <= Len(attempts')
  BY <1>1, <1>2, <1>3, <1>4, <1>5, NobodyElse DEF Alone, Behind
<1>7. ckpt'.attempt <= Len(attempts')
  BY <1>1, <1>2, <1>3 DEF Behind
<1> QED
  BY <1>6, <1>7 DEF Behind

\* An open attempt has a number.
LEMMA RunningNumber ==
    ASSUME TypeOK
    PROVE  ~IsRunning(0)
BY LenProperties DEF TypeOK, IsRunning

\* A new attempt gets a number that no call has.
LEMMA OwnAttemptsCall ==
    ASSUME TypeOK, Behind, OwnAttempts, NEW c \in Call, CallStep(c), Looks(c)
    PROVE  OwnAttempts'
<1>1. /\ ckpt.revision \in Nat /\ Len(attempts) \in Nat
      /\ \A d \in Call : call[d].attempt \in Nat
  BY LenProperties DEF TypeOK, Checkpoint, CallState
<1>2. \A d \in Call : d # c => call'[d].attempt # Len(attempts) + 1
  BY <1>1, NobodyElse DEF Alone, Behind
<1>3. call'[c].attempt \in {call[c].attempt, 0, Len(attempts) + 1}
  BY DEF Looks, SameView
<1>4. \A d, e \in Call :
        d # e /\ call'[d].attempt # 0 => call'[d].attempt # call'[e].attempt
  <2>1. \A d \in Call : d # c => call'[d] = call[d]
    BY NobodyElse DEF Alone
  <2>2. ASSUME NEW d \in Call, d # c, call'[c].attempt = call'[d].attempt
        PROVE  call'[c].attempt = 0
    BY <1>2, <1>3, <2>1, <2>2 DEF OwnAttempts
  <2> QED
    BY <2>1, <2>2 DEF OwnAttempts
<1>5. ckpt'.revision # 0 => ckpt'.attempt # 0
  BY PointSteps, RunningNumber DEF Kept, Written, OwnAttempts
<1> QED
  BY <1>4, <1>5 DEF OwnAttempts

\* A wait that goes on is the wait of a wait checkpoint.
LEMMA OnlyWaitsStay == Target = "stay" => ckpt.action = "wait"
  <1> HIDE DEF WaitTarget
  <1> QED
    BY DEF Target

\* A task is parked together with its wait checkpoint.
LEMMA ParkedCall ==
    ASSUME Parked, NEW c \in Call, CallStep(c)
    PROVE  Parked'
<1>1. CASE Reads(c) \/ Takes(c) \/ Releases(c)
  BY <1>1 DEF Reads, Takes, CanClaim, Releases, SamePoint, Parked, Active
<1>2. CASE Waits(c)
  BY <1>2, OnlyWaitsStay DEF Waits, Parked
<1>3. CASE Starts(c) \/ Executes(c) \/ Finishes(c) \/ Repeats(c) \/ Records(c)
  BY <1>3 DEF Starts, StageOf, Starting, Executes, Finishes, Repeats, Records, Decides,
              Active, Parked
<1>4. CASE Parks(c)
  BY <1>4 DEF Parks, Writes, Parked
<1> QED
  BY <1>1, <1>2, <1>3, <1>4 DEF CallStep

\* Only a task that is under way or waits is taken over.
LEMMA TakeoverStatus ==
    ASSUME TypeOK, History, Claimable
    PROVE  task.status \in {"waiting"} \cup Active
<1>1. ckpt.action \in {"wait", "validate", "retry_execution", "replan"}
  BY DEF Claimable, TypeOK, Checkpoint, History, CheckpointKept
<1> QED
  BY <1>1 DEF Claimable, ResumableFrom, Active

\* A task that has ended stays as it is.
LEMMA EndedStays ==
    ASSUME TypeOK, History, NEW c \in Call, CallStep(c), task.status \in Terminal
    PROVE  task'.status = task.status
<1>1. CASE Reads(c) \/ Releases(c)
  BY <1>1 DEF Reads, Releases
<1>2. CASE Takes(c)
  BY <1>2, TakeoverStatus DEF Takes, CanClaim, Orphaned, Active, Terminal
<1>3. CASE Waits(c) \/ Executes(c)
  BY <1>3, MoveFacts DEF Waits, Executes
<1>4. CASE Starts(c)
  BY <1>4, MoveFacts DEF Starts, CanStart, CanEnter, StageOf, Starting, Terminal
<1>5. CASE Finishes(c) \/ Parks(c) \/ Repeats(c) \/ Records(c)
  BY <1>5 DEF Finishes, Parks, Repeats, Records, Decides, Active, Terminal
<1> QED
  BY <1>1, <1>2, <1>3, <1>4, <1>5 DEF CallStep

\* What interrupts a call between its plan and the execution also closes its
\* attempt or ends the task: a takeover needs a lease that has run out, and a
\* second stage an attempt that is not open any more.
LEMMA PlanStandsCall ==
    ASSUME TypeOK, OneRunningAttempt, History, OwnAttempts, PlanStands,
           NEW c \in Call, CallStep(c), Looks(c)
    PROVE  PlanStands'
<1>1. ASSUME NEW d \in Call, call'[d].pc = "planned", d # c, task'.status \notin Terminal
      PROVE  task'.status = "planning" /\ IsRunning(call[d].attempt)'
             /\ ckpt'.active /\ ckpt'.action = "validate"
  <2>1. call'[d] = call[d]
    BY <1>1, NobodyElse DEF Alone
  <2>2. /\ task.status = "planning" /\ IsRunning(call[d].attempt)
        /\ ckpt.active /\ ckpt.action = "validate"
    BY <1>1, <2>1, EndedStays DEF PlanStands
  <2>3. call[d].attempt # call[c].attempt
    BY <1>1, <2>2, RunningNumber DEF OwnAttempts
  <2>4. ~IsRunning(call[c].attempt)
    BY <2>2, <2>3 DEF IsRunning, OneRunningAttempt
  <2>5. CASE Reads(c) \/ Releases(c)
    BY <2>1, <2>2, <2>5 DEF Reads, Releases, SamePoint, IsRunning
  <2>6. CASE Takes(c)
    <3>1. ~Claimable /\ ~Orphaned
      BY <2>2 DEF Claimable, ResumableFrom, Orphaned
    <3> QED
      BY <2>1, <2>2, <2>6, <3>1 DEF Takes, SamePoint, IsRunning
  <2>7. CASE Waits(c)
    BY <2>2, <2>7, OnlyWaitsStay DEF Waits
  <2>8. CASE Starts(c)
    BY <2>2, <2>8 DEF Starts, CanStart, CanRecordAttempt, Running, IsRunning
  <2>9. CASE Executes(c)
    BY <2>2, <2>4, <2>9 DEF Executes, PlanStands, Terminal
  <2>10. CASE Finishes(c) \/ Parks(c) \/ Repeats(c) \/ Records(c)
    BY <2>4, <2>10 DEF Finishes, Parks, Repeats, Records, Decides
  <2> QED
    BY <2>5, <2>6, <2>7, <2>8, <2>9, <2>10 DEF CallStep
<1>2. ASSUME call'[c].pc = "planned", task'.status \notin Terminal
      PROVE  task'.status = "planning" /\ IsRunning(call[c].attempt)'
             /\ ckpt'.active /\ ckpt'.action = "validate"
  <2>1. Target # "planned"
    BY TargetSteps
  <2>2. CASE UNCHANGED call /\ Reads(c)
    BY <1>2, <2>2 DEF Reads, PlanStands, IsRunning
  <2>3. CASE Records(c) /\ Went(c, "planned") /\ task'.status = task.status
    <3>1. SameView(c)
      BY <1>2, <2>3 DEF Looks, Records, Decides, Starting, Active
    <3> QED
      BY <1>2, <2>3, <3>1 DEF Records, Decides, Writes, SameView, IsRunning, Went
  <2> HIDE DEF Target
  <2>4. CASE Reads(c)
    BY <1>2, <2>1, <2>2, <2>4 DEF Reads, Left, Went
  <2>5. CASE Records(c)
    BY <1>2, <2>3, <2>5 DEF Records, Went
  <2>6. CASE ~Reads(c) /\ ~Records(c)
    BY <1>2, <2>6 DEF CallStep, Takes, Waits, Starts, StageOf, Starting, Executes, Releases,
                      Left, Finishes, Parks, Repeats, Went
  <2> QED
    BY <2>4, <2>5, <2>6
<1> QED
  BY <1>1, <1>2 DEF PlanStands

\* Where a resumed wait leads when it is over.
LEMMA WaitOver ==
    ASSUME TypeOK, History, ckpt.active, ckpt.action = "wait", Target # "stay"
    PROVE  Unblocked
<1>1. WaitTarget # "stay"
  <2> HIDE DEF WaitTarget
  <2> QED
    BY Zenon DEF Target
<1>2. ckpt.reason \in AllReasons
  BY DEF TypeOK, Checkpoint, History, WaitPoint
<1>3. ASSUME ckpt.reason \in {"human", "review"}, ~ckpt.resolved PROVE FALSE
  BY <1>1, <1>3 DEF WaitTarget
<1>4. ASSUME ckpt.reason = "blocked", ~ckpt.resolved PROVE FALSE
  <2>1. ckpt.next = "none"
    BY <1>4 DEF History, WaitPoint
  <2> QED
    BY <1>1, <1>4, <2>1 DEF WaitTarget
<1> QED
  BY <1>2, <1>3, <1>4 DEF Unblocked, AllReasons

\* How a call comes to work, or goes on with it.
LEMMA WorkSteps ==
    ASSUME TypeOK, NEW c \in Call, CallStep(c), Looks(c), AtWork(c)'
    PROVE  \/ /\ call[c].pc \in Early /\ Kept /\ SameView(c)
              /\ call'[c].progress = call[c].progress
           \/ /\ call[c].pc = "dispatch" /\ ckpt.active /\ Target # "stay"
              /\ Kept /\ call'[c].progress = ckpt.progress
           \/ /\ AtWork(c) /\ Kept /\ call'[c].progress = call[c].progress
              /\ \/ SameView(c) /\ (call'[c].pc \in Starting => call[c].pc \in Starting)
                 \/ /\ call'[c].pc \in Active /\ call'[c].seen = call[c].seen
                    /\ call'[c].attempt = Len(attempts) + 1
           \/ Written(c)
<1>1. call'[c].pc \in Starting \cup Active \cup {"planned"}
  BY DEF AtWork, StageOf, Starting
<1>2. Kept \/ Written(c)
  BY PointSteps
<1>3. call[c].pc \in Early => SameView(c)
  BY <1>1 DEF Looks, Early, Starting, Active
<1>4. CASE Reads(c)
  <2>1. Kept
    BY <1>4 DEF Reads, Kept, Unblocked
  <2>2. CASE UNCHANGED call
    BY <1>1, <2>1, <2>2 DEF SameView, AtWork
  <2>3. CASE /\ call[c].pc = "dispatch" /\ ckpt.active /\ Target # "stay"
             /\ call'[c].progress = ckpt.progress
    BY <2>1, <2>3
  <2>4. CASE call[c].pc \in Early /\ call'[c].progress = call[c].progress
    BY <1>3, <2>1, <2>4
  <2> HIDE DEF Target
  <2> QED
    BY <1>1, <1>4, <2>2, <2>3, <2>4 DEF Reads, Left, Went, Early, Starting, Active
<1>5. CASE Takes(c)
  <2>1. Kept
    BY <1>5 DEF Takes, SamePoint, Kept, Unblocked
  <2>2. call[c].pc \in Early /\ call'[c].progress = call[c].progress
    BY <1>1, <1>5 DEF Takes, Early, Starting, Active
  <2> QED
    BY <1>3, <2>1, <2>2
<1>6. CASE Starts(c)
  <2>1. Kept /\ AtWork(c) /\ call'[c].progress = call[c].progress /\ call'[c].pc \in Active
    BY <1>6 DEF Starts, Kept, Unblocked, AtWork, Starting, StageOf, Active, Went
  <2>2. SameView(c) \/ (call'[c].seen = call[c].seen /\ call'[c].attempt = Len(attempts) + 1)
    BY <1>6, <2>1 DEF Looks, Starts, Starting, Active
  <2>3. call'[c].pc \notin Starting
    BY <2>1 DEF Starting, Active
  <2> QED
    BY <2>1, <2>2, <2>3
<1>7. CASE Executes(c)
  <2>1. /\ Kept /\ AtWork(c) /\ call'[c].progress = call[c].progress
        /\ call'[c].pc = "executing" /\ call[c].pc = "planned"
    BY <1>7 DEF Executes, Kept, Unblocked, AtWork, Went
  <2>2. SameView(c)
    BY <1>7, <2>1 DEF Looks, Starting, Active
  <2> QED
    BY <2>1, <2>2 DEF Starting
<1>8. CASE Repeats(c) \/ Records(c)
  BY <1>8 DEF Repeats, Records, Decides, Writes, Went, Written
<1>9. CASE Waits(c) \/ Releases(c) \/ Finishes(c) \/ Parks(c)
  BY <1>1, <1>9 DEF Waits, Releases, Finishes, Parks, Left, Went, Starting, Active
<1> QED
  BY <1>4, <1>5, <1>6, <1>7, <1>8, <1>9 DEF CallStep

\* A call carries the budget it read or wrote, and others change the revision
\* and the attempt of the checkpoint when they change its budget or its wait.
LEMMA InformedCall ==
    ASSUME TypeOK, History, Fresh, Behind, OwnAttempts, Informed,
           NEW c \in Call, CallStep(c), Looks(c)
    PROVE  Informed'
<1>1. /\ ckpt.revision \in Nat /\ Len(attempts) \in Nat /\ ckpt.attempt \in Nat
      /\ \A d \in Call : call[d].seen \in Nat /\ call[d].attempt \in Nat
  BY LenProperties DEF TypeOK, Checkpoint, CallState
<1>2. ASSUME NEW d \in Call, d # c, AtWork(d)', Current(d)'
      PROVE  /\ call'[d].progress = ckpt'.progress
             /\ call'[d].pc \in Starting /\ ckpt'.action = "wait" => Unblocked'
  <2>1. call'[d] = call[d]
    BY <1>2, NobodyElse DEF Alone
  <2>2. ~Written(c)
    BY <1>1, <1>2, <2>1, RunningNumber DEF Written, Current, Behind, OwnAttempts
  <2>3. Kept
    BY <2>2, PointSteps
  <2>4. AtWork(d) /\ Current(d)
    BY <1>2, <2>1, <2>3 DEF Kept, AtWork, Current
  <2> QED
    BY <2>1, <2>3, <2>4 DEF Kept, Informed
<1>3. ASSUME AtWork(c)', Current(c)'
      PROVE  /\ call'[c].progress = ckpt'.progress
             /\ call'[c].pc \in Starting /\ ckpt'.action = "wait" => Unblocked'
  <2>1. CASE /\ call[c].pc \in Early /\ Kept /\ SameView(c)
             /\ call'[c].progress = call[c].progress
    <3>1. call'[c].attempt = 0 /\ call'[c].progress = NoProgress
      BY <2>1 DEF Fresh, SameView
    <3>2. call[c].pc # "resuming" => call'[c].seen = 0
      BY <2>1 DEF Fresh, SameView, Early
    <3>3. call[c].pc # "resuming"
      BY <1>3, <2>1 DEF CallStep, Reads, Left, Went, Takes, Waits, Starts, Starting, Executes,
                        Releases, Finishes, Parks, Repeats, Records, Decides, AtWork, StageOf,
                        Active
    <3>4. ckpt'.revision = 0 \/ ckpt'.attempt = 0
      BY <1>3, <3>1, <3>2, <3>3 DEF Current
    <3>5. ckpt.revision = 0
      BY <2>1, <3>4 DEF Kept, OwnAttempts
    <3> QED
      BY <2>1, <3>1, <3>5 DEF Kept, History, CheckpointKept
  <2>2. CASE /\ call[c].pc = "dispatch" /\ ckpt.active /\ Target # "stay"
             /\ Kept /\ call'[c].progress = ckpt.progress
    BY <2>2, WaitOver DEF Kept
  <2>3. CASE /\ AtWork(c) /\ Kept /\ call'[c].progress = call[c].progress
             /\ SameView(c) /\ (call'[c].pc \in Starting => call[c].pc \in Starting)
    <3>1. Current(c)
      BY <1>3, <2>3 DEF Current, Kept, SameView
    <3> QED
      BY <2>3, <3>1 DEF Kept, Informed
  <2>4. CASE /\ AtWork(c) /\ Kept /\ call'[c].progress = call[c].progress
             /\ call'[c].pc \in Active /\ call'[c].seen = call[c].seen
             /\ call'[c].attempt = Len(attempts) + 1
    <3>1. Current(c)
      BY <1>1, <1>3, <2>4 DEF Current, Kept, Behind
    <3> QED
      BY <2>4, <3>1 DEF Kept, Informed, Starting, Active
  <2>5. CASE Written(c)
    BY <2>5 DEF Written, Starting
  <2> HIDE DEF Target
  <2> QED
    BY <1>3, <2>1, <2>2, <2>3, <2>4, <2>5, WorkSteps
<1> QED
  BY <1>2, <1>3 DEF Informed

\* What holds however calls get in each other's way.
Steady ==
    /\ TypeOK /\ OneRunningAttempt /\ History
    /\ Fresh /\ Behind /\ OwnAttempts /\ Parked /\ PlanStands /\ Informed

\* Steady holds at first, and every step keeps it.
LEMMA SteadyInit == Init => Steady
<1> SUFFICES ASSUME Init PROVE Steady
  OBVIOUS
<1>1. TypeOK /\ History /\ OneRunningAttempt
  BY TypeInit, HistoryInit DEF Init, OneRunningAttempt
<1>2. Len(attempts) = 0 /\ ckpt = NoCheckpoint /\ \A c \in Call : call[c] = IdleCall
  BY DEF Init
<1>3. Fresh /\ Behind /\ OwnAttempts
  BY <1>2 DEF NoCheckpoint, IdleCall, Fresh, Behind, OwnAttempts
<1>4. Parked /\ PlanStands /\ Informed
  BY <1>2 DEF Init, IdleCall, Parked, PlanStands, Informed, AtWork, StageOf, Active
<1> QED
  BY <1>1, <1>3, <1>4 DEF Steady

\* Expiry, answers and cancellation keep what calls know.
LEMMA SteadyOthers ==
    ASSUME Steady, TypeOK', LogStep, Others
    PROVE  Fresh' /\ Behind' /\ OwnAttempts' /\ Parked' /\ PlanStands' /\ Informed'
<1>1. ckpt \in Checkpoint /\ TypeOK /\ UNCHANGED call
  BY OtherSteps DEF Steady, TypeOK, Expires, Cancels, Settles
<1>2. /\ Kept
      /\ \/ task'.status = task.status /\ attempts' = attempts
            /\ ckpt'.active = ckpt.active
         \/ task'.status = "cancelled"
  <2>1. CASE Expires \/ Settles
    BY <2>1 DEF Expires, Settles, SamePoint, Kept, Unblocked
  <2>2. CASE Cancels
    BY <1>1, <2>2 DEF Cancels, Invalidated, Checkpoint, Kept, Unblocked
  <2> QED
    BY <1>1, <2>1, <2>2, OtherSteps
<1>3. Len(attempts) \in Nat /\ Len(attempts') \in Nat /\ Len(attempts) <= Len(attempts')
  BY <1>1, LogGrows
<1>4. Fresh' /\ OwnAttempts' /\ Parked'
  BY <1>1, <1>2 DEF Steady, Fresh, OwnAttempts, Parked, Kept
<1>5. Behind'
  BY <1>1, <1>2, <1>3 DEF Steady, Behind, Kept, TypeOK, Checkpoint, CallState
<1>6. PlanStands'
  BY <1>1, <1>2 DEF Steady, PlanStands, Kept, IsRunning, Terminal
<1>7. Informed'
  BY <1>1, <1>2 DEF Steady, Informed, AtWork, Current, Kept
<1> QED
  BY <1>4, <1>5, <1>6, <1>7

\* Every step keeps Steady, whatever the schedule.
LEMMA SteadyStep ==
    ASSUME Steady, [Next]_vars
    PROVE  Steady'
<1>1. TypeOK /\ OneRunningAttempt /\ History
  BY DEF Steady
<1>2. TypeOK' /\ OneRunningAttempt' /\ History' /\ LogStep
  BY <1>1, TypeStep, OneRunningStep, HistoryStep, LogChanges
<1>3. ASSUME NEW c \in Call, Enter(c) \/ Work(c) \/ UseTool(c) \/ Crash(c)
      PROVE  Fresh' /\ Behind' /\ OwnAttempts' /\ Parked' /\ PlanStands' /\ Informed'
  <2>1. CallStep(c) /\ Looks(c)
    BY <1>1, <1>3, CallSteps, LookSteps
  <2> QED
    BY <1>2, <2>1, FreshCall, BehindCall, OwnAttemptsCall, ParkedCall, PlanStandsCall,
       InformedCall DEF Steady
<1>4. CASE \E c \in Call : Enter(c) \/ Work(c) \/ UseTool(c) \/ Crash(c)
  BY <1>2, <1>3, <1>4 DEF Steady
<1>5. CASE Others
  BY <1>2, <1>5, SteadyOthers DEF Steady
<1>6. CASE UNCHANGED vars
  BY <1>2, <1>6 DEF vars, Steady, Fresh, Behind, OwnAttempts, Parked, PlanStands, IsRunning,
                    Informed, AtWork, Current, Unblocked
<1> QED
  BY <1>4, <1>5, <1>6 DEF Next

\* And so it always holds.
LEMMA SteadyAlways == Spec => []Steady
<1> QED
  BY SteadyInit, SteadyStep, PTL DEF Spec

----------------------------------------------------------------------------
(* Ownership                                                               *)

\* Calls do not get in each other's way: no run() of a waiting task, and nothing
\* gets between the statements of a claim.
Orderly == RunWaiting = FALSE /\ SlowClaims = FALSE

\* Whoever is at work has a claim of its own, if any; a call that has claimed
\* but not yet read its claim back still holds it, unless the task is over.
Claims ==
    /\ \A c \in Call : call[c].pc \in Begun /\ call[c].pc # "claimed" => call[c].fenced
    /\ \A c \in Call : call[c].fenced => call[c].token \in {c, None}
    /\ \A c \in Call : call[c].pc = "claimed" =>
        \/ /\ task.holder = c /\ task.live /\ task.status = "planning"
           /\ ckpt.revision = 0
        \/ task.holder = None /\ task.status \in Terminal
    /\ \A c \in Call : call[c].pc \in {"idle", "claiming", "claimed", "resuming"} =>
        call[c].progress = NoProgress

\* What the holder of the claim knows is true until it gives the claim up: its
\* budget is that of the checkpoint, and the wait it resumed is over.
Holds ==
    \A c \in Call : task.holder = c =>
        /\ AtWork(c) => call[c].progress = ckpt.progress
        /\ call[c].pc = "dispatch" => ~Running
        /\ call[c].pc \in Active \cup {"planned"} => task.status # "waiting"
        /\ call[c].pc \in Starting /\ task.status = "waiting" => Unblocked

\* What holds as long as calls do not get in each other's way.
Sound ==
    /\ TypeOK /\ OneRunningAttempt /\ History
    /\ Claims /\ Holds /\ WaitingIsResumable

\* Only the holder passes the fence.
LEMMA OwnerHolds ==
    ASSUME TypeOK, Claims, NEW c \in Call, Owner(c), call[c].pc \in Begun,
           call[c].pc # "claimed"
    PROVE  /\ task.holder = c /\ task.status \notin Terminal
           /\ \A d \in Call : call[d].pc # "claimed"
<1>1. /\ task.holder = c /\ task.live /\ task.status \notin Terminal
  BY DEF Claims, Owner
<1>2. c # None
  BY NoneAssumption
<1>3. \A d \in Call : call[d].pc # "claimed"
  BY <1>1, <1>2 DEF Claims
<1> QED
  BY <1>1, <1>3

\* Nobody claims a task whose claim has not been read back yet.
LEMMA TakesLast ==
    ASSUME Orderly, TypeOK, History, Claims, NEW c \in Call, Takes(c)
    PROVE  /\ \A d \in Call : call[d].pc # "claimed"
           /\ task.status \in {"ready", "waiting"} \cup Active
<1>1. CASE CanClaim
  <2>1. task.status = "ready"
    BY <1>1 DEF CanClaim, Orderly
  <2> QED
    BY <2>1 DEF Claims, Terminal
<1>2. CASE Claimable
  <2>1. ckpt.action \in {"wait", "validate", "retry_execution", "replan"}
    BY <1>2 DEF Claimable, TypeOK, Checkpoint, History, CheckpointKept
  <2>2. task.status \in {"waiting"} \cup Active
    BY <1>2, <2>1 DEF Claimable, ResumableFrom, Active
  <2>3. task.status # "waiting" => ~task.live
    BY <1>2 DEF Claimable
  <2> QED
    BY <2>2, <2>3 DEF Claims, Terminal, Active
<1>3. CASE Orphaned
  BY <1>3 DEF Orphaned, Claims, Terminal, Active
<1> QED
  BY <1>1, <1>2, <1>3 DEF Takes

\* The steps that only a call with a claim takes.
Writing(c) ==
    \/ Waits(c) \/ Starts(c) \/ Executes(c)
    \/ Finishes(c) \/ Parks(c) \/ Repeats(c) \/ Records(c)

\* A step that writes is one of the holder of the claim.
LEMMA WriterOwns ==
    ASSUME TypeOK, Claims, NEW c \in Call, Writing(c)
    PROVE  /\ task.holder = c /\ task.status \notin Terminal
           /\ task'.holder = task.holder
           /\ \A d \in Call : call[d].pc # "claimed"
           /\ Alone(c) /\ SameClaim(c)
           /\ call'[c].pc \in Begun \cup {"release"} /\ call'[c].pc # "claimed"
           /\ call[c].pc \in Begun
<1>1. Owner(c) /\ call[c].pc \in Begun /\ call[c].pc # "claimed"
  BY DEF Writing, Waits, Starts, CanStart, Executes, Finishes, Parks, Repeats, Records,
         Decides, Begun, Active, Starting
<1>2. /\ task'.holder = task.holder /\ Alone(c) /\ SameClaim(c)
      /\ call'[c].pc \in Begun \cup {"release"} /\ call'[c].pc # "claimed"
  BY DEF Writing, Waits, Starts, StageOf, Executes, Finishes, Parks, Repeats, Records,
         Decides, Went, Begun, Active, Starting
<1> QED
  BY <1>1, <1>2, OwnerHolds

\* A claim is handed to one call at a time, and found again by that call.
LEMMA ClaimsCall ==
    ASSUME Orderly, TypeOK, History, Claims, NEW c \in Call, CallStep(c)
    PROVE  Claims'
<1>1. c # None
  BY NoneAssumption
<1>2. Target # "stay" => Target \in {"planStart", "retryStart", "revalidate"}
  BY TargetSteps
<1>3. CASE Writing(c)
  BY <1>3, WriterOwns DEF Alone, SameClaim, Claims, Begun, Starting, Active
<1>4. CASE Reads(c)
  <2>1. CASE Left(c)
    BY <1>4, <2>1 DEF Reads, Left, Alone, Claims, Begun, Starting, Active
  <2>2. CASE UNCHANGED call
    BY <1>4, <2>2 DEF Reads, Claims
  <2>3. ASSUME NEW pc \in {"release", "claiming", "resuming"}, Went(c, pc),
               pc = "release" \/ call[c].pc = "idle"
        PROVE  Claims'
    BY <1>4, <2>3 DEF Reads, Went, Alone, SameClaim, Claims, Begun, Starting, Active
  <2>4. CASE /\ call[c].pc = "claimed" /\ Alone(c)
             /\ call'[c].pc = "planStart" /\ call'[c].fenced = TRUE
             /\ call'[c].token = task.holder /\ call'[c].progress = call[c].progress
    BY <1>4, <2>4 DEF Reads, Alone, Claims
  <2>5. CASE /\ call[c].pc = "dispatch" /\ Target # "stay"
             /\ Alone(c) /\ SameClaim(c) /\ call'[c].pc = Target
    <3> HIDE DEF Target
    <3> QED
      BY <1>2, <1>4, <2>5 DEF Reads, Alone, SameClaim, Claims, Begun
  <2> QED
    BY <1>4, <2>1, <2>2, <2>3, <2>4, <2>5 DEF Reads, Orderly
<1>5. CASE Takes(c)
  <2>1. \A d \in Call : call[d].pc # "claimed"
    BY <1>5, TakesLast
  <2>2. call[c].pc = "claiming" =>
          /\ task'.status = "planning" /\ task.status = "ready"
          /\ ckpt'.revision = 0
    BY <1>5 DEF Takes, CanClaim, SamePoint, Orderly, History, Pristine
  <2> QED
    BY <1>5, <2>1, <2>2 DEF Takes, Alone, SameClaim, Claims, Begun, Starting, Active
<1>6. CASE Releases(c)
  <2>1. task'.status = task.status /\ ckpt'.revision = ckpt.revision
    BY <1>6 DEF Releases, SamePoint
  <2>2. \A d \in Call \ {c} : call[d].pc = "claimed" =>
          \/ task'.holder = task.holder /\ task'.live = task.live
          \/ task.holder = None /\ task'.holder = None /\ task.status \in Terminal
    BY <1>1, <1>6, NoneAssumption DEF Releases, Claims
  <2> QED
    BY <1>6, <2>1, <2>2, NoneAssumption DEF Releases, Left, Alone, Claims, Begun, Starting, Active
<1> QED
  BY <1>3, <1>4, <1>5, <1>6 DEF CallStep, Writing

\* Every step of an orderly schedule keeps Claims.
LEMMA ClaimsStep ==
    ASSUME Orderly, TypeOK, History, Claims, [Next]_vars
    PROVE  Claims'
<1>1. CASE \E c \in Call : Enter(c) \/ Work(c) \/ UseTool(c) \/ Crash(c)
  BY <1>1, CallSteps, ClaimsCall
<1>2. CASE Others
  <2>1. CASE Expires \/ Settles
    BY <2>1 DEF Expires, Settles, SamePoint, Claims, Orderly
  <2>2. CASE Cancels
    BY <2>2 DEF Cancels, Claims, Terminal
  <2> QED
    BY <1>2, <2>1, <2>2, OtherSteps
<1>3. CASE UNCHANGED vars
  BY <1>3 DEF vars, Claims
<1> QED
  BY <1>1, <1>2, <1>3 DEF Next

\* What a claim finds: nobody at work, and the budget of the checkpoint.
LEMMA TakesFind ==
    ASSUME Orderly, Sound, NEW c \in Call, Takes(c)
    PROVE  /\ AtWork(c)' => call'[c].progress = ckpt'.progress
           /\ ~AtWork(c)' \/ task'.status # "waiting"
           /\ call'[c].pc \in {"claimed", "dispatch", "planStart"}
           /\ call'[c].pc = "dispatch" => ~Running'
<1>1. CASE CanClaim /\ call'[c].pc = "claimed"
  BY <1>1 DEF AtWork, StageOf, Active
<1>2. CASE /\ Claimable /\ call'[c].pc = "dispatch"
           /\ attempts' = IF task.status = "waiting" THEN attempts
                                                     ELSE CloseAll("failed")
  <2>1. CASE task.status = "waiting"
    BY <1>2, <2>1 DEF Sound, WaitingIsResumable, Orderly, Shared, Running, AtWork, StageOf, Active
  <2>2. CASE task.status # "waiting"
    <3>1. AllClosed
      BY <1>2, <2>2 DEF AllClosed, AttemptStatus
    <3> QED
      BY <1>2, <3>1, ClosedMeansIdle DEF Sound, AtWork, StageOf, Active
  <2> QED
    BY <2>1, <2>2
<1>3. CASE /\ Orphaned /\ call[c].pc = "idle" /\ call'[c].pc = "planStart"
           /\ task'.status = task.status /\ call'[c].progress = call[c].progress
  <2>1. task.status \in Active /\ ~ckpt.active
    BY <1>3 DEF Orphaned
  <2>2. ckpt.progress = NoProgress
    BY <2>1 DEF Sound, History, CheckpointKept, Active, Terminal, TypeOK, Checkpoint
  <2>3. call[c].progress = NoProgress
    BY <1>3 DEF Sound, Claims
  <2> QED
    BY <1>3, <2>1, <2>2, <2>3 DEF Takes, SamePoint, Active
<1> QED
  BY <1>1, <1>2, <1>3 DEF Takes

\* The holder of the claim is told the truth, and nobody else changes it.
LEMMA HoldsCall ==
    ASSUME Orderly, Sound, NEW c \in Call, CallStep(c)
    PROVE  Holds'
<1>1. /\ Claims /\ Holds /\ TypeOK /\ History
      /\ c # None
  BY NoneAssumption DEF Sound
<1>2. Target # "stay" => Target \in {"planStart", "retryStart", "revalidate"}
  BY TargetSteps
<1>3. CASE Reads(c)
  <2>1. CASE Left(c)
    BY <1>1, <1>3, <2>1 DEF Reads, Left, Alone, Holds, AtWork, StageOf, Active, Starting,
                            Running, Unblocked
  <2>2. CASE UNCHANGED call
    BY <1>1, <1>3, <2>2 DEF Reads, Holds, AtWork, Running, Unblocked
  <2>3. ASSUME NEW pc \in {"release", "claiming", "resuming"}, Went(c, pc)
        PROVE  Holds'
    BY <1>1, <1>3, <2>3 DEF Reads, Went, Alone, Holds, AtWork, StageOf, Active, Starting,
                            Running, Unblocked
  <2>4. CASE /\ call[c].pc = "claimed" /\ Alone(c)
             /\ call'[c].pc = "planStart" /\ call'[c].progress = call[c].progress
    <3>1. task.holder = c =>
            task.status = "planning" /\ call[c].progress = ckpt.progress
      BY <1>1, <2>4 DEF Claims, History, CheckpointKept
    <3> QED
      BY <1>1, <1>3, <2>4, <3>1 DEF Reads, Alone, Holds, AtWork, StageOf, Active, Starting,
                                    Running, Unblocked
  <2>5. CASE /\ call[c].pc = "dispatch" /\ ckpt.active /\ Target # "stay"
             /\ Alone(c) /\ call'[c].pc = Target /\ call'[c].progress = ckpt.progress
    <3>1. task.status = "waiting" => Unblocked
      BY <1>1, <2>5, WaitOver DEF Sound, WaitingIsResumable
    <3> HIDE DEF Target
    <3> QED
      BY <1>1, <1>2, <1>3, <2>5, <3>1 DEF Reads, Alone, Holds, AtWork, StageOf, Active,
                                          Starting, Running, Unblocked
  <2> QED
    BY <1>3, <2>1, <2>2, <2>3, <2>4, <2>5 DEF Reads, Orderly
<1>4. CASE Takes(c)
  BY <1>4, TakesFind DEF Takes, Holds, Starting, Active, AtWork, StageOf
<1>5. CASE Writing(c)
  <2>1. task'.holder = c
    BY <1>1, <1>5, WriterOwns
  <2>2. \A d \in Call : task'.holder = d => d = c
    BY <2>1
  <2>3. CASE Waits(c) \/ Finishes(c) \/ Parks(c)
    <3>1. call'[c].pc = "release"
      BY <2>3 DEF Waits, Finishes, Parks, Went
    <3> QED
      BY <2>2, <3>1 DEF Holds, AtWork, StageOf, Active, Starting
  <2>4. CASE Starts(c)
    <3>1. /\ call'[c].pc \in Active /\ task'.status \in Active
          /\ call'[c].progress = call[c].progress /\ ckpt' = ckpt
      BY <2>4 DEF Starts, Starting, StageOf, Active, Went
    <3>2. call[c].progress = ckpt.progress
      BY <1>1, <2>1, <1>5, <2>4, WriterOwns DEF Starts, Holds, AtWork, Starting, StageOf
    <3> QED
      BY <2>2, <3>1, <3>2 DEF Holds, Active, Starting
  <2>5. CASE Executes(c)
    <3>1. /\ call'[c].pc = "executing" /\ task'.status = "executing"
          /\ call'[c].progress = call[c].progress /\ ckpt' = ckpt
      BY <2>5 DEF Executes, Went
    <3>2. call[c].progress = ckpt.progress
      BY <1>1, <2>1, <1>5, <2>5, WriterOwns DEF Executes, Holds, AtWork
    <3> QED
      BY <2>2, <3>1, <3>2 DEF Holds, Active, Starting
  <2>6. CASE Repeats(c) \/ Records(c)
    <3>1. /\ call'[c].progress = ckpt'.progress /\ task'.status # "waiting"
          /\ call'[c].pc # "dispatch"
      BY <2>6 DEF Repeats, Records, Writes, Decides, Active, Went
    <3> QED
      BY <2>2, <3>1 DEF Holds, Active, Starting
  <2> QED
    BY <1>5, <2>3, <2>4, <2>5, <2>6 DEF Writing
<1>6. CASE Releases(c)
  <2>1. /\ task'.status = task.status /\ ckpt'.progress = ckpt.progress
        /\ ckpt'.reason = ckpt.reason /\ ckpt'.resolved = ckpt.resolved
        /\ attempts' = attempts
        /\ \A d \in Call : task'.holder = d => task.holder = d
    BY <1>6, NoneAssumption DEF Releases, SamePoint
  <2> QED
    BY <1>1, <1>6, <2>1 DEF Releases, Left, Alone, Holds, AtWork, StageOf, Active, Starting,
                            Running, Unblocked
<1> QED
  BY <1>3, <1>4, <1>5, <1>6 DEF CallStep, Writing

\* Every step of an orderly schedule keeps Holds.
LEMMA HoldsStep ==
    ASSUME Orderly, Sound, [Next]_vars
    PROVE  Holds'
<1>1. CASE \E c \in Call : Enter(c) \/ Work(c) \/ UseTool(c) \/ Crash(c)
  BY <1>1, CallSteps, HoldsCall DEF Sound
<1>2. CASE Others
  <2>1. CASE Expires \/ Settles
    BY <2>1 DEF Expires, Settles, SamePoint, Sound, Holds, AtWork, Running, Unblocked
  <2>2. CASE Cancels
    BY <2>2, NoneAssumption DEF Cancels, Holds
  <2> QED
    BY <1>2, <2>1, <2>2, OtherSteps DEF Sound
<1>3. CASE UNCHANGED vars
  BY <1>3 DEF vars, Sound, Holds, AtWork, Running, Unblocked
<1> QED
  BY <1>1, <1>2, <1>3 DEF Next

\* A task is parked by the holder of its claim, after its attempt.
LEMMA WaitingStep ==
    ASSUME Orderly, Sound, [Next]_vars
    PROVE  WaitingIsResumable'
<1>1. /\ TypeOK /\ History /\ Holds /\ Claims /\ OneRunningAttempt
      /\ task.status = "waiting" => ckpt.active /\ ckpt.action = "wait" /\ ~Running
  BY DEF Sound, WaitingIsResumable, Orderly, Shared
<1>2. History'
  BY <1>1, HistoryStep
<1>3. SUFFICES ASSUME task'.status = "waiting"
               PROVE  ckpt'.active /\ ckpt'.action = "wait" /\ ~Running'
  BY <1>2 DEF History, WaitPoint, WaitingIsResumable
<1>4. ASSUME NEW c \in Call, CallStep(c)
      PROVE  ckpt'.active /\ ckpt'.action = "wait" /\ ~Running'
  <2>1. CASE Reads(c) \/ Releases(c)
    BY <1>1, <1>3, <2>1 DEF Reads, Releases, SamePoint, Running
  <2>2. CASE Takes(c)
    <3>1. task.status = "waiting" /\ attempts' = attempts
      BY <1>3, <2>2, TakesLast, <1>1 DEF Takes, CanClaim, Orderly, Orphaned, Active
    <3> QED
      BY <1>1, <2>2, <3>1 DEF Takes, SamePoint, Running
  <2>3. CASE Waits(c)
    <3>1. ~Running
      BY <1>1, <2>3, WriterOwns DEF Waits, Writing, Holds
    <3> QED
      BY <2>3, <3>1, OnlyWaitsStay DEF Waits, Running
  <2>4. CASE Starts(c) \/ Executes(c) \/ Finishes(c) \/ Repeats(c) \/ Records(c)
    BY <1>3, <2>4 DEF Starts, StageOf, Starting, Executes, Finishes, Repeats, Records,
                      Decides, Active
  <2>5. CASE Parks(c)
    <3>1. OneClosed
      BY <1>1, <2>5 DEF Parks, Decides, Outcome, OneClosed, AttemptStatus, TypeOK, CallState
    <3> QED
      BY <1>1, <2>5, <3>1, ClosedMeansIdle DEF Parks, Writes
  <2> QED
    BY <1>4, <2>1, <2>2, <2>3, <2>4, <2>5 DEF CallStep
<1>5. CASE \E c \in Call : Enter(c) \/ Work(c) \/ UseTool(c) \/ Crash(c)
  BY <1>1, <1>4, <1>5, CallSteps
<1>6. CASE Others
  BY <1>1, <1>3, <1>6, OtherSteps DEF Expires, Cancels, Settles, SamePoint, Running
<1>7. CASE UNCHANGED vars
  BY <1>1, <1>3, <1>7 DEF vars, Running
<1> QED
  BY <1>5, <1>6, <1>7 DEF Next

\* Together they are kept by every step of an orderly schedule.
LEMMA SoundAlways ==
    ASSUME Orderly
    PROVE  Spec => []Sound
<1>1. Init => Sound
  <2>1. Init => Claims /\ Holds /\ WaitingIsResumable
    BY NoneAssumption DEF Init, IdleCall, NoCheckpoint, Claims, Holds, WaitingIsResumable,
                          Begun, Starting, Active, AtWork, StageOf
  <2>2. Init => OneRunningAttempt
    BY DEF Init, OneRunningAttempt
  <2> QED
    BY <2>1, <2>2, TypeInit, HistoryInit DEF Sound
<1>2. Sound /\ [Next]_vars => Sound'
  BY TypeStep, OneRunningStep, HistoryStep, ClaimsStep, HoldsStep, WaitingStep DEF Sound
<1> QED
  BY <1>1, <1>2, PTL DEF Spec

\* The two ways in which calls get in each other's way are the only ones.
LEMMA NotShared == ~Shared => Orderly
BY SwitchesAssumption DEF Shared, Orderly

\* So every schedule is orderly, or one in which calls share the task.
LEMMA SoundOrShared == Spec => [](Shared \/ Sound)
<1>1. CASE Shared
  BY <1>1, PTL
<1>2. CASE ~Shared
  <2>1. Orderly
    BY <1>2, NotShared
  <2> QED
    BY <2>1, SoundAlways, PTL
<1> QED
  BY <1>1, <1>2

\* At most one call passes the fence of the transactions (_require_claim).  With a
\* run() of a waiting task, which has no claim to check, or a claim read back
\* after another call took the task, a second may pass it, but one of the two is
\* astray and only one has the open attempt that every decision needs.
THEOREM OnlyOneOwner == Spec => []OneOwner
<1>1. Steady /\ (Shared \/ Sound) => OneOwner
  <2> SUFFICES ASSUME Steady, Shared \/ Sound,
                      NEW c \in Call, NEW d \in Call, c # d,
                      AtWork(c), Owner(c), AtWork(d), Owner(d)
               PROVE  /\ Shared /\ (Stray(c) \/ Stray(d))
                      /\ ~(IsRunning(call[c].attempt) /\ IsRunning(call[d].attempt))
    BY DEF OneOwner
  <2>1. Shared
    BY OwnerHolds DEF Sound, AtWork, Begun, Starting, StageOf, Active
  <2>2. Stray(c) \/ Stray(d)
    BY DEF Stray, Owner
  <2>3. ~(IsRunning(call[c].attempt) /\ IsRunning(call[d].attempt))
    BY RunningNumber DEF Steady, OwnAttempts, OneRunningAttempt, IsRunning
  <2> QED
    BY <2>1, <2>2, <2>3
<1> QED
  BY <1>1, SteadyAlways, SoundOrShared, PTL

\* A waiting task has an active wait checkpoint and an attempt recorded as
\* waiting, whoever parked it; and nobody is at work on another attempt, but for
\* calls that share the task.
THEOREM WaitsCanBeResumed == Spec => []WaitingIsResumable
<1>1. Steady /\ (Shared \/ Sound) => WaitingIsResumable
  BY DEF Steady, Parked, History, WaitPoint, Sound, WaitingIsResumable
<1> QED
  BY <1>1, SteadyAlways, SoundOrShared, PTL

\* A call that read or wrote the checkpoint of a wait, as resume() does, works on
\* only when the blocker of the wait is gone.  Only a run() that enters a waiting
\* task, or a call that lost its claim unnoticed, starts a stage over a wait that
\* it has never read.
THEOREM WaitsAreRespected == Spec => WaitRespected
<1>1. ASSUME Steady, Shared \/ Sound, [Next]_vars,
             task.status = "waiting", task'.status \in Active, ~Unblocked
      PROVE  Shared /\ \E c \in Call : EntersStage(c) /\ ~Current(c)
  <2>1. TypeOK /\ ckpt.action = "wait"
    BY <1>1 DEF Steady, Parked
  <2>2. ASSUME NEW c \in Call, CallStep(c)
        PROVE  EntersStage(c) /\ ~Current(c) /\ Shared
    <3>1. ~(Reads(c) \/ Takes(c) \/ Waits(c) \/ Releases(c))
      BY <1>1 DEF Reads, Takes, CanClaim, Waits, Releases, Active
    <3>2. ~Executes(c)
      BY <1>1 DEF Executes, Steady, PlanStands, Terminal
    <3>3. ~(Finishes(c) \/ Parks(c) \/ Repeats(c) \/ Records(c))
      BY <1>1 DEF Finishes, Parks, Repeats, Records, Decides, Active
    <3>4. Starts(c)
      BY <2>2, <3>1, <3>2, <3>3 DEF CallStep
    <3>5. EntersStage(c) /\ AtWork(c) /\ call[c].pc \in Starting
      BY <3>4 DEF Starts, EntersStage, AtWork, StageOf, Starting, Active, Went
    <3>6. ~Current(c)
      BY <1>1, <2>1, <3>5 DEF Steady, Informed
    <3>7. Shared
      BY <1>1, <3>4, <3>5, WriterOwns DEF Sound, Writing, Holds
    <3> QED
      BY <3>5, <3>6, <3>7
  <2>3. CASE \E c \in Call : Enter(c) \/ Work(c) \/ UseTool(c) \/ Crash(c)
    BY <2>1, <2>2, <2>3, CallSteps
  <2>4. CASE Others \/ UNCHANGED vars
    BY <1>1, <2>1, <2>4, OtherSteps DEF Expires, Cancels, Settles, Active, vars
  <2> QED
    BY <1>1, <2>3, <2>4 DEF Next
<1>2. Steady /\ (Shared \/ Sound) /\ [Next]_vars =>
        [task.status = "waiting" /\ task'.status \in Active =>
            \/ Unblocked
            \/ Shared /\ \E c \in Call : EntersStage(c) /\ ~Current(c)]_vars
  BY <1>1
<1> QED
  BY <1>2, SteadyAlways, SoundOrShared, PTL DEF Spec, WaitRespected

----------------------------------------------------------------------------
(* The budget                                                              *)

\* A step spends nothing, or what Redo spends and the limits still allow.
LEMMA Spending ==
    ASSUME NEW p \in Progress, NEW action, ~Exhausted(Spent(p, action)),
           NEW q, q = NextCycle(Spent(p, action))
    PROVE  Within(q) /\ NotLess(q, p)
BY LimitsAssumption DEF Progress, Exhausted, Spent, NextCycle, Within, NotLess

\* No counter in use is beyond its limit, under every schedule.
Limited == Within(ckpt.progress) /\ \A c \in Call : Within(call[c].progress)

\* A call takes its counters from the checkpoint or spends what is left.
LEMMA LimitedCall ==
    ASSUME TypeOK, Limited, NEW c \in Call, CallStep(c)
    PROVE  Limited'
<1>1. Within(NoProgress)
  BY LimitsAssumption DEF NoProgress, Within
<1>2. Within(call'[c].progress)
  <2>1. CASE Repeats(c)
    BY <2>1, Spending DEF Repeats, TypeOK, CallState
  <2>2. CASE call'[c].progress \in {call[c].progress, ckpt.progress, NoProgress}
    BY <1>1, <2>2 DEF Limited
  <2> HIDE DEF Target
  <2> QED
    BY <2>1, <2>2 DEF CallStep, Reads, Takes, Waits, Starts, Executes, Releases, Finishes,
                      Parks, Records, Left, Went
<1>3. Within(ckpt'.progress)
  BY <1>2, PointSteps DEF Kept, Written, Limited
<1> QED
  BY <1>2, <1>3, NobodyElse DEF Alone, Limited

\* Every step keeps the counters within their limits.
LEMMA LimitedStep ==
    ASSUME TypeOK, Limited, [Next]_vars
    PROVE  Limited'
<1>1. CASE \E c \in Call : Enter(c) \/ Work(c) \/ UseTool(c) \/ Crash(c)
  BY <1>1, CallSteps, LimitedCall
<1>2. CASE Others
  BY <1>2, OtherSteps DEF Expires, Cancels, Settles, SamePoint, Invalidated, TypeOK, Checkpoint,
                          Limited
<1>3. CASE UNCHANGED vars
  BY <1>3 DEF vars, Limited
<1> QED
  BY <1>1, <1>2, <1>3 DEF Next

\* A call that starts a stage counts on from the checkpoint, or it has not seen
\* this one.
LEMMA EntersCounted ==
    ASSUME Steady, Shared \/ Sound, NEW c \in Call, CallStep(c),
           NEW d \in Call, EntersStage(d)
    PROVE  call[d].progress = ckpt.progress \/ (Shared /\ ~Current(d))
<1>1. d = c
  BY NobodyElse DEF Alone, EntersStage, StageOf, Active
<1>2. Starts(c) /\ AtWork(c)
  <2> HIDE DEF Target
  <2>1. ~Reads(c)
    BY <1>1, TargetSteps DEF EntersStage, StageOf, Active, Reads, Left, Went
  <2> QED
    BY <1>1, <2>1 DEF EntersStage, StageOf, Active, CallStep, Takes, Waits, Executes, Releases,
                      Left, Finishes, Parks, Repeats, Records, Decides, AtWork
<1>3. Current(c) => call[c].progress = ckpt.progress
  BY <1>2 DEF Steady, Informed
<1>4. Sound => call[c].progress = ckpt.progress
  BY <1>2, WriterOwns DEF Sound, Writing, Holds
<1> QED
  BY <1>1, <1>3, <1>4

\* What a commit records is no less than what was recorded, if its call counted
\* from there.
LEMMA CommitCounts ==
    ASSUME Steady, Shared \/ Sound, NEW c \in Call, CallStep(c)
    PROVE  \/ NotLess(ckpt'.progress, ckpt.progress)
           \/ /\ Shared
              /\ call[c].pc \in Active /\ IsRunning(call[c].attempt)
              /\ ckpt'.attempt = call[c].attempt
              /\ call[c].progress # ckpt.progress
<1>1. ckpt.progress \in Progress /\ TypeOK
  BY DEF Steady, TypeOK, Checkpoint
<1>2. NotLess(ckpt.progress, ckpt.progress)
  BY <1>1 DEF Progress, NotLess
<1>3. CASE Kept
  BY <1>2, <1>3 DEF Kept
<1>4. CASE Parks(c) \/ Repeats(c) \/ Records(c)
  <2>1. /\ call[c].pc \in Active /\ IsRunning(call[c].attempt)
        /\ ckpt'.attempt = call[c].attempt /\ ckpt'.progress = call'[c].progress
    BY <1>4 DEF Parks, Repeats, Records, Decides, Writes
  <2>2. CASE call[c].progress = ckpt.progress
    BY <1>1, <1>2, <1>4, <2>1, <2>2, Spending DEF Parks, Records, Went, Repeats
  <2>3. ASSUME call[c].progress # ckpt.progress, Sound PROVE FALSE
    BY <1>4, <2>1, <2>3, WriterOwns DEF Sound, Writing, Holds, AtWork
  <2> QED
    BY <2>1, <2>2, <2>3
<1>5. CASE Reads(c) \/ Waits(c) \/ Starts(c) \/ Executes(c)
  BY <1>3, <1>5 DEF Reads, Waits, Starts, Executes, Kept, Unblocked
<1>6. CASE Takes(c) \/ Releases(c)
  BY <1>3, <1>6 DEF Takes, Releases, SamePoint, Kept, Unblocked
<1>7. CASE Finishes(c)
  BY <1>1, <1>3, <1>7 DEF Finishes, Invalidated, TypeOK, Checkpoint, Kept, Unblocked
<1> QED
  BY <1>4, <1>5, <1>6, <1>7 DEF CallStep

\* No checkpoint records more retries, replans and cycles than configured, under
\* every schedule.  None are given back by crashes, takeovers and resumes: only a
\* call that works on a checkpoint it neither read nor wrote, as run() does on a
\* waiting task, counts from its own figures, and only its commits can do it.
THEOREM BudgetIsKept == Spec => BudgetNeverReset
<1>1. Init => Limited
  BY LimitsAssumption DEF Init, NoCheckpoint, IdleCall, NoProgress, Limited, Within
<1>2. Steady /\ Limited /\ [Next]_vars => Limited'
  BY LimitedStep DEF Steady
<1>3. ASSUME Steady, Limited, Shared \/ Sound, [Next]_vars
      PROVE  [BudgetKept]_vars
  <2>1. TypeOK /\ Within(ckpt'.progress)
    BY <1>2, <1>3 DEF Steady, Limited
  <2>2. CASE \E c \in Call : Enter(c) \/ Work(c) \/ UseTool(c) \/ Crash(c)
    <3>1. PICK c \in Call : CallStep(c)
      BY <2>1, <2>2, CallSteps
    <3> QED
      BY <1>3, <2>1, <3>1, EntersCounted, CommitCounts DEF BudgetKept
  <2>3. CASE Others
    <3>1. UNCHANGED call /\ ckpt'.progress = ckpt.progress
      BY <2>1, <2>3, OtherSteps DEF Expires, Cancels, Settles, SamePoint, Invalidated, TypeOK,
                                    Checkpoint
    <3>2. NotLess(ckpt'.progress, ckpt.progress)
      BY <2>1, <3>1 DEF TypeOK, Checkpoint, Progress, NotLess
    <3>3. \A c \in Call : ~EntersStage(c)
      BY <3>1 DEF EntersStage, StageOf, Active
    <3> QED
      BY <2>1, <3>2, <3>3 DEF BudgetKept
  <2> QED
    BY <1>3, <2>2, <2>3 DEF Next
<1> QED
  BY <1>1, <1>2, <1>3, SteadyAlways, SoundOrShared, PTL DEF Spec, BudgetNeverReset

----------------------------------------------------------------------------
(* Refinement of TaskLifecycle                                             *)

\* The four phases that TaskLifecycle knows.
LEMMA Phases ==
    \A status :
        /\ status \in {"created", "ready"} => PhaseOf(status) = "pending"
        /\ status \in Active => PhaseOf(status) = "working"
        /\ status = "waiting" => PhaseOf(status) = "parked"
        /\ status \in Terminal => PhaseOf(status) = "closed"
BY DEF PhaseOf, Active, Terminal

\* Closing what runs closes one attempt, or nothing.
LEMMA ClosesOne ==
    ASSUME TypeOK, OneRunningAttempt, NEW st, attempts' = CloseAll(st)
    PROVE  \/ ~Running /\ attempts' = attempts
           \/ \E i \in DOMAIN attempts :
                attempts[i] = "running" /\ attempts' = [attempts EXCEPT ![i] = st]
<1>1. attempts = [i \in DOMAIN attempts |-> attempts[i]]
  BY DEF TypeOK
<1>2. CASE ~Running
  <2>1. \A i \in DOMAIN attempts : attempts[i] # "running"
    BY <1>2 DEF Running
  <2> QED
    BY <1>1, <1>2, <2>1 DEF CloseAll
<1>3. CASE Running
  <2>1. PICK i \in DOMAIN attempts : attempts[i] = "running"
    BY <1>3 DEF Running
  <2>2. \A j \in DOMAIN attempts : attempts[j] = "running" <=> j = i
    BY <2>1 DEF OneRunningAttempt
  <2>3. CloseAll(st) = [attempts EXCEPT ![i] = st]
    BY <2>2 DEF CloseAll
  <2> QED
    BY <2>1, <2>3
<1> QED
  BY <1>2, <1>3

\* TaskLifecycle sees nothing of the step.
Stutter == PhaseOf(task'.status) = PhaseOf(task.status) /\ attempts' = attempts

\* The outcomes of one attempt and what the task becomes with it.
LEMMA ClosingMaps ==
    ASSUME NEW i \in DOMAIN attempts, attempts[i] = "running",
           NEW outcome, attempts' = [attempts EXCEPT ![i] = outcome],
           task.status \in Active,
           \/ outcome = "completed" /\ task'.status = "done"
           \/ outcome = "failed" /\ task'.status \in {"failed"} \cup Active
           \/ outcome = "waiting" /\ task'.status = "waiting"
           \/ outcome = "cancelled" /\ task'.status = "cancelled"
    PROVE  Lifecycle!Close
<1> DEFINE was == PhaseOf(task.status)
           phase == PhaseOf(task'.status)
<1>1. was = "working"
  BY Phases
<1>2. <<outcome, phase>> \in Lifecycle!Outcomes
  BY Phases DEF Lifecycle!Outcomes, Terminal
<1>3. Lifecycle!Open(i)
  BY DEF Lifecycle!Open
<1>4. PICK pair \in Lifecycle!Outcomes : pair[1] = outcome /\ pair[2] = phase
  BY <1>2
<1> QED
  BY <1>1, <1>3, <1>4 DEF Lifecycle!Close

\* Every step of a call is a step of TaskLifecycle, or it sees nothing.
LEMMA CallMaps ==
    ASSUME Steady, Shared \/ Sound, NEW c \in Call, CallStep(c)
    PROVE  Lifecycle!Next \/ Stutter
<1>1. /\ TypeOK /\ OneRunningAttempt /\ History /\ PlanStands
  BY DEF Steady
<1>2. ~Running => Lifecycle!NothingOpen
  BY DEF Running, Lifecycle!NothingOpen, Lifecycle!Open
<1>3. CASE Reads(c) \/ Releases(c)
  BY <1>3 DEF Reads, Releases, Stutter
<1>4. CASE Takes(c)
  <2>1. CASE /\ CanClaim /\ attempts' = attempts
             /\ task'.status = IF task.status = "ready" THEN "planning" ELSE task.status
    <3>1. CASE task.status = "ready"
      BY <2>1, <3>1, Phases DEF Active, Lifecycle!Next, Lifecycle!Take
    <3>2. CASE task.status # "ready"
      BY <2>1, <3>2 DEF Stutter
    <3> QED
      BY <3>1, <3>2
  <2>2. CASE /\ Claimable /\ task'.status = task.status
             /\ attempts' = IF task.status = "waiting" THEN attempts
                                                       ELSE CloseAll("failed")
    <3>1. CASE task.status = "waiting"
      BY <2>2, <3>1 DEF Stutter
    <3>2. CASE task.status \in Active /\ task.status # "waiting"
      BY <1>1, <2>2, <3>2, ClosesOne, ClosingMaps DEF Stutter, Lifecycle!Next
    <3> QED
      BY <1>1, <2>2, <3>1, <3>2, TakeoverStatus
  <2>3. CASE task'.status = task.status /\ Orphaned /\ attempts' = CloseAll("failed")
    BY <1>1, <2>3, ClosesOne, ClosingMaps DEF Orphaned, Stutter, Lifecycle!Next
  <2> QED
    BY <1>4, <2>1, <2>2, <2>3 DEF Takes
<1>5. CASE Waits(c)
  <2>1. ~Running \/ Shared
    BY <1>5, WriterOwns DEF Writing, Waits, Sound, Holds
  <2>2. task.status \in Active
    BY <1>5 DEF Waits, CanMove, Edges, From, Active, Terminal, Status
  <2> QED
    BY <1>2, <1>5, <2>1, <2>2, Phases DEF Waits, Lifecycle!Next, Lifecycle!Leave
<1>6. CASE Starts(c)
  <2>1. task.status \in Active \cup {"waiting"}
    <3>1. task.status \notin Terminal
      BY <1>6, MoveFacts DEF Starts, CanStart, CanEnter, StageOf, Starting, Terminal
    <3>2. task.status \notin {"created", "ready"}
      BY <1>1, <1>6 DEF Starts, History, Pristine, Begun
    <3> QED
      BY <1>1, <3>1, <3>2 DEF TypeOK, Task, Status, Active, Terminal
  <2>2. task'.status \in Active
    BY <1>6 DEF Starts, Starting, StageOf, Active
  <2> QED
    BY <1>2, <1>6, <2>1, <2>2, Phases DEF Starts, CanStart, CanRecordAttempt,
                                          Lifecycle!Next, Lifecycle!Begin
<1>7. CASE Executes(c)
  <2>1. task.status = "planning"
    BY <1>1, <1>7, MoveFacts DEF Executes, PlanStands
  <2> QED
    BY <1>7, <2>1, Phases DEF Executes, Active, Stutter
<1>8. CASE Finishes(c)
  BY <1>8, ClosingMaps DEF Finishes, Decides, IsRunning, Outcome, Lifecycle!Next
<1>9. CASE Parks(c)
  BY <1>9, ClosingMaps DEF Parks, Decides, IsRunning, Outcome, Lifecycle!Next
<1>10. CASE Repeats(c)
  BY <1>10, ClosingMaps DEF Repeats, Decides, IsRunning, Outcome, Lifecycle!Next
<1>11. CASE Records(c)
  BY <1>11, Phases DEF Records, Decides, Active, Stutter
<1> QED
  BY <1>3, <1>4, <1>5, <1>6, <1>7, <1>8, <1>9, <1>10, <1>11 DEF CallStep

\* A cancellation closes what is open, if anything is.
LEMMA CancelMaps ==
    ASSUME Steady, Shared \/ Sound, Cancels
    PROVE  Lifecycle!Next
<1>1. TypeOK /\ OneRunningAttempt /\ History
  BY DEF Steady
<1>2. PhaseOf(task'.status) = "closed"
  BY Phases DEF Cancels, Terminal
<1>3. CASE ~Running /\ attempts' = attempts
  <2>1. Lifecycle!NothingOpen
    BY <1>3 DEF Running, Lifecycle!NothingOpen, Lifecycle!Open
  <2>2. PhaseOf(task.status) # "closed"
    BY <1>1, Phases DEF Cancels, TypeOK, Task, Status, Terminal, Active
  <2> QED
    BY <1>2, <1>3, <2>1, <2>2 DEF Lifecycle!Next, Lifecycle!Leave
<1>4. ASSUME NEW i \in DOMAIN attempts, attempts[i] = "running",
             attempts' = [attempts EXCEPT ![i] = "cancelled"]
      PROVE  Lifecycle!Next
  <2>1. Running /\ attempts # <<>>
    BY <1>4 DEF Running
  <2>2. task.status \in Active \/ (Shared /\ task.status = "waiting")
    BY <1>1, <2>1 DEF Cancels, History, Pristine, Sound, WaitingIsResumable, TypeOK,
                      Task, Status, Active, Terminal
  <2>3. CASE task.status \in Active
    BY <1>4, <2>3, ClosingMaps DEF Cancels, Lifecycle!Next
  <2>4. CASE Shared /\ task.status = "waiting"
    <3>1. PhaseOf(task.status) = "parked"
      BY <2>4, Phases
    <3>2. Lifecycle!Open(i)
      BY <1>4 DEF Lifecycle!Open
    <3>3. PICK pair \in Lifecycle!Outcomes : pair[1] = "cancelled" /\ pair[2] = "closed"
      BY DEF Lifecycle!Outcomes
    <3> QED
      BY <1>2, <1>4, <2>4, <3>1, <3>2, <3>3 DEF Lifecycle!Close, Lifecycle!Next
  <2> QED
    BY <2>2, <2>3, <2>4
<1> QED
  BY <1>1, <1>3, <1>4, ClosesOne DEF Cancels

\* Every step is one of TaskLifecycle, or changes nothing it sees.
LEMMA LifecycleStep ==
    ASSUME Steady, Shared \/ Sound, [Next]_vars
    PROVE  [Lifecycle!Next]_<<PhaseOf(task.status), attempts>>
<1>1. TypeOK
  BY DEF Steady
<1>2. CASE \E c \in Call : Enter(c) \/ Work(c) \/ UseTool(c) \/ Crash(c)
  BY <1>1, <1>2, CallSteps, CallMaps DEF Stutter
<1>3. CASE Others
  BY <1>1, <1>3, OtherSteps, CancelMaps DEF Expires, Settles
<1>4. CASE UNCHANGED vars
  BY <1>4 DEF vars
<1> QED
  BY <1>2, <1>3, <1>4 DEF Next

\* Task and attempts follow TaskLifecycle: one attempt at a time, opened once and
\* closed once with the change of the task that its outcome stands for, through
\* takeovers, cancellations and crashes, and for calls that share a task too.
THEOREM LifecycleIsKept == Spec => KeepsLifecycle
<1>1. Init => Lifecycle!Init
  BY Phases DEF Init, Lifecycle!Init
<1>2. Steady /\ (Shared \/ Sound) /\ [Next]_vars
        => [Lifecycle!Next]_<<PhaseOf(task.status), attempts>>
  BY LifecycleStep
<1> QED
  BY <1>1, <1>2, SteadyAlways, SoundOrShared, PTL DEF Spec, KeepsLifecycle, Lifecycle!Spec

----------------------------------------------------------------------------
(* A claim that is lost is lost for good                                   *)

\* What a step does to the claims: it takes the task under a new epoch, or at
\* most lets a claim or a lease go.
NewEpoch == task'.epoch = task.epoch + 1

LetsGo ==
    /\ task'.epoch = task.epoch
    /\ task'.holder \in {task.holder, None} /\ (task'.live => task.live)
    /\ ckpt'.holder \in {ckpt.holder, None} /\ (ckpt'.live => ckpt.live)

\* What it does to the identity of a call: nothing, or the call gets one that
\* had none, or it ends.
SameIdentity(c) ==
    UNCHANGED <<call[c].fenced, call[c].token, call[c].epoch, call[c].resumed>>

Identifies(c) ==
    \/ SameIdentity(c)
    \/ call'[c].fenced = FALSE /\ call'[c].resumed = FALSE
    \/ /\ call[c].fenced = FALSE
       /\ call'[c].epoch = task'.epoch
       /\ call'[c].resumed => call[c].resumed \/ ckpt.active

\* A call gets its identity once, with the claim or when it reads it back.
LEMMA Fencing ==
    ASSUME TypeOK, NEW c \in Call, Enter(c) \/ Work(c) \/ UseTool(c) \/ Crash(c),
           call[c].fenced => call[c].pc \notin Early
    PROVE  /\ NewEpoch \/ LetsGo
           /\ Identifies(c)
<1>1. /\ call \in [Call -> CallState] /\ call[c] \in CallState
      /\ task \in Task /\ ckpt \in Checkpoint
  BY DEF TypeOK
<1>2. \A pc : Goto(c, pc) => Identifies(c)
  BY <1>1 DEF Goto, SameIdentity, Identifies, CallState
<1>3. \A pc : End(c, pc) => Identifies(c)
  BY <1>1 DEF End, Identifies, IdleCall
<1>4. task' = task /\ ckpt' = ckpt => LetsGo
  BY DEF LetsGo
<1>5. CASE RunRead(c) \/ RunUnclaimed(c) \/ Abort(c) \/ Crash(c)
  BY <1>2, <1>3, <1>4, <1>5 DEF RunRead, RunUnclaimed, Abort, Crash
<1>6. CASE UseTool(c)
  BY <1>4, <1>6 DEF UseTool, Identifies, SameIdentity
<1>7. CASE ResumeRead(c)
  <2>1. SameIdentity(c)
    BY <1>1, <1>7 DEF ResumeRead, SameIdentity, CallState
  <2> QED
    BY <1>4, <1>7, <2>1 DEF ResumeRead, Identifies
<1>8. CASE Adopt(c)
  <2>1. call'[c].epoch = task.epoch /\ call'[c].resumed = call[c].resumed
    BY <1>1, <1>8 DEF Adopt, CallState
  <2>2. call[c].fenced = FALSE
    BY <1>1, <1>8 DEF Adopt, Early, CallState
  <2> QED
    BY <1>4, <1>8, <2>1, <2>2 DEF Adopt, Identifies
<1>9. CASE Claim(c)
  <2>1. CASE CanClaim
    <3>1. NewEpoch
      BY <1>1, <1>9, <2>1 DEF Claim, NewEpoch, Task
    <3> QED
      BY <1>2, <1>9, <2>1, <3>1 DEF Claim
  <2>2. CASE ~CanClaim
    BY <1>3, <1>4, <1>9, <2>2 DEF Claim
  <2> QED
    BY <2>1, <2>2
<1>10. CASE ClaimResume(c)
  <2>1. CASE Claimable /\ call[c].seen = ckpt.revision
    <3>1. NewEpoch
      BY <1>1, <1>10, <2>1 DEF ClaimResume, NewEpoch, Task
    <3>2. /\ call'[c].epoch = task.epoch + 1 /\ ckpt.active
      BY <1>1, <1>10, <2>1 DEF ClaimResume, Claimable, CallState
    <3>3. call[c].fenced = FALSE
      BY <1>1, <1>10 DEF ClaimResume, Early, CallState
    <3> QED
      BY <3>1, <3>2, <3>3 DEF NewEpoch, Identifies
  <2>2. CASE ~(Claimable /\ call[c].seen = ckpt.revision)
    BY <1>3, <1>4, <1>10, <2>2 DEF ClaimResume
  <2> QED
    BY <2>1, <2>2
<1>11. CASE ClaimOrphan(c)
  <2>1. NewEpoch
    BY <1>1, <1>11 DEF ClaimOrphan, NewEpoch, Task
  <2>2. call'[c].epoch = task.epoch + 1 /\ call'[c].resumed = call[c].resumed
    BY <1>1, <1>11 DEF ClaimOrphan, CallState
  <2>3. call[c].fenced = FALSE
    BY <1>1, <1>11 DEF ClaimOrphan, Early, CallState
  <2> QED
    BY <2>1, <2>2, <2>3 DEF NewEpoch, Identifies
<1>12. CASE Release(c)
  <2>1. LetsGo
    BY <1>1, <1>12 DEF Release, LetsGo, Task, Checkpoint
  <2> QED
    BY <1>3, <1>12, <2>1 DEF Release
<1>13. CASE Dispatch(c)
  <2>1. LetsGo
    BY <1>1, <1>13 DEF Dispatch, LetsGo, Task
  <2>2. CASE call' = [call EXCEPT ![c].pc = Target, ![c].progress = ckpt.progress]
    <3> HIDE DEF Target
    <3> QED
      BY <1>1, <2>1, <2>2 DEF SameIdentity, Identifies, CallState
  <2> QED
    BY <1>2, <1>13, <2>1, <2>2 DEF Dispatch
<1>14. CASE Start(c) \/ Execute(c)
  <2> DEFINE stage == StageOf[call[c].pc]
  <2>1. CASE Start(c)
    <3>1. /\ task' = [task EXCEPT !.status = stage] /\ ckpt' = ckpt
          /\ call' = [call EXCEPT ![c].pc = stage, ![c].attempt = Len(attempts) + 1]
      BY <2>1 DEF Start
    <3> HIDE DEF stage
    <3> QED
      BY <1>1, <3>1 DEF LetsGo, Task, SameIdentity, Identifies, CallState
  <2>2. CASE Execute(c)
    <3>1. LetsGo
      BY <1>1, <2>2 DEF Execute, LetsGo, Task
    <3> QED
      BY <1>2, <2>2, <3>1 DEF Execute
  <2> QED
    BY <1>14, <2>1, <2>2
<1>15. CASE Plan(c) \/ Executed(c) \/ Validated(c)
  <2>1. ASSUME NEW st, NEW status, Finish(c, st, status) PROVE LetsGo /\ Identifies(c)
    <3>1. LetsGo
      BY <1>1, <2>1 DEF Finish, Invalidated, LetsGo, Task, Checkpoint
    <3> QED
      BY <1>2, <2>1, <3>1 DEF Finish
  <2>2. ASSUME NEW action, NEW attempt, NEW wait, NEW planned, NEW executed, NEW progress,
               ckpt' = Saved(action, attempt, wait, planned, executed, progress),
               \E status : task' = [task EXCEPT !.status = status]
        PROVE  LetsGo
    BY <1>1, <2>2 DEF Saved, LetsGo, Task
  <2>3. ASSUME NEW reason, NEW next, NEW planned, NEW executed,
               Park(c, reason, next, planned, executed)
        PROVE  LetsGo /\ Identifies(c)
    BY <1>2, <2>2, <2>3 DEF Park
  <2>4. ASSUME NEW action, Redo(c, action) PROVE LetsGo /\ Identifies(c)
    <3> DEFINE kept == NextCycle(Spent(call[c].progress, action))
               pc == IF action = "replan" THEN "planStart" ELSE "retryStart"
    <3>1. CASE /\ call' = [call EXCEPT ![c].pc = pc, ![c].progress = kept]
               /\ ckpt' = Saved(action, call[c].attempt, NoWait, TRUE, TRUE, kept)
               /\ task' = task
      <4> HIDE DEF pc, kept
      <4> QED
        BY <1>1, <3>1 DEF Saved, LetsGo, SameIdentity, Identifies, CallState
    <3> QED
      BY <2>1, <2>4, <3>1 DEF Redo
  <2>5. Wait(c) => LetsGo /\ Identifies(c)
    BY <2>3 DEF Wait
  <2>6. (\E next, planned, executed : Ask(c, next, planned, executed))
            => LetsGo /\ Identifies(c)
    BY <2>3 DEF Ask
  <2>7. CASE Plan(c)
    <3>1. CASE PlanAccepted(c)
      <4>1. LetsGo
        BY <3>1 DEF PlanAccepted, Saved, LetsGo
      <4> QED
        BY <1>2, <3>1, <4>1 DEF PlanAccepted
    <3> QED
      BY <2>1, <2>6, <2>7, <3>1 DEF Plan
  <2>8. CASE Executed(c)
    <3>1. CASE /\ task' = [task EXCEPT !.status = "validating"]
               /\ ckpt' = Saved("validate", call[c].attempt, NoWait, TRUE, TRUE,
                                call[c].progress)
               /\ Goto(c, "validating")
      BY <1>2, <2>2, <3>1
    <3> QED
      BY <2>1, <2>4, <2>5, <2>6, <2>8, <3>1 DEF Executed
  <2>9. CASE Validated(c)
    BY <2>1, <2>4, <2>5, <2>6, <2>9 DEF Validated
  <2> QED
    BY <1>15, <2>7, <2>8, <2>9
<1> QED
  BY <1>5, <1>6, <1>7, <1>8, <1>9, <1>10, <1>11, <1>12, <1>13, <1>14, <1>15 DEF Enter, Work

\* Nobody else gives a claim or an identity.
LEMMA FencingOthers ==
    ASSUME TypeOK, Others
    PROVE  /\ NewEpoch \/ LetsGo
           /\ UNCHANGED call
<1>1. task \in Task /\ ckpt \in Checkpoint
  BY DEF TypeOK
<1>2. CASE ExpireClaim \/ ExpireLease \/ SetApproval \/ Cancel
  BY <1>1, <1>2 DEF ExpireClaim, ExpireLease, SetApproval, Cancel, NewEpoch, LetsGo, Task,
                    Checkpoint
<1>3. CASE Resolve \/ Withdraw
  BY <1>1, <1>3 DEF Resolve, Withdraw, LetsGo, Checkpoint
<1>4. CASE Answer
  <2>1. PICK next : ckpt' = [ckpt EXCEPT !.resolved = TRUE, !.next = next]
    BY <1>4 DEF Answer
  <2> QED
    BY <1>1, <1>4, <2>1 DEF Answer, LetsGo, Checkpoint
<1> QED
  BY <1>2, <1>3, <1>4 DEF Others

\* An identity is of an epoch that has been, and of a task with a checkpoint if
\* the call resumed it; a call that has none to lose is still looking.
Identified ==
    \A c \in Call :
        /\ call[c].fenced => call[c].pc \notin Early /\ call[c].epoch <= task.epoch
        /\ call[c].resumed => ckpt.revision # 0

\* A step of a call keeps the identities in order.
LEMMA IdentifiedCall ==
    ASSUME Steady, Identified, NEW c \in Call,
           Enter(c) \/ Work(c) \/ UseTool(c) \/ Crash(c)
    PROVE  Identified'
<1>1. /\ TypeOK /\ CallStep(c) /\ Identifies(c) /\ (NewEpoch \/ LetsGo)
      /\ task.epoch \in Nat /\ ckpt.revision \in Nat
      /\ \A d \in Call : call[d].epoch \in Nat
  BY CallSteps, Fencing DEF Steady, Identified, TypeOK, Task, Checkpoint, CallState
<1>2. task'.epoch \in {task.epoch, task.epoch + 1}
  BY <1>1 DEF NewEpoch, LetsGo
<1>3. ckpt'.revision \in {ckpt.revision, ckpt.revision + 1}
  BY <1>1, PointSteps DEF Kept, Written
<1>4. call'[c].pc \in Early => call'[c] = call[c] \/ (call[c].pc \in Early /\ SameClaim(c))
  <2> HIDE DEF Target
  <2>1. ~Reads(c) => call'[c].pc \notin Early \/ (call[c].pc \in Early /\ SameClaim(c))
    BY <1>1 DEF CallStep, Takes, Waits, Starts, StageOf, Starting, Executes, Releases, Left,
                Finishes, Parks, Repeats, Records, Went, Early
  <2>2. CASE Reads(c)
    BY TargetSteps, <2>2 DEF Reads, Left, Went, Early
  <2> QED
    BY <2>1, <2>2
<1>5. /\ call'[c].fenced => call'[c].pc \notin Early
      /\ call'[c].fenced => call'[c].epoch <= task'.epoch
      /\ call'[c].resumed => ckpt'.revision # 0
  <2>1. call'[c].fenced => call'[c].pc \notin Early
    BY <1>4 DEF Identified, SameClaim
  <2>2. call'[c].fenced => call'[c].epoch <= task'.epoch
    <3>1. CASE SameIdentity(c)
      <4>1. task.epoch \in Nat /\ call[c].epoch \in Nat
        BY <1>1
      <4>2. call[c].fenced => call[c].epoch <= task.epoch
        BY DEF Identified
      <4>3. call'[c].fenced = call[c].fenced /\ call'[c].epoch = call[c].epoch
        BY <3>1 DEF SameIdentity
      <4> QED
        BY <1>2, <4>1, <4>2, <4>3
    <3>2. CASE call'[c].fenced = FALSE
      BY <3>2
    <3>3. CASE call'[c].epoch = task'.epoch
      BY <1>1, <1>2, <3>3
    <3> QED
      BY <1>1, <3>1, <3>2, <3>3 DEF Identifies
  <2>3. call'[c].resumed => ckpt.revision # 0
    BY <1>1 DEF Identifies, SameIdentity, Identified, Steady, History, CheckpointKept
  <2> QED
    BY <1>1, <1>3, <2>1, <2>2, <2>3
<1>6. ASSUME NEW d \in Call, d # c
      PROVE  /\ call'[d].fenced => call'[d].pc \notin Early /\ call'[d].epoch <= task'.epoch
             /\ call'[d].resumed => ckpt'.revision # 0
  <2>1. call'[d] = call[d]
    BY <1>1, <1>6, NobodyElse DEF Alone
  <2> QED
    BY <1>1, <1>2, <1>3, <2>1 DEF Identified
<1> QED
  BY <1>5, <1>6 DEF Identified

\* So does every step.
LEMMA IdentifiedStep ==
    ASSUME Steady, Identified, [Next]_vars
    PROVE  Identified'
<1>1. CASE \E c \in Call : Enter(c) \/ Work(c) \/ UseTool(c) \/ Crash(c)
  BY <1>1, IdentifiedCall
<1>2. CASE Others
  <2>1. /\ TypeOK /\ UNCHANGED call /\ task'.epoch \in {task.epoch, task.epoch + 1}
        /\ task.epoch \in Nat /\ \A d \in Call : call[d].epoch \in Nat
    BY <1>2, FencingOthers DEF Steady, TypeOK, Task, CallState, NewEpoch, LetsGo
  <2>2. ckpt'.revision = ckpt.revision
    BY <1>2, <2>1, OtherSteps DEF Expires, Cancels, Settles, SamePoint, Invalidated, TypeOK,
                                  Checkpoint
  <2> QED
    BY <2>1, <2>2 DEF Identified
<1>3. CASE UNCHANGED vars
  BY <1>3 DEF vars, Identified
<1> QED
  BY <1>1, <1>2, <1>3 DEF Next

\* A call that has lost the task, because its lease ran out, another call took
\* over or the task has ended, never gets it back: no later step, of whatever
\* call, makes the fence let it pass again.  It has to begin anew.
LostForGood ==
    [][\A c \in Call : call[c].fenced /\ ~Owner(c)
                            => ~(call'[c].fenced /\ Owner(c)')]_vars

\* A claim under a new epoch is that of another call or of one that had none.
LEMMA NeverOwnerAgain ==
    ASSUME Steady, Identified, Next, NEW c \in Call,
           call[c].fenced, call'[c].fenced, Owner(c)'
    PROVE  Owner(c)
<1>1. TypeOK /\ History
  BY DEF Steady
<1>2. /\ NewEpoch \/ LetsGo
      /\ SameIdentity(c)
      /\ task.status \in Terminal => task'.status \in Terminal
  <2>1. ASSUME NEW d \in Call, Enter(d) \/ Work(d) \/ UseTool(d) \/ Crash(d)
        PROVE  /\ NewEpoch \/ LetsGo
               /\ SameIdentity(c)
               /\ task.status \in Terminal => task'.status \in Terminal
    <3>1. CallStep(d) /\ Identifies(d) /\ (NewEpoch \/ LetsGo)
      BY <1>1, <2>1, CallSteps, Fencing DEF Identified
    <3>2. c # d => SameIdentity(c)
      BY <3>1, NobodyElse DEF Alone, SameIdentity
    <3> QED
      BY <1>1, <3>1, <3>2, EndedStays DEF Identifies
  <2>2. CASE Others
    <3>1. task.status \in Terminal => task'.status \in Terminal
      BY <1>1, <2>2, OtherSteps DEF Expires, Cancels, Settles
    <3> QED
      BY <1>1, <2>2, <3>1, FencingOthers DEF SameIdentity
  <2> QED
    BY <2>1, <2>2 DEF Next
<1>3. /\ task'.holder = call[c].token /\ task'.holder # None
      /\ task'.epoch = call[c].epoch /\ task'.live /\ task'.status \notin Terminal
      /\ call[c].resumed => ckpt'.active /\ ckpt'.holder = call[c].token /\ ckpt'.live
  BY <1>2 DEF Owner, SameIdentity
<1>4. LetsGo
  <2>1. call[c].epoch <= task.epoch /\ call[c].epoch \in Nat /\ task.epoch \in Nat
    BY <1>1 DEF Identified, TypeOK, Task, CallState
  <2> QED
    BY <1>2, <1>3, <2>1 DEF NewEpoch
<1>5. task.status \notin Terminal
  BY <1>2, <1>3
<1>6. call[c].resumed => ckpt.active
  BY <1>1, <1>5 DEF Identified, History, CheckpointKept
<1> QED
  BY <1>3, <1>4, <1>5, <1>6 DEF LetsGo, Owner

\* The epoch of the claim (execution_epoch) fences a call off for good, under
\* every schedule: claim, claim_resume_lease and claim_orphaned_run count it up,
\* and a call is given the new number only when it has no claim yet.
THEOREM LostClaimsStayLost == Spec => LostForGood
<1>1. Init => Identified
  BY DEF Init, IdleCall, Identified
<1>2. Steady /\ Identified /\ [Next]_vars => Identified'
  BY IdentifiedStep
<1>3. Steady /\ Identified /\ [Next]_vars =>
        [\A c \in Call : call[c].fenced /\ ~Owner(c)
                            => ~(call'[c].fenced /\ Owner(c)')]_vars
  BY NeverOwnerAgain
<1> QED
  BY <1>1, <1>2, <1>3, SteadyAlways, PTL DEF Spec, LostForGood

====
