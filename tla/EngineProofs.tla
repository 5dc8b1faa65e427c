---- MODULE EngineProofs ----
(***************************************************************************)
(* Theorems about Engine for any number of calls and any limits, whatever  *)
(* the switches RunWaiting and SlowClaims allow.                           *)
(***************************************************************************)
EXTENDS Engine, SequenceTheorems, TLAPS

----------------------------------------------------------------------------
(* The attempt log                                                         *)

\* Overwriting the status of a recorded attempt keeps the log well formed and
\* its length.
LEMMA UpdateAttempt ==
    ASSUME attempts \in Seq(AttemptStatus), NEW i, i \in DOMAIN attempts,
           NEW st \in AttemptStatus
    PROVE  /\ [attempts EXCEPT ![i] = st] \in Seq(AttemptStatus)
           /\ DOMAIN [attempts EXCEPT ![i] = st] = DOMAIN attempts
<1>1. i \in 1 .. Len(attempts)
  BY LenProperties
<1>2. [attempts EXCEPT ![i] = st] \in Seq(AttemptStatus)
  BY <1>1, ExceptSeq
<1> QED
  BY <1>2

\* Closing every running attempt keeps the log well formed and leaves none.
LEMMA ClosedLog ==
    ASSUME attempts \in Seq(AttemptStatus), NEW st \in AttemptStatus,
           st # "running"
    PROVE  /\ CloseAll(st) \in Seq(AttemptStatus)
           /\ \A i \in DOMAIN CloseAll(st) : CloseAll(st)[i] # "running"
<1>1. /\ Len(attempts) \in Nat
      /\ DOMAIN attempts = 1 .. Len(attempts)
      /\ \A i \in 1 .. Len(attempts) : attempts[i] \in AttemptStatus
  BY LenProperties, ElementOfSeq
<1>2. CloseAll(st) \in [1 .. Len(attempts) -> AttemptStatus]
  BY <1>1 DEF CloseAll
<1>3. CloseAll(st) \in Seq(AttemptStatus)
  BY <1>1, <1>2, SeqDef
<1>4. \A i \in DOMAIN CloseAll(st) : CloseAll(st)[i] # "running"
  BY DEF CloseAll
<1> QED
  BY <1>3, <1>4

----------------------------------------------------------------------------
(* Type correctness                                                        *)

\* Resume is directed to a step that exists.
LEMMA TargetSteps ==
    Target \in {"stay", "planStart", "retryStart", "revalidate"}
<1>1. WaitTarget \in {"stay", "planStart", "retryStart", "revalidate"}
  BY DEF WaitTarget
<1> QED
  BY <1>1 DEF Target

\* A checkpoint saved by a call is a checkpoint.
LEMMA SavedType ==
    ASSUME TypeOK,
           NEW action \in {"wait", "validate", "retry_execution", "replan"},
           NEW attempt \in Nat, NEW reason \in {"none"} \cup AllReasons,
           NEW next \in {"none", "retry", "replan", "validate"},
           NEW planned \in BOOLEAN, NEW executed \in BOOLEAN,
           NEW progress \in Progress
    PROVE  Saved(action, attempt, [reason |-> reason, next |-> next],
                 planned, executed, progress) \in Checkpoint
<1>1. ckpt \in Checkpoint
  BY DEF TypeOK
<1>2. ckpt.revision + 1 \in Nat /\ ckpt.holder \in Call \cup {None}
      /\ ckpt.live \in BOOLEAN
  BY <1>1 DEF Checkpoint
<1> QED
  BY <1>2 DEF Saved, Checkpoint

\* A local step of a call keeps the table of calls well formed.
LEMMA CallType ==
    ASSUME TypeOK, NEW c \in Call
    PROVE  /\ \A pc \in Pc : [call EXCEPT ![c].pc = pc] \in [Call -> CallState]
           /\ \A pc \in Pc :
                [call EXCEPT ![c] = [IdleCall EXCEPT !.pc = pc]] \in [Call -> CallState]
           /\ call[c] \in CallState
<1>1. call \in [Call -> CallState]
  BY DEF TypeOK
<1>2. IdleCall \in CallState
  BY DEF IdleCall, CallState, Pc, NoProgress, Progress
<1>3. ASSUME NEW pc \in Pc
      PROVE  /\ [call[c] EXCEPT !.pc = pc] \in CallState
             /\ [IdleCall EXCEPT !.pc = pc] \in CallState
  BY <1>1, <1>2 DEF CallState
<1> QED
  BY <1>1, <1>3

\* What the decisions of a stage leave behind is well formed.
LEMMA DecisionType ==
    ASSUME TypeOK, NEW c \in Call, IsRunning(call[c].attempt)
    PROVE  /\ \A st \in AttemptStatus, status \in Status :
                Finish(c, st, status) => /\ attempts' \in Seq(AttemptStatus)
                                         /\ task' \in Task
                                         /\ ckpt' \in Checkpoint
                                         /\ call' \in [Call -> CallState]
           /\ \A reason \in AllReasons, next \in {"none", "retry", "replan", "validate"},
                 planned \in BOOLEAN, executed \in BOOLEAN :
                Park(c, reason, next, planned, executed) =>
                    /\ attempts' \in Seq(AttemptStatus)
                    /\ task' \in Task
                    /\ ckpt' \in Checkpoint
                    /\ call' \in [Call -> CallState]
           /\ \A action \in {"retry_execution", "replan"} :
                Redo(c, action) => /\ attempts' \in Seq(AttemptStatus)
                                   /\ task' \in Task
                                   /\ ckpt' \in Checkpoint
                                   /\ call' \in [Call -> CallState]
<1>1. /\ task \in Task
      /\ attempts \in Seq(AttemptStatus)
      /\ ckpt \in Checkpoint
      /\ call \in [Call -> CallState]
  BY DEF TypeOK
<1>2. call[c] \in CallState /\ call[c].attempt \in Nat /\ call[c].progress \in Progress
  BY <1>1 DEF CallState
<1>3. \A st \in AttemptStatus :
        [attempts EXCEPT ![call[c].attempt] = st] \in Seq(AttemptStatus)
  BY <1>1, UpdateAttempt DEF IsRunning
<1>4. \A status \in Status : [task EXCEPT !.status = status] \in Task
  BY <1>1 DEF Task
<1>5. Invalidated \in Checkpoint
  BY <1>1 DEF Invalidated, Checkpoint
<1>6. \A pc \in Pc : Goto(c, pc) => call' \in [Call -> CallState]
  BY CallType DEF Goto
<1>7. ASSUME NEW st \in AttemptStatus, NEW status \in Status, Finish(c, st, status)
      PROVE  /\ attempts' \in Seq(AttemptStatus)
             /\ task' \in Task
             /\ ckpt' \in Checkpoint
             /\ call' \in [Call -> CallState]
  BY <1>3, <1>4, <1>5, <1>6, <1>7 DEF Finish, Pc
<1>8. ASSUME NEW reason \in AllReasons,
             NEW next \in {"none", "retry", "replan", "validate"},
             NEW planned \in BOOLEAN, NEW executed \in BOOLEAN,
             Park(c, reason, next, planned, executed)
      PROVE  /\ attempts' \in Seq(AttemptStatus)
             /\ task' \in Task
             /\ ckpt' \in Checkpoint
             /\ call' \in [Call -> CallState]
  <2>1. ckpt' \in Checkpoint
    BY <1>2, <1>8, SavedType DEF Park
  <2>2. attempts' \in Seq(AttemptStatus) /\ task' \in Task
    BY <1>3, <1>4, <1>8 DEF Park, AttemptStatus, Status
  <2> QED
    BY <1>6, <1>8, <2>1, <2>2 DEF Park, Pc
<1>9. ASSUME NEW action \in {"retry_execution", "replan"}, Redo(c, action)
      PROVE  /\ attempts' \in Seq(AttemptStatus)
             /\ task' \in Task
             /\ ckpt' \in Checkpoint
             /\ call' \in [Call -> CallState]
  <2> DEFINE spent == Spent(call[c].progress, action)
             kept == NextCycle(spent)
             pc == IF action = "replan" THEN "planStart" ELSE "retryStart"
  <2>1. spent \in Progress /\ kept \in Progress
    BY <1>2 DEF Progress, Spent, NextCycle
  <2>2. CASE Exhausted(spent)
    <3>1. Finish(c, "failed", "failed")
      BY <1>9, <2>2 DEF Redo
    <3> QED
      BY <1>7, <3>1 DEF AttemptStatus, Status
  <2>3. CASE ~Exhausted(spent)
    <3>1. /\ attempts' = [attempts EXCEPT ![call[c].attempt] = "failed"]
          /\ ckpt' = Saved(action, call[c].attempt, NoWait, TRUE, TRUE, kept)
          /\ call' = [call EXCEPT ![c].pc = pc, ![c].progress = kept]
          /\ task' = task
      BY <1>9, <2>3 DEF Redo
    <3>2. ckpt' \in Checkpoint
      BY <1>2, <2>1, <3>1, SavedType DEF NoWait
    <3>3. pc \in Pc
      BY DEF Pc
    <3>4. call' \in [Call -> CallState]
      <4> HIDE DEF kept, pc
      <4>1. [call[c] EXCEPT !.pc = pc, !.progress = kept] \in CallState
        BY <1>2, <2>1, <3>3 DEF CallState
      <4> QED
        BY <1>1, <2>1, <3>1, <4>1
    <3> QED
      BY <1>1, <1>3, <3>1, <3>2, <3>4 DEF AttemptStatus
  <2> QED
    BY <2>2, <2>3
<1> QED
  BY <1>7, <1>8, <1>9

\* Claims and takeovers.
LEMMA ClaimType ==
    ASSUME TypeOK, NEW c \in Call,
           Claim(c) \/ Adopt(c) \/ ResumeRead(c) \/ ClaimResume(c) \/ ClaimOrphan(c)
    PROVE  TypeOK'
<1>1. /\ task \in Task /\ attempts \in Seq(AttemptStatus) /\ ckpt \in Checkpoint
      /\ tools \in {"none", "otherPlan", "thisPlan"}
      /\ call \in [Call -> CallState] /\ call[c] \in CallState
  BY DEF TypeOK
<1>2. \A pc \in Pc : Goto(c, pc) => call' \in [Call -> CallState]
  BY CallType DEF Goto
<1>0. \A pc \in Pc : End(c, pc) => call' \in [Call -> CallState]
  BY CallType DEF End
<1>3. task.epoch \in Nat /\ task.epoch + 1 \in Nat /\ task.holder \in Call \cup {None}
      /\ ckpt.revision \in Nat
  BY <1>1 DEF Task, Checkpoint
<1>4. CloseAll("failed") \in Seq(AttemptStatus)
  BY <1>1, ClosedLog DEF AttemptStatus
<1>5. [task EXCEPT !.holder = c, !.live = TRUE, !.epoch = @ + 1] \in Task
  BY <1>1, <1>3 DEF Task
<1>6. CASE Claim(c)
  <2>1. [task EXCEPT !.status = IF @ = "ready" THEN "planning" ELSE @,
                     !.holder = c, !.live = TRUE, !.epoch = @ + 1] \in Task
    BY <1>1, <1>3 DEF Task, Status
  <2>2. task' \in Task /\ call' \in [Call -> CallState]
    BY <1>1, <1>2, <1>0, <1>6, <2>1 DEF Claim, Pc
  <2> QED
    BY <1>1, <1>6, <2>2 DEF Claim, TypeOK
<1>7. CASE Adopt(c)
  <2>1. [call[c] EXCEPT !.pc = "planStart", !.fenced = TRUE,
                        !.token = task.holder, !.epoch = task.epoch] \in CallState
    BY <1>1, <1>3 DEF CallState, Pc
  <2>2. call' \in [Call -> CallState]
    BY <1>1, <1>7, <2>1 DEF Adopt
  <2> QED
    BY <1>1, <1>7, <2>2 DEF Adopt, TypeOK
<1>8. CASE ResumeRead(c)
  <2>1. [call[c] EXCEPT !.pc = "resuming", !.seen = ckpt.revision] \in CallState
    BY <1>1, <1>3 DEF CallState, Pc
  <2>2. call' \in [Call -> CallState]
    BY <1>1, <1>8, <2>1 DEF ResumeRead
  <2> QED
    BY <1>1, <1>8, <2>2 DEF ResumeRead, TypeOK
<1>9. CASE ClaimResume(c)
  <2>1. [call[c] EXCEPT !.pc = "dispatch", !.fenced = TRUE, !.resumed = TRUE,
                        !.token = c, !.epoch = task.epoch + 1] \in CallState
    BY <1>1, <1>3 DEF CallState, Pc
  <2>2. [call EXCEPT ![c].pc = "dispatch", ![c].fenced = TRUE, ![c].resumed = TRUE,
                     ![c].token = c, ![c].epoch = task.epoch + 1]
            \in [Call -> CallState]
    BY <1>1, <2>1
  <2>3. [ckpt EXCEPT !.holder = c, !.live = TRUE] \in Checkpoint
    BY <1>1 DEF Checkpoint
  <2> QED
    BY <1>1, <1>0, <1>4, <1>5, <1>9, <2>2, <2>3 DEF ClaimResume, TypeOK, Pc
<1>10. CASE ClaimOrphan(c)
  <2>1. [call[c] EXCEPT !.pc = "planStart", !.fenced = TRUE,
                        !.token = c, !.epoch = task.epoch + 1] \in CallState
    BY <1>1, <1>3 DEF CallState, Pc
  <2>2. call' \in [Call -> CallState]
    BY <1>1, <1>10, <2>1 DEF ClaimOrphan
  <2> QED
    BY <1>1, <1>4, <1>5, <1>10, <2>2 DEF ClaimOrphan, TypeOK
<1> QED
  BY <1>6, <1>7, <1>8, <1>9, <1>10

\* Steps that only move a call, and its return.
LEMMA MoveType ==
    ASSUME TypeOK, NEW c \in Call,
           \/ RunRead(c) \/ RunUnclaimed(c) \/ Dispatch(c) \/ Abort(c)
           \/ Release(c) \/ Crash(c) \/ UseTool(c)
    PROVE  TypeOK'
<1>1. /\ task \in Task /\ attempts \in Seq(AttemptStatus) /\ ckpt \in Checkpoint
      /\ tools \in {"none", "otherPlan", "thisPlan"}
      /\ call \in [Call -> CallState] /\ call[c] \in CallState
  BY DEF TypeOK
<1>2. \A pc \in Pc : Goto(c, pc) => call' \in [Call -> CallState]
  BY CallType DEF Goto
<1>0. \A pc \in Pc : End(c, pc) => call' \in [Call -> CallState]
  BY CallType DEF End
<1>3. CASE RunRead(c) \/ RunUnclaimed(c) \/ Abort(c) \/ Crash(c)
  <2>1. call' \in [Call -> CallState]
    BY <1>2, <1>0, <1>3 DEF RunRead, RunUnclaimed, Abort, Crash, Pc
  <2> QED
    BY <1>1, <1>3, <2>1 DEF RunRead, RunUnclaimed, Abort, Crash, TypeOK
<1>4. CASE Dispatch(c)
  <2>1. [task EXCEPT !.status = "waiting"] \in Task
    BY <1>1 DEF Task, Status
  <2>2. task' \in Task
    BY <1>1, <1>4, <2>1 DEF Dispatch
  <2>3. Target # "stay" => Target \in Pc
    BY TargetSteps DEF Pc
  <2>4. ASSUME Target # "stay"
        PROVE  [call EXCEPT ![c].pc = Target, ![c].progress = ckpt.progress]
                    \in [Call -> CallState]
    <3>1. Target \in Pc /\ ckpt.progress \in Progress
      BY <1>1, <2>3, <2>4 DEF Checkpoint
    <3>2. [call[c] EXCEPT !.pc = Target, !.progress = ckpt.progress] \in CallState
      BY <1>1, <3>1 DEF CallState
    <3> QED
      BY <1>1, <3>2
  <2>5. call' \in [Call -> CallState]
    BY <1>2, <1>4, <2>4 DEF Dispatch, Pc
  <2> QED
    BY <1>1, <1>4, <2>2, <2>5 DEF Dispatch, TypeOK
<1>5. CASE Release(c)
  <2>1. [task EXCEPT !.holder = None, !.live = FALSE] \in Task
    BY <1>1 DEF Task
  <2>2. [ckpt EXCEPT !.holder = None, !.live = FALSE] \in Checkpoint
    BY <1>1 DEF Checkpoint
  <2> QED
    BY <1>1, <1>0, <1>5, <2>1, <2>2 DEF Release, TypeOK, Pc
<1>6. CASE UseTool(c)
  BY <1>1, <1>6 DEF UseTool, TypeOK
<1> QED
  BY <1>3, <1>4, <1>5, <1>6

\* Steps that start a stage.
LEMMA StartType ==
    ASSUME TypeOK, NEW c \in Call, Start(c) \/ Execute(c)
    PROVE  TypeOK'
<1>1. /\ task \in Task /\ attempts \in Seq(AttemptStatus) /\ ckpt \in Checkpoint
      /\ tools \in {"none", "otherPlan", "thisPlan"}
      /\ call \in [Call -> CallState] /\ call[c] \in CallState
  BY DEF TypeOK
<1>2. CASE Start(c)
  <2> DEFINE stage == StageOf[call[c].pc]
  <2>1. stage \in {"planning", "executing", "validating"}
    BY <1>2 DEF Start, StageOf
  <2>2. task' \in Task
    BY <1>1, <1>2, <2>1 DEF Start, Task, Status
  <2>3. Len(attempts) + 1 \in Nat
    BY <1>1, LenProperties
  <2>4. [call[c] EXCEPT !.pc = stage, !.attempt = Len(attempts) + 1] \in CallState
    <3> HIDE DEF stage
    <3> QED
      BY <1>1, <2>1, <2>3 DEF CallState, Pc
  <2>5. call' = [call EXCEPT ![c].pc = stage, ![c].attempt = Len(attempts) + 1]
    BY <1>2 DEF Start
  <2>6. call' \in [Call -> CallState]
    <3> HIDE DEF stage
    <3> QED
      BY <1>1, <2>4, <2>5
  <2>7. attempts' \in Seq(AttemptStatus)
    BY <1>1, <1>2, AppendProperties DEF Start, AttemptStatus
  <2> QED
    BY <1>1, <1>2, <2>2, <2>6, <2>7 DEF Start, TypeOK
<1>3. CASE Execute(c)
  <2>1. task' \in Task
    BY <1>1, <1>3 DEF Execute, Task, Status
  <2>2. call' \in [Call -> CallState]
    BY <1>3, CallType DEF Execute, Goto, Pc
  <2> QED
    BY <1>1, <1>3, <2>1, <2>2 DEF Execute, TypeOK
<1> QED
  BY <1>2, <1>3

\* The outcomes of a stage.
LEMMA OutcomeType ==
    ASSUME TypeOK, NEW c \in Call, Plan(c) \/ Executed(c) \/ Validated(c)
    PROVE  TypeOK'
<1>1. /\ task \in Task /\ attempts \in Seq(AttemptStatus) /\ ckpt \in Checkpoint
      /\ tools \in {"none", "otherPlan", "thisPlan"}
      /\ call \in [Call -> CallState] /\ call[c] \in CallState
  BY DEF TypeOK
<1> DEFINE Kept == /\ attempts' \in Seq(AttemptStatus)
                   /\ task' \in Task
                   /\ ckpt' \in Checkpoint
                   /\ call' \in [Call -> CallState]
<1>2. ASSUME IsRunning(call[c].attempt),
             NEW st \in AttemptStatus, NEW status \in Status, Finish(c, st, status)
      PROVE  Kept
  BY <1>2, DecisionType
<1>3. ASSUME NEW next \in {"none", "retry", "replan", "validate"},
             NEW planned \in BOOLEAN, NEW executed \in BOOLEAN,
             Ask(c, next, planned, executed)
      PROVE  Kept
  <2>1. PICK reason \in Reasons \cap {"human", "review"} :
              CanAsk(c) /\ Park(c, reason, next, planned, executed)
    BY <1>3 DEF Ask
  <2>2. reason \in AllReasons /\ IsRunning(call[c].attempt)
    BY <2>1, SwitchesAssumption DEF CanAsk
  <2> QED
    BY <1>3, <2>1, <2>2, DecisionType
<1>4. ASSUME Wait(c)
      PROVE  Kept
  <2>1. PICK reason \in Reasons \cap {"auto", "approval", "blocked"} :
              CanCommit(c) /\ Park(c, reason, "none", TRUE, TRUE)
    BY <1>4 DEF Wait
  <2>2. reason \in AllReasons /\ IsRunning(call[c].attempt)
    BY <2>1, SwitchesAssumption DEF CanCommit
  <2> QED
    BY <2>1, <2>2, DecisionType
<1>5. ASSUME IsRunning(call[c].attempt), NEW action \in {"retry_execution", "replan"},
             Redo(c, action)
      PROVE  Kept
  BY <1>5, DecisionType
<1>6. CASE Plan(c)
  <2>1. CASE PlanAccepted(c)
    <3>1. ckpt' = Saved("validate", call[c].attempt, NoWait, TRUE, FALSE,
                        call[c].progress)
      BY <2>1 DEF PlanAccepted
    <3>2. call[c].attempt \in Nat /\ call[c].progress \in Progress
      BY <1>1 DEF CallState
    <3>3. ckpt' \in Checkpoint
      BY <3>1, <3>2, SavedType DEF NoWait
    <3>4. call' \in [Call -> CallState]
      BY <2>1, CallType DEF PlanAccepted, Goto, Pc
    <3>5. tools' \in {"none", "otherPlan", "thisPlan"}
      BY <2>1 DEF PlanAccepted
    <3> QED
      BY <1>1, <2>1, <3>3, <3>4, <3>5 DEF PlanAccepted, TypeOK
  <2>2. CASE CanCommit(c) /\ Finish(c, "failed", "failed") /\ UNCHANGED tools
    <3>1. Kept
      BY <1>2, <2>2 DEF CanCommit, AttemptStatus, Status
    <3> QED
      BY <1>1, <2>2, <3>1 DEF TypeOK
  <2>3. CASE /\ \E planned, executed \in BOOLEAN,
                    next \in {"retry", "replan", "validate"} :
                    /\ next = "validate" => planned /\ executed
                    /\ Ask(c, next, planned, executed)
             /\ UNCHANGED tools
    <3>1. Kept
      BY <1>3, <2>3
    <3> QED
      BY <1>1, <2>3, <3>1 DEF TypeOK
  <2> QED
    BY <1>6, <2>1, <2>2, <2>3 DEF Plan
<1>7. ASSUME CanCommit(c),
             \/ Finish(c, "failed", "failed")
             \/ Finish(c, "completed", "done")
             \/ Redo(c, "retry_execution")
             \/ Redo(c, "replan")
      PROVE  Kept
  BY <1>2, <1>5, <1>7 DEF CanCommit, AttemptStatus, Status
<1>8. ASSUME task' = [task EXCEPT !.status = "validating"],
             ckpt' = Saved("validate", call[c].attempt, NoWait, TRUE, TRUE,
                           call[c].progress),
             Goto(c, "validating"),
             UNCHANGED attempts
      PROVE  Kept
  <2>1. call[c].attempt \in Nat /\ call[c].progress \in Progress
    BY <1>1 DEF CallState
  <2>2. ckpt' \in Checkpoint
    BY <1>8, <2>1, SavedType DEF NoWait
  <2>3. task' \in Task
    BY <1>1, <1>8 DEF Task, Status
  <2>4. call' \in [Call -> CallState]
    BY <1>8, CallType DEF Goto, Pc
  <2> QED
    BY <1>1, <1>8, <2>2, <2>3, <2>4
<1>9. CASE Executed(c)
  <2>1. Kept
    <3> HIDE DEF Kept
    <3> QED
      BY <1>3, <1>4, <1>7, <1>8, <1>9 DEF Executed
  <2>2. tools' = tools
    BY <1>9 DEF Executed
  <2> QED
    BY <1>1, <2>1, <2>2 DEF TypeOK
<1>10. CASE Validated(c)
  <2>1. Kept
    <3> HIDE DEF Kept
    <3> QED
      BY <1>3, <1>4, <1>7, <1>10 DEF Validated
  <2>2. tools' = tools
    BY <1>10 DEF Validated
  <2> QED
    BY <1>1, <2>1, <2>2 DEF TypeOK
<1> QED
  BY <1>6, <1>9, <1>10

\* What others do to the task.
LEMMA OthersType ==
    ASSUME TypeOK, Others
    PROVE  TypeOK'
<1>1. /\ task \in Task /\ attempts \in Seq(AttemptStatus) /\ ckpt \in Checkpoint
      /\ tools \in {"none", "otherPlan", "thisPlan"}
      /\ call \in [Call -> CallState]
  BY DEF TypeOK
<1>2. CASE ExpireClaim \/ SetApproval
  <2>1. task' \in Task
    BY <1>1, <1>2 DEF ExpireClaim, SetApproval, Task
  <2> QED
    BY <1>1, <1>2, <2>1 DEF ExpireClaim, SetApproval, TypeOK
<1>3. CASE ExpireLease \/ Resolve \/ Withdraw
  <2>1. ckpt' \in Checkpoint
    BY <1>1, <1>3 DEF ExpireLease, Resolve, Withdraw, Checkpoint
  <2> QED
    BY <1>1, <1>3, <2>1 DEF ExpireLease, Resolve, Withdraw, TypeOK
<1>4. CASE Cancel
  <2>1. CloseAll("cancelled") \in Seq(AttemptStatus)
    BY <1>1, ClosedLog DEF AttemptStatus
  <2>2. Invalidated \in Checkpoint
    BY <1>1 DEF Invalidated, Checkpoint
  <2>3. task.epoch + 1 \in Nat
    BY <1>1 DEF Task
  <2>4. [task EXCEPT !.status = "cancelled", !.holder = None,
                     !.live = FALSE, !.epoch = @ + 1] \in Task
    BY <1>1, <2>3 DEF Task, Status
  <2> QED
    BY <1>1, <1>4, <2>1, <2>2, <2>4 DEF Cancel, TypeOK
<1>5. CASE Answer
  <2>1. PICK next \in {ckpt.next} \cup
                     (IF ckpt.reason = "review" THEN {"replan"} ELSE {}) :
              ckpt' = [ckpt EXCEPT !.resolved = TRUE, !.next = next]
    BY <1>5 DEF Answer
  <2>2. next \in {"none", "retry", "replan", "validate"}
    BY <1>1, <2>1 DEF Checkpoint
  <2>3. ckpt' \in Checkpoint
    BY <1>1, <2>1, <2>2 DEF Checkpoint
  <2> QED
    BY <1>1, <1>5, <2>3 DEF Answer, TypeOK
<1> QED
  BY <1>2, <1>3, <1>4, <1>5 DEF Others

LEMMA TypeInit == Init => TypeOK
<1> SUFFICES ASSUME Init PROVE TypeOK
  OBVIOUS
<1>1. task \in Task
  BY DEF Init, Task, Status
<1>2. NoProgress \in Progress
  BY DEF NoProgress, Progress
<1>3. ckpt \in Checkpoint
  BY <1>2 DEF Init, NoCheckpoint, Checkpoint
<1>4. IdleCall \in CallState
  BY <1>2 DEF IdleCall, CallState, Pc
<1>5. call \in [Call -> CallState]
  BY <1>4 DEF Init
<1>6. attempts \in Seq(AttemptStatus)
  BY DEF Init
<1> QED
  BY <1>1, <1>3, <1>5, <1>6 DEF Init, TypeOK

LEMMA TypeStep ==
    ASSUME TypeOK, [Next]_vars
    PROVE  TypeOK'
<1>1. CASE \E c \in Call : Enter(c) \/ Work(c) \/ UseTool(c) \/ Crash(c)
  <2>1. PICK c \in Call : Enter(c) \/ Work(c) \/ UseTool(c) \/ Crash(c)
    BY <1>1
  <2>2. CASE Claim(c) \/ Adopt(c) \/ ResumeRead(c) \/ ClaimResume(c) \/ ClaimOrphan(c)
    BY <2>2, ClaimType
  <2>3. CASE \/ RunRead(c) \/ RunUnclaimed(c) \/ Dispatch(c) \/ Abort(c)
             \/ Release(c) \/ Crash(c) \/ UseTool(c)
    BY <2>3, MoveType
  <2>4. CASE Start(c) \/ Execute(c)
    BY <2>4, StartType
  <2>5. CASE Plan(c) \/ Executed(c) \/ Validated(c)
    BY <2>5, OutcomeType
  <2> QED
    BY <2>1, <2>2, <2>3, <2>4, <2>5 DEF Enter, Work
<1>2. CASE Others
  BY <1>2, OthersType
<1>3. CASE UNCHANGED vars
  BY <1>3 DEF vars, TypeOK
<1> QED
  BY <1>1, <1>2, <1>3 DEF Next

\* Every row and every call keeps its shape, however many calls there are and
\* whatever the limits.
THEOREM TypeCorrect == Spec => []TypeOK
<1>1. Init => TypeOK
  BY TypeInit
<1>2. TypeOK /\ [Next]_vars => TypeOK'
  BY TypeStep
<1> QED
  BY <1>1, <1>2, PTL DEF Spec

----------------------------------------------------------------------------
(* One running attempt, and nothing left over when the task ends            *)

\* The only ways in which a step changes the attempt log: a stage opens an
\* attempt when none runs, a takeover or a cancellation closes all, a decision
\* closes the running one it belongs to.
Opened == ~Running /\ attempts' = Append(attempts, "running")

AllClosed == \E st \in AttemptStatus \ {"running"} : attempts' = CloseAll(st)

OneClosed ==
    \E i \in Nat, st \in AttemptStatus \ {"running"} :
        IsRunning(i) /\ attempts' = [attempts EXCEPT ![i] = st]

LogStep == attempts' = attempts \/ Opened \/ AllClosed \/ OneClosed

LEMMA DecisionLog ==
    ASSUME TypeOK, NEW c \in Call, IsRunning(call[c].attempt)
    PROVE  /\ \A st \in AttemptStatus \ {"running"}, status \in Status :
                Finish(c, st, status) => OneClosed
           /\ \A reason, next, planned, executed :
                Park(c, reason, next, planned, executed) => OneClosed
           /\ \A action : Redo(c, action) => OneClosed
<1>1. call[c].attempt \in Nat
  BY DEF TypeOK, CallState
<1>2. "failed" \in AttemptStatus \ {"running"} /\ "waiting" \in AttemptStatus \ {"running"}
  BY DEF AttemptStatus
<1>3. \A st \in AttemptStatus \ {"running"}, status \in Status :
        Finish(c, st, status) => OneClosed
  BY <1>1 DEF Finish, OneClosed
<1>4. \A reason, next, planned, executed :
        Park(c, reason, next, planned, executed) => OneClosed
  BY <1>1, <1>2 DEF Park, OneClosed
<1>5. ASSUME NEW action, Redo(c, action)
      PROVE  attempts' = [attempts EXCEPT ![call[c].attempt] = "failed"]
  BY <1>5 DEF Redo, Finish
<1>6. \A action : Redo(c, action) => OneClosed
  BY <1>1, <1>2, <1>5 DEF OneClosed
<1> QED
  BY <1>3, <1>4, <1>6

LEMMA LogChanges ==
    ASSUME TypeOK, [Next]_vars
    PROVE  LogStep
<1> USE DEF LogStep
<1>1. CASE \E c \in Call : Enter(c) \/ Work(c) \/ UseTool(c) \/ Crash(c)
  <2>1. PICK c \in Call : Enter(c) \/ Work(c) \/ UseTool(c) \/ Crash(c)
    BY <1>1
  <2>2. "failed" \in AttemptStatus \ {"running"}
    BY DEF AttemptStatus
  <2>3. CASE ClaimResume(c) \/ ClaimOrphan(c)
    BY <2>2, <2>3 DEF ClaimResume, ClaimOrphan, AllClosed
  <2>4. CASE Start(c)
    BY <2>4 DEF Start, CanStart, CanRecordAttempt, Opened
  <2>5. CASE Plan(c) \/ Executed(c) \/ Validated(c)
    <3>1. ASSUME NEW next, NEW planned, NEW executed, Ask(c, next, planned, executed)
          PROVE  OneClosed
      BY <3>1, DecisionLog DEF Ask, CanAsk
    <3>2. ASSUME Wait(c)
          PROVE  OneClosed
      BY <3>2, DecisionLog DEF Wait, CanCommit
    <3>3. ASSUME CanCommit(c),
                 \/ Finish(c, "failed", "failed")
                 \/ Finish(c, "completed", "done")
                 \/ Redo(c, "retry_execution")
                 \/ Redo(c, "replan")
          PROVE  OneClosed
      BY <3>3, DecisionLog DEF CanCommit, AttemptStatus, Status
    <3>4. CASE Plan(c)
      BY <3>1, <3>3, <3>4 DEF Plan, PlanAccepted
    <3>5. CASE Executed(c)
      BY <3>1, <3>2, <3>3, <3>5 DEF Executed
    <3>6. CASE Validated(c)
      BY <3>1, <3>2, <3>3, <3>6 DEF Validated
    <3> QED
      BY <2>5, <3>4, <3>5, <3>6
  <2>6. CASE \/ RunRead(c) \/ RunUnclaimed(c) \/ ResumeRead(c) \/ Claim(c)
             \/ Adopt(c) \/ Dispatch(c) \/ Execute(c) \/ Abort(c) \/ Release(c)
             \/ UseTool(c) \/ Crash(c)
    BY <2>6 DEF RunRead, RunUnclaimed, ResumeRead, Claim, Adopt, Dispatch,
                Execute, Abort, Release, UseTool, Crash
  <2> QED
    BY <2>1, <2>3, <2>4, <2>5, <2>6 DEF Enter, Work
<1>2. CASE Others
  <2>1. CASE Cancel
    BY <2>1 DEF Cancel, AllClosed, AttemptStatus
  <2>2. CASE ~Cancel
    BY <1>2, <2>2 DEF Others, ExpireClaim, ExpireLease, SetApproval, Resolve,
                      Withdraw, Answer
  <2> QED
    BY <2>1, <2>2
<1>3. CASE UNCHANGED vars
  BY <1>3 DEF vars
<1> QED
  BY <1>1, <1>2, <1>3 DEF Next

\* Closing leaves no attempt running.
LEMMA ClosedMeansIdle ==
    ASSUME TypeOK, OneRunningAttempt, AllClosed \/ OneClosed
    PROVE  ~Running'
<1>1. attempts \in Seq(AttemptStatus)
  BY DEF TypeOK
<1>2. CASE AllClosed
  BY <1>1, <1>2, ClosedLog DEF AllClosed, Running
<1>3. CASE OneClosed
  <2>1. PICK i \in Nat, st \in AttemptStatus \ {"running"} :
              IsRunning(i) /\ attempts' = [attempts EXCEPT ![i] = st]
    BY <1>3 DEF OneClosed
  <2>2. DOMAIN attempts' = DOMAIN attempts
    BY <2>1
  <2>3. \A j \in DOMAIN attempts : j # i => attempts[j] # "running"
    BY <2>1 DEF OneRunningAttempt, IsRunning
  <2>4. \A j \in DOMAIN attempts : attempts'[j] # "running"
    BY <2>1, <2>3
  <2> QED
    BY <2>2, <2>4 DEF Running
<1> QED
  BY <1>2, <1>3

LEMMA OneRunningStep ==
    ASSUME TypeOK, OneRunningAttempt, [Next]_vars
    PROVE  OneRunningAttempt'
<1>1. attempts \in Seq(AttemptStatus)
  BY DEF TypeOK
<1>2. CASE attempts' = attempts
  BY <1>2 DEF OneRunningAttempt
<1>3. CASE Opened
  <2>1. /\ DOMAIN attempts = 1 .. Len(attempts)
        /\ DOMAIN attempts' = 1 .. (Len(attempts) + 1)
        /\ Len(attempts) \in Nat
        /\ \A i \in 1 .. Len(attempts) : attempts'[i] = attempts[i]
    BY <1>1, <1>3, AppendProperties, LenProperties DEF Opened, AttemptStatus
  <2>2. \A i \in 1 .. Len(attempts) : attempts'[i] # "running"
    BY <1>3, <2>1 DEF Opened, Running
  <2>3. \A i \in DOMAIN attempts' :
          attempts'[i] = "running" => i = Len(attempts) + 1
    BY <2>1, <2>2
  <2> QED
    BY <2>3 DEF OneRunningAttempt
<1>4. CASE AllClosed \/ OneClosed
  BY <1>4, ClosedMeansIdle DEF OneRunningAttempt, Running
<1> QED
  BY <1>2, <1>3, <1>4, LogChanges DEF LogStep

\* A task never has two running attempts, whatever the calls do to one another.
THEOREM OneAttemptAtATime == Spec => []OneRunningAttempt
<1>1. Init => TypeOK /\ OneRunningAttempt
  BY TypeInit DEF Init, OneRunningAttempt
<1>2. TypeOK /\ OneRunningAttempt /\ [Next]_vars => TypeOK' /\ OneRunningAttempt'
  BY TypeStep, OneRunningStep
<1> QED
  BY <1>1, <1>2, PTL DEF Spec

\* Steps that leave an ended task as it is, as far as TerminalClean looks.
LEMMA Untouched ==
    ASSUME TerminalClean, attempts' = attempts,
           task'.status \in Terminal => task.status \in Terminal,
           ckpt'.active => ckpt.active
    PROVE  TerminalClean'
BY DEF TerminalClean, Running

\* The decisions of a stage end the task cleanly or leave it open.
LEMMA DecisionClean ==
    ASSUME TypeOK, OneRunningAttempt, NEW c \in Call, IsRunning(call[c].attempt),
           task.status \in Active
    PROVE  /\ \A st \in AttemptStatus \ {"running"}, status \in Status :
                Finish(c, st, status) => TerminalClean'
           /\ \A reason, next, planned, executed :
                Park(c, reason, next, planned, executed) => TerminalClean'
           /\ \A action : Redo(c, action) => TerminalClean'
<1>1. \A st \in AttemptStatus \ {"running"}, status \in Status :
        Finish(c, st, status) => TerminalClean'
  <2>1. TAKE st \in AttemptStatus \ {"running"}, status \in Status
  <2>2. HAVE Finish(c, st, status)
  <2>3. ~Running'
    BY <2>2, DecisionLog, ClosedMeansIdle
  <2>4. ~ckpt'.active
    BY <2>2 DEF Finish, Invalidated, TypeOK, Checkpoint
  <2> QED
    BY <2>3, <2>4 DEF TerminalClean
<1>2. \A reason, next, planned, executed :
        Park(c, reason, next, planned, executed) => TerminalClean'
  BY DEF Park, TerminalClean, Terminal, TypeOK, Task
<1>3. ASSUME NEW action, Redo(c, action)
      PROVE  TerminalClean'
  <2>1. CASE Exhausted(Spent(call[c].progress, action))
    BY <1>1, <1>3, <2>1 DEF Redo, AttemptStatus, Status
  <2>2. CASE ~Exhausted(Spent(call[c].progress, action))
    BY <1>3, <2>2 DEF Redo, TerminalClean, Terminal, Active
  <2> QED
    BY <2>1, <2>2
<1> QED
  BY <1>1, <1>2, <1>3

LEMMA TerminalCleanStep ==
    ASSUME TypeOK, OneRunningAttempt, TerminalClean, [Next]_vars
    PROVE  TerminalClean'
<1>0. task \in Task /\ ckpt \in Checkpoint
  BY DEF TypeOK
<1>1. CASE \E c \in Call : Enter(c) \/ Work(c) \/ UseTool(c) \/ Crash(c)
  <2>1. PICK c \in Call : Enter(c) \/ Work(c) \/ UseTool(c) \/ Crash(c)
    BY <1>1
  <2>2. CASE \/ RunRead(c) \/ RunUnclaimed(c) \/ ResumeRead(c) \/ Adopt(c)
             \/ Abort(c) \/ Crash(c) \/ UseTool(c)
    BY <2>2, Untouched DEF RunRead, RunUnclaimed, ResumeRead, Adopt, Abort, Crash, UseTool
  <2>3. CASE Claim(c)
    <3>1. task'.status \in Terminal => task.status \in Terminal
      BY <1>0, <2>3 DEF Claim, Task, Terminal
    <3> QED
      BY <2>3, <3>1, Untouched DEF Claim
  <2>4. CASE Release(c)
    <3>1. task'.status = task.status /\ ckpt'.active = ckpt.active
      BY <1>0, <2>4 DEF Release, Task, Checkpoint
    <3> QED
      BY <2>4, <3>1, Untouched DEF Release
  <2>5. CASE ClaimResume(c)
    <3>1. task'.status = task.status /\ ckpt'.active = ckpt.active
      BY <1>0, <2>5 DEF ClaimResume, Task, Checkpoint
    <3>2. CASE task.status \in Terminal
      BY <2>5, <3>1, <3>2, Untouched DEF ClaimResume, Claimable, TerminalClean
    <3>3. CASE task.status \notin Terminal
      BY <3>1, <3>3 DEF TerminalClean
    <3> QED
      BY <3>2, <3>3
  <2>6. CASE ClaimOrphan(c)
    BY <1>0, <2>6 DEF ClaimOrphan, Orphaned, Task, Active, Terminal, TerminalClean
  <2>7. CASE Dispatch(c)
    <3>1. task'.status \in Terminal => task.status \in Terminal
      BY <1>0, <2>7 DEF Dispatch, Task, Terminal
    <3> QED
      BY <2>7, <3>1, Untouched DEF Dispatch
  <2>8. CASE Start(c)
    BY <1>0, <2>8 DEF Start, StageOf, Task, Terminal, TerminalClean
  <2>9. CASE Execute(c)
    BY <1>0, <2>9 DEF Execute, Task, Terminal, TerminalClean
  <2>10. CASE Plan(c) \/ Executed(c) \/ Validated(c)
    <3>1. call[c].pc \in Active
      BY <2>10 DEF Plan, Executed, Validated, Active
    <3>2. ASSUME NEW next, NEW planned, NEW executed, Ask(c, next, planned, executed)
          PROVE  TerminalClean'
      BY <3>2, DecisionClean DEF Ask, CanAsk
    <3>3. ASSUME Wait(c)
          PROVE  TerminalClean'
      BY <3>1, <3>3, DecisionClean DEF Wait, CanCommit
    <3>4. ASSUME CanCommit(c),
                 \/ Finish(c, "failed", "failed")
                 \/ Finish(c, "completed", "done")
                 \/ Redo(c, "retry_execution")
                 \/ Redo(c, "replan")
          PROVE  TerminalClean'
      BY <3>1, <3>4, DecisionClean DEF CanCommit, AttemptStatus, Status
    <3>5. ASSUME PlanAccepted(c)
          PROVE  TerminalClean'
      BY <3>1, <3>5 DEF PlanAccepted, CanCommit, TerminalClean, Active, Terminal
    <3>6. CASE Plan(c)
      BY <3>2, <3>4, <3>5, <3>6 DEF Plan
    <3>7. ASSUME task' = [task EXCEPT !.status = "validating"]
          PROVE  TerminalClean'
      BY <1>0, <3>7 DEF Task, Terminal, TerminalClean
    <3>8. CASE Executed(c)
      BY <3>2, <3>3, <3>4, <3>7, <3>8 DEF Executed
    <3>9. CASE Validated(c)
      BY <3>2, <3>3, <3>4, <3>9 DEF Validated
    <3> QED
      BY <2>10, <3>6, <3>8, <3>9
  <2> QED
    BY <2>1, <2>2, <2>3, <2>4, <2>5, <2>6, <2>7, <2>8, <2>9, <2>10 DEF Enter, Work
<1>2. CASE Others
  <2>1. CASE Cancel
    <3>1. ~Running'
      BY <2>1, ClosedMeansIdle DEF Cancel, AllClosed, AttemptStatus
    <3>2. ~ckpt'.active
      BY <1>0, <2>1 DEF Cancel, Invalidated, Checkpoint
    <3> QED
      BY <3>1, <3>2 DEF TerminalClean
  <2>2. CASE ~Cancel
    <3>1. task'.status = task.status /\ ckpt'.active = ckpt.active
      BY <1>0, <1>2, <2>2 DEF Others, ExpireClaim, ExpireLease, SetApproval,
                              Resolve, Withdraw, Answer, Task, Checkpoint
    <3>2. attempts' = attempts
      BY <1>2, <2>2 DEF Others, ExpireClaim, ExpireLease, SetApproval,
                        Resolve, Withdraw, Answer
    <3> QED
      BY <3>1, <3>2, Untouched
  <2> QED
    BY <2>1, <2>2
<1>3. CASE UNCHANGED vars
  BY <1>3, Untouched DEF vars
<1> QED
  BY <1>1, <1>2, <1>3 DEF Next

\* Whoever ends a task, and whoever was at work on it: no attempt stays running
\* and no checkpoint stays active.
THEOREM EndedTaskIsClean == Spec => []TerminalClean
<1>1. Init => TypeOK /\ OneRunningAttempt /\ TerminalClean
  BY TypeInit DEF Init, OneRunningAttempt, TerminalClean, Terminal
<1>2. TypeOK /\ OneRunningAttempt /\ TerminalClean /\ [Next]_vars
        => TypeOK' /\ OneRunningAttempt' /\ TerminalClean'
  BY TypeStep, OneRunningStep, TerminalCleanStep
<1> QED
  BY <1>1, <1>2, PTL DEF Spec

----------------------------------------------------------------------------
====
