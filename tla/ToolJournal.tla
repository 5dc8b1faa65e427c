---- MODULE ToolJournal ----
(***************************************************************************)
(* Executor.execute and the tool journal of one task: which steps of a plan *)
(* are called again, and what the harness does about a call whose outcome   *)
(* it does not know.  A tool call is the only thing that happens outside of *)
(* the database; no fence reaches it.  Claims are reduced to their owner: a *)
(* takeover by another worker may come whenever the task is under way (its  *)
(* lease may have run out), and refuses all later transactions of the old   *)
(* one.  Claim, plan and the move to executing are one action here; their   *)
(* interleavings are the subject of Engine.                                 *)
(***************************************************************************)
EXTENDS Integers

CONSTANTS
    Worker,         \* processes; each makes any number of calls
    None,           \* nobody, no journal row
    Plan,           \* plans (fingerprints) the planner may come up with
    Steps,          \* length of a plan; equal numbers are equal step ids
    Kind,           \* what a step does: [Plan -> [1 .. Steps -> kind]]
    MaxCycles,      \* max_cycles; retries and replans are not told apart
    MaxRefuted,     \* bound: verdicts "no_effect"
    RunWaiting,     \* run() may be called while the task waits
    LateCalls       \* a verdict may come while the call is still going on

Step == 1 .. Steps

\* "read" has no effect outside (_has_external_effect); "test" is test_runner.
\* Steps without a tool are left out.
Kinds == {"read", "effect", "test"}

ASSUME NoneAssumption == None \notin Worker \cup (Plan \X Step)
ASSUME LimitsAssumption ==
    Steps \in Nat \ {0} /\ MaxCycles \in Nat \ {0} /\ MaxRefuted \in Nat
ASSUME KindAssumption == Kind \in [Plan -> [Step -> Kinds]]
ASSUME SwitchesAssumption == RunWaiting \in BOOLEAN /\ LateCalls \in BOOLEAN

VARIABLES
    task,       \* status, owner of the claim, worker whose attempt is running
    ckpt,       \* the checkpoint
    journal,    \* task_tool_invocations.status per plan and step
    worker,     \* what each call knows and where it stands
    effects,    \* the world: how often the effect of a step took place
    refuted,    \* history: "no_effect" verdicts per plan and step
    performed   \* history: steps of a plan that succeeded at least once

vars == <<task, ckpt, journal, worker, effects, refuted, performed>>

Key == Plan \X Step

----------------------------------------------------------------------------
(* Data                                                                    *)

NoCheckpoint == [kind |-> "none", plan |-> None, completed |-> {},
                 reason |-> "none", row |-> None, resolved |-> FALSE, cycle |-> 0]

Idle == [pc |-> "idle", fenced |-> FALSE, plan |-> None, step |-> 0,
         known |-> {}, done |-> {}, row |-> None]

\* Fault: pending rows are those nobody resolved, and reserve keeps the old
\* resolution of a row it opens again.
OpenUnlessResolved(x) == journal[x] = "started" /\ refuted[x] = 0

Open(x) == journal[x] = "started"

Started == {x \in Key : Open(x)}

\* ToolInvocationStore.has_for_plan and has_for_task
HasRows(p) == \E i \in Step : journal[<<p, i>>] # "none"
NoRows == \A p \in Plan : ~HasRows(p)

Current(w) == <<worker[w].plan, worker[w].step>>

KindOf(w) == Kind[worker[w].plan][worker[w].step]

\* assert_owner; a worker without a claim has no fence.
Owner(w) == worker[w].fenced => task.owner = w

\* commit_decision
CanCommit(w, status) == Owner(w) /\ task.status = status /\ task.runner = w

Return(w) == worker' = [worker EXCEPT ![w] = Idle]

Goto(w, pc) == worker' = [worker EXCEPT ![w].pc = pc]

\* The step succeeded, with or without a call, and the loop goes on.
Pass(w) == worker' = [worker EXCEPT ![w].pc = "step", ![w].step = @ + 1,
                                    ![w].done = @ \cup {worker[w].step}]

\* Fault: the verdict is asked for the step at hand, not for the row found open.
DoubtHere(w, x) ==
    worker' = [worker EXCEPT ![w].pc = "uncertain", ![w].row = Current(w)]

\* The outcome of row x is not known: the call will ask for a verdict.
Doubt(w, x) == worker' = [worker EXCEPT ![w].pc = "uncertain", ![w].row = x]

Init ==
    /\ task = [status |-> "ready", owner |-> None, runner |-> None]
    /\ ckpt = NoCheckpoint
    /\ journal = [x \in Key |-> "none"]
    /\ worker = [w \in Worker |-> Idle]
    /\ effects = [x \in Key |-> 0]
    /\ refuted = [x \in Key |-> 0]
    /\ performed = {}

----------------------------------------------------------------------------
(* How an execution begins                                                 *)

\* The context of a cycle is built before the planner runs: known is what the
\* checkpoint of that moment lists as completed.
Enter(w, p, fenced) ==
    /\ task' = [status |-> "executing", runner |-> w,
                owner |-> IF fenced THEN w ELSE task.owner]
    /\ worker' = [worker EXCEPT ![w] =
            [Idle EXCEPT !.pc = "start", !.fenced = fenced, !.plan = p, !.step = 1,
                         !.known = ckpt.completed]]

\* A new plan is persisted before it is executed, with nothing completed.
BeginPlan(w, p, fenced) ==
    /\ Enter(w, p, fenced)
    /\ ckpt' = [NoCheckpoint EXCEPT !.kind = "plan", !.plan = p, !.cycle = ckpt.cycle]

\* The saved plan again.
BeginRetry(w) == Enter(w, ckpt.plan, TRUE) /\ UNCHANGED ckpt

World == <<effects, refuted, performed>>

Run(w, p) ==
    /\ worker[w].pc = "idle"
    /\ task.status = "ready"
    /\ BeginPlan(w, p, TRUE)
    /\ UNCHANGED <<journal, World>>

\* run() on a waiting task turns into resume() once the journal has a row.
RunUnclaimed(w, p) ==
    /\ RunWaiting
    /\ worker[w].pc = "idle"
    /\ task.status = "waiting"
    /\ NoRows
    /\ BeginPlan(w, p, FALSE)
    /\ UNCHANGED <<journal, World>>

\* should_continue of _resume_wait
WaitOver ==
    \/ ckpt.reason = "auto"
    \/ ckpt.reason = "blocked" /\ ckpt.resolved
    \/ ckpt.reason = "unknown" /\ journal[ckpt.row] \in {"completed", "no_effect"}

Wake(w) ==
    /\ worker[w].pc = "idle"
    /\ task.status = "waiting"
    /\ WaitOver
    /\ BeginRetry(w)
    /\ UNCHANGED <<journal, World>>

\* resume() of a task whose worker is lost, or only believed to be: the kind of
\* the checkpoint decides.  A persisted plan is replaced unless the journal has
\* rows for it.
Takeover(w) ==
    /\ worker[w].pc = "idle"
    /\ task.status = "executing"
    /\ \/ ckpt.kind = "plan" /\ ~HasRows(ckpt.plan) /\ \E p \in Plan : BeginPlan(w, p, TRUE)
       \/ ckpt.kind = "plan" /\ HasRows(ckpt.plan) /\ BeginRetry(w)
       \/ ckpt.kind = "retry" /\ BeginRetry(w)
       \/ ckpt.kind = "replan" /\ \E p \in Plan : BeginPlan(w, p, TRUE)
       \/ ckpt.kind = "wait" /\ WaitOver /\ BeginRetry(w)
       \/ /\ ckpt.kind = "wait" /\ ~WaitOver
          /\ task' = [status |-> "waiting", owner |-> None, runner |-> None]
          /\ UNCHANGED <<ckpt, worker>>
    /\ UNCHANGED <<journal, World>>

----------------------------------------------------------------------------
(* The step loop                                                           *)

\* pending_for_task
CheckPending(w) ==
    /\ worker[w].pc = "start"
    /\ \/ \E x \in Started : Doubt(w, x)
       \/ Started = {} /\ Goto(w, "step")
    /\ UNCHANGED <<task, ckpt, journal, World>>

AtStep(w) == worker[w].pc = "step" /\ worker[w].step \in Step

Skip(w) ==
    /\ AtStep(w)
    /\ worker[w].step \in worker[w].known
    /\ Pass(w)
    /\ UNCHANGED <<task, ckpt, journal, World>>

Read(w) ==
    /\ AtStep(w)
    /\ worker[w].step \notin worker[w].known
    /\ KindOf(w) = "read"
    /\ Owner(w)
    /\ Pass(w)
    /\ performed' = performed \cup {Current(w)}
    /\ UNCHANGED <<task, ckpt, journal, effects, refuted>>

\* Fault: only the row of the step itself is looked at.
ReservableAlone(x) == journal[x] # "completed" /\ ~Open(x)

\* What reserve lets through: a row that is new or refuted, while no row of the
\* task is open.
Reservable(x) == journal[x] # "completed" /\ ~Open(x) /\ Started = {}

\* ToolInvocationStore.reserve within begin_tool_invocation
Reserve(w) ==
    LET x == Current(w)
    IN  /\ AtStep(w)
        /\ worker[w].step \notin worker[w].known
        /\ KindOf(w) # "read"
        /\ Owner(w)
        /\ task.status = "executing"
        /\ \/ /\ journal[x] = "completed"
              /\ Pass(w)
              /\ UNCHANGED journal
           \/ /\ Reservable(x)
              /\ journal' = [journal EXCEPT ![x] = "started"]
              /\ Goto(w, "calling")
           \/ /\ journal[x] # "completed" /\ ~Reservable(x)
              /\ \E y \in Started : (Open(x) => y = x) /\ Doubt(w, y)
              /\ UNCHANGED journal
        /\ UNCHANGED <<task, ckpt, World>>

\* The tool runs, fenced by nothing.  An error says nothing about the effect.
Call(w) ==
    /\ worker[w].pc = "calling"
    /\ \/ /\ effects' = [effects EXCEPT ![Current(w)] = @ + 1]
          /\ \/ Goto(w, "returned")
             \/ Doubt(w, Current(w))
             \/ KindOf(w) = "test" /\ Goto(w, "failed")
       \/ Doubt(w, Current(w)) /\ UNCHANGED effects
    /\ UNCHANGED <<task, ckpt, journal, refuted, performed>>

\* complete_tool_invocation changes a row that is open; when it cannot, or the
\* write fails, the effect is left uncertain.
Complete(w) ==
    /\ worker[w].pc = "returned"
    /\ Owner(w)
    /\ \/ /\ Open(Current(w))
          /\ journal' = [journal EXCEPT ![Current(w)] = "completed"]
          /\ performed' = performed \cup {Current(w)}
          /\ Pass(w)
       \/ /\ Doubt(w, Current(w))
          /\ UNCHANGED <<journal, performed>>
    /\ UNCHANGED <<task, ckpt, effects, refuted>>

----------------------------------------------------------------------------
(* Decisions                                                               *)

Exhausted == ckpt.cycle + 1 >= MaxCycles

Ended == task' = [status |-> "ended", owner |-> None, runner |-> None]

\* The checkpoint of a wait names the steps that need no call any more.
Park(w, completed, reason, row) ==
    /\ task' = [status |-> "waiting", owner |-> None, runner |-> None]
    /\ ckpt' = [kind |-> "wait", plan |-> worker[w].plan, completed |-> completed,
                reason |-> reason, row |-> row, resolved |-> FALSE,
                cycle |-> ckpt.cycle]
    /\ Return(w)

\* Fault: the checkpoint of a replan keeps the steps of the old plan.
KeptAlways(w, kind) == worker[w].done

\* _execution_checkpoint: only a wait or a retry keeps what was completed.
Kept(w, kind) == IF kind = "retry" THEN worker[w].done ELSE {}

\* The same call goes on with the next cycle, unless the budget is spent.
Again(w, kind, completed) ==
    \/ Exhausted /\ Ended /\ Return(w) /\ UNCHANGED ckpt
    \/ /\ ~Exhausted
       /\ ckpt' = [NoCheckpoint EXCEPT !.kind = kind, !.plan = worker[w].plan,
                        !.completed = completed, !.cycle = ckpt.cycle + 1]
       /\ task' = [task EXCEPT !.status = "executing"]
       /\ IF kind = "retry"
          THEN worker' = [worker EXCEPT ![w].pc = "start", ![w].step = 1,
                                        ![w].known = completed, ![w].done = {},
                                        ![w].row = None]
          ELSE Goto(w, "replan")

\* The planner of the next cycle answers.
Replan(w, p) ==
    /\ worker[w].pc = "replan"
    /\ CanCommit(w, "executing")
    /\ BeginPlan(w, p, worker[w].fenced)
    /\ UNCHANGED <<journal, World>>

\* The tool is not authorized, or a call without a journal row failed; an error
\* that is no ToolError ends the task (_handle_stage_exception).
Refuse(w) ==
    /\ AtStep(w)
    /\ worker[w].step \notin worker[w].known
    /\ CanCommit(w, "executing")
    /\ \/ Park(w, worker[w].done, "blocked", None)
       \/ Ended /\ Return(w) /\ UNCHANGED ckpt
       \/ \E kind \in {"retry", "replan"} : Again(w, kind, Kept(w, kind))
    /\ UNCHANGED <<journal, World>>

\* A failed test command asks for a retry; its row stays as it is.
FailedTest(w) ==
    /\ worker[w].pc = "failed"
    /\ CanCommit(w, "executing")
    /\ Again(w, "retry", Kept(w, "retry"))
    /\ UNCHANGED <<journal, World>>

\* _uncertain_result
Uncertain(w) ==
    /\ worker[w].pc = "uncertain"
    /\ CanCommit(w, "executing")
    /\ Park(w, worker[w].done, "unknown", worker[w].row)
    /\ UNCHANGED <<journal, World>>

Executed(w) ==
    /\ worker[w].pc = "step" /\ worker[w].step = Steps + 1
    /\ CanCommit(w, "executing")
    /\ ckpt' = [NoCheckpoint EXCEPT !.kind = "validate", !.plan = worker[w].plan,
                                    !.cycle = ckpt.cycle]
    /\ task' = [task EXCEPT !.status = "validating"]
    /\ Goto(w, "validating")
    /\ UNCHANGED <<journal, World>>

\* _finish_validation; its checkpoints never list completed steps.
Validated(w) ==
    /\ worker[w].pc = "validating"
    /\ CanCommit(w, "validating")
    /\ \/ Ended /\ Return(w) /\ UNCHANGED ckpt
       \/ \E reason \in {"auto", "blocked"} : Park(w, {}, reason, None)
       \/ \E kind \in {"retry", "replan"} : Again(w, kind, {})
    /\ UNCHANGED <<journal, World>>

\* A transaction of a worker that lost the task raises, and the call ends.  (At
\* a step it is the decision after a refused tool, or the guard before it.)
Refused(w) ==
    \/ /\ \/ AtStep(w) /\ worker[w].step \notin worker[w].known
          \/ worker[w].pc \in {"failed", "uncertain", "replan"}
          \/ worker[w].pc = "step" /\ worker[w].step = Steps + 1
       /\ ~CanCommit(w, "executing")
    \/ worker[w].pc = "validating" /\ ~CanCommit(w, "validating")
    \/ worker[w].pc = "returned" /\ ~Owner(w)

Abort(w) ==
    /\ Refused(w)
    /\ Return(w)
    /\ UNCHANGED <<task, ckpt, journal, World>>

\* The process dies; a tool it started is dead with it.
Crash(w) ==
    /\ worker[w].pc # "idle"
    /\ Return(w)
    /\ UNCHANGED <<task, ckpt, journal, World>>

----------------------------------------------------------------------------
(* What others do                                                          *)

InCall(x) == \E w \in Worker : worker[w].pc = "calling" /\ Current(w) = x

AskedRow == ckpt.row

CanDecide ==
    /\ task.status = "waiting"
    /\ ckpt.reason = "unknown"
    /\ Open(AskedRow)
    /\ AskedRow[1] = ckpt.plan

\* Fault: the row only remembers that there was a verdict.
JudgeResolved(outcome) ==
    /\ journal' = [journal EXCEPT ![AskedRow] = "resolved"]
    /\ UNCHANGED <<task, ckpt, worker, effects>>

Judge(outcome) ==
    /\ journal' = [journal EXCEPT ![AskedRow] = outcome]
    /\ UNCHANGED <<task, ckpt, worker, effects>>

\* resolve_tool_invocation with the verdict of somebody who looked, or of the
\* readback of a written file.
Confirm ==
    /\ CanDecide
    /\ effects[AskedRow] > 0
    /\ Judge("completed")
    /\ performed' = performed \cup {AskedRow}
    /\ UNCHANGED refuted

Refute ==
    /\ CanDecide
    /\ effects[AskedRow] = 0
    /\ LateCalls \/ ~InCall(AskedRow)
    /\ refuted[AskedRow] < MaxRefuted
    /\ Judge("no_effect")
    /\ refuted' = [refuted EXCEPT ![AskedRow] = @ + 1]
    /\ UNCHANGED performed

\* An approval, or an answer to a question for outside information.
Unblock ==
    /\ task.status = "waiting"
    /\ ckpt.reason = "blocked" /\ ~ckpt.resolved
    /\ ckpt' = [ckpt EXCEPT !.resolved = TRUE]
    /\ UNCHANGED <<task, journal, worker, World>>

Cancel ==
    /\ task.status # "ended"
    /\ Ended
    /\ UNCHANGED <<ckpt, journal, worker, World>>

----------------------------------------------------------------------------

Work(w) ==
    \/ CheckPending(w) \/ Skip(w) \/ Read(w) \/ Reserve(w) \/ Call(w)
    \/ Complete(w) \/ Refuse(w) \/ FailedTest(w) \/ Uncertain(w)
    \/ Executed(w) \/ Validated(w) \/ Abort(w)
    \/ \E p \in Plan : Replan(w, p)

Begin(w) ==
    \/ \E p \in Plan : Run(w, p) \/ RunUnclaimed(w, p)
    \/ Wake(w) \/ Takeover(w)

Others == Confirm \/ Refute \/ Unblock \/ Cancel

Next == (\E w \in Worker : Begin(w) \/ Work(w) \/ Crash(w)) \/ Others

Spec == Init /\ [][Next]_vars

----------------------------------------------------------------------------
(* Properties                                                              *)

Task == [status : {"ready", "executing", "validating", "waiting", "ended"},
         owner : Worker \cup {None}, runner : Worker \cup {None}]

\* A checkpoint that is there has a plan, and a wait for an outcome a row.
Checkpoint ==
    { c \in [kind : {"none", "plan", "retry", "replan", "wait", "validate"},
            plan : Plan \cup {None}, completed : SUBSET Step,
            reason : {"none", "auto", "blocked", "unknown"}, row : Key \cup {None},
            resolved : BOOLEAN, cycle : Nat] :
        /\ c.kind # "none" \/ c.reason # "none" => c.plan \in Plan
        /\ c.reason = "unknown" => c.row \in Key }

Pc == {"idle", "start", "step", "calling", "returned", "failed", "uncertain",
       "replan", "validating"}

\* A worker that executes has a plan and stands at one of its steps or behind
\* the last; before a call it stands at a step.
WorkerState ==
    { s \in [pc : Pc, fenced : BOOLEAN, plan : Plan \cup {None}, step : Nat,
            known : SUBSET Step, done : SUBSET Step, row : Key \cup {None}] :
        /\ s.pc # "idle" => s.plan \in Plan /\ s.step \in 1 .. Steps + 1
        /\ s.pc \in {"calling", "returned", "failed"} => s.step \in Step
        /\ s.pc = "uncertain" => s.row \in Key }

\* Rows, calls and counters are of the shape the code expects.
TypeOK ==
    /\ task \in Task
    /\ ckpt \in Checkpoint
    /\ journal \in [Key -> {"none", "started", "completed", "no_effect"}]
    /\ worker \in [Worker -> WorkerState]
    /\ effects \in [Key -> Nat]
    /\ refuted \in [Key -> Nat]
    /\ performed \subseteq Key

\* A task never has two calls with an open outcome: reserve refuses a second
\* row while any row of the task is started, whoever asks.
OneOpenRow == \A x, y \in Started : x = y

\* No effect is repeated blindly: a step takes effect a second time only after
\* somebody looked and found none, even when calls of superseded workers land
\* late or unclaimed workers take part.
NoBlindRepeat == \A x \in Key : effects[x] <= 1 + refuted[x]

\* When verdicts are only given about calls that are over, a step of a plan
\* takes effect at most once, through crashes, takeovers, retries and replans.
EffectOnce == \A x \in Key : effects[x] <= 1

\* A wait for the outcome of a call can be ended: the call is settled, or it
\* belongs to the plan in the checkpoint, as resolve_tool_invocation demands of a
\* verdict.  It may be open for another plan only when run() works on waiting
\* tasks; then no verdict is accepted.
OutcomeDecidable ==
    task.status = "waiting" /\ ckpt.reason = "unknown" =>
        \/ CanDecide
        \/ WaitOver
        \/ RunWaiting /\ Open(ckpt.row) /\ ckpt.row[1] # ckpt.plan

\* Step i was read for some plan.
ReadBefore(i) == \E p \in Plan : Kind[p][i] = "read" /\ <<p, i>> \in performed

\* A plan goes to validation only when each of its steps succeeded as a step of
\* this plan; success of another plan's step with the same id does not count.
\* Only when run() works on waiting tasks can it count, and then only if it was a
\* step without an effect: the journal has no row yet when such a run begins.
ExecutedMeansPerformed ==
    ckpt.kind = "validate" =>
        \A i \in Step : <<ckpt.plan, i>> \in performed \/ (RunWaiting /\ ReadBefore(i))

====
