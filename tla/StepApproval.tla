---- MODULE StepApproval ----
(***************************************************************************)
(* Approvals of single steps: a step with an effect that an agent planned is *)
(* called only with a grant that a person gave for this step of this plan.    *)
(*                                                                           *)
(* A grant is bound to a wait of the task and lives as long as its           *)
(* checkpoint.  The loop of the executor, the journal and the claims are those of    *)
(* ToolJournal and Engine, reduced to what grants depend on: every step has  *)
(* an effect, the effect itself is left out, validation is its decision, and *)
(* run() is not called for a waiting task.                                   *)
(***************************************************************************)
EXTENDS Integers

CONSTANTS
    Worker,         \* processes
    None,           \* nobody, no journal row
    Plan,           \* plans (version and fingerprint)
    Steps,          \* length of a plan
    Needs,          \* steps that need a grant: [Plan -> SUBSET (1 .. Steps)]
    MaxCycles,      \* max_cycles; retries and replans are not told apart
    MaxWaits,       \* bound: waits of the task
    MaxFaults       \* bound: crashes and lost leases

Step == 1 .. Steps
Token == 1 .. MaxWaits
Key == Plan \X Step

ASSUME NoneAssumption == None \notin Worker \cup Key \cup Plan
ASSUME LimitsAssumption ==
    Steps \in Nat \ {0} /\ MaxCycles \in Nat \ {0} /\ MaxWaits \in Nat /\ MaxFaults \in Nat
ASSUME NeedsAssumption == Needs \in [Plan -> SUBSET Step]

VARIABLES
    task,       \* status, approval of the task, owner of the claim
    ckpt,       \* the checkpoint
    grant,      \* task_step_approvals per wait token
    waits,      \* wait tokens given out so far
    journal,    \* task_tool_invocations.status per plan and step
    worker,     \* where each call stands
    faults,
    used        \* history: calls that went through with a grant

vars == <<task, ckpt, grant, waits, journal, worker, faults, used>>

NoCheckpoint == [kind |-> "none", reason |-> "none", token |-> 0, plan |-> None,
                 completed |-> {}, row |-> None, cycle |-> 0]

Idle == [pc |-> "idle", plan |-> None, step |-> 0, known |-> {}, done |-> {},
         row |-> None, token |-> 0]

Init ==
    /\ task = [status |-> "ready", approved |-> TRUE, owner |-> None]
    /\ ckpt = NoCheckpoint
    /\ grant = [t \in Token |-> [status |-> "none", plan |-> None, step |-> 0]]
    /\ waits = 0
    /\ journal = [x \in Key |-> "none"]
    /\ worker = [w \in Worker |-> Idle]
    /\ faults = 0
    /\ used = [t \in Token |-> 0]

----------------------------------------------------------------------------
(* Grants                                                                  *)

Current(w) == <<worker[w].plan, worker[w].step>>

\* ApprovalStore.ready: the request was for this call, it was approved, and the
\* task still has the wait it was approved in.
Ready(t, p, i) ==
    /\ grant[t] = [status |-> "approved", plan |-> p, step |-> i]
    /\ task.approved
    /\ task.status # "ended"
    /\ ckpt.reason = "approval"
    /\ ckpt.token = t

\* The active request is about a step of this number, of whatever plan.
Asked(i) == ckpt.reason = "approval" /\ grant[ckpt.token].step = i

\* Fault: a wait for an approval that is over approves the rest of the plan.
AllowedAfter(p, i) ==
    /\ task.approved
    /\ \/ ckpt.reason = "approval" /\ Ready(ckpt.token, p, grant[ckpt.token].step)
       \/ i \notin Needs[p]

\* _approval_allowed
Allowed(p, i) ==
    /\ task.approved
    /\ \/ Asked(i) /\ Ready(ckpt.token, p, i)
       \/ ~Asked(i) /\ i \notin Needs[p]

\* decide_approval
Decidable(t) ==
    /\ task.status # "ended"
    /\ ckpt.reason = "approval"
    /\ ckpt.token = t

Settle(t, status) ==
    /\ grant' = [grant EXCEPT ![t].status = status]
    /\ UNCHANGED <<task, ckpt, waits, journal, worker, faults, used>>

Approve(t) ==
    /\ Decidable(t)
    /\ task.status = "waiting" /\ task.approved
    /\ grant[t].status = "pending"
    /\ Settle(t, "approved")

Reject(t) ==
    /\ Decidable(t)
    /\ grant[t].status = "pending"
    /\ Settle(t, "rejected")

Revoke(t) ==
    /\ Decidable(t)
    /\ grant[t].status = "approved"
    /\ Settle(t, "revoked")

----------------------------------------------------------------------------
(* How an execution begins                                                 *)

Owner(w) == task.owner = w

CanCommit(w) == Owner(w) /\ task.status = "executing"

Goto(w, pc) == worker' = [worker EXCEPT ![w].pc = pc]

Return(w) == worker' = [worker EXCEPT ![w] = Idle]

Open(x) == journal[x] = "started"

Started == {x \in Key : Open(x)}

HasRows(p) == \E i \in Step : journal[<<p, i>>] # "none"

Enter(w, p) ==
    /\ task.approved
    /\ task' = [task EXCEPT !.status = "executing", !.owner = w]
    /\ worker' = [worker EXCEPT ![w] =
            [Idle EXCEPT !.pc = "start", !.plan = p, !.step = 1, !.known = ckpt.completed]]

BeginPlan(w, p) ==
    /\ Enter(w, p)
    /\ ckpt' = [NoCheckpoint EXCEPT !.kind = "plan", !.plan = p, !.cycle = ckpt.cycle]

\* A plan that is executed again keeps its checkpoint, and the grant with it.
BeginRetry(w) == Enter(w, ckpt.plan) /\ UNCHANGED ckpt

Data == <<grant, waits, journal, used>>

Run(w, p) ==
    /\ worker[w].pc = "idle"
    /\ task.status = "ready"
    /\ BeginPlan(w, p)
    /\ UNCHANGED <<Data, faults>>

\* Fault: an approval does not end a wait.
WaitOverWithout ==
    \/ ckpt.reason = "auto"
    \/ ckpt.reason = "unknown" /\ ~Open(ckpt.row)

\* _resume_wait: which waits are over.
WaitOver ==
    \/ ckpt.reason = "auto"
    \/ ckpt.reason = "approval" /\ Ready(ckpt.token, ckpt.plan, grant[ckpt.token].step)
    \/ ckpt.reason = "unknown" /\ ~Open(ckpt.row)

Wake(w) ==
    /\ worker[w].pc = "idle"
    /\ task.status = "waiting"
    /\ WaitOver
    /\ BeginRetry(w)
    /\ UNCHANGED <<Data, faults>>

\* resume() of a lost execution.
Restart(w) ==
    \/ /\ \/ ckpt.kind = "plan" /\ HasRows(ckpt.plan)
          \/ ckpt.kind = "retry"
          \/ ckpt.kind = "wait" /\ WaitOver
       /\ BeginRetry(w)
    \/ /\ \/ ckpt.kind = "plan" /\ ~HasRows(ckpt.plan)
          \/ ckpt.kind = "replan"
       /\ \E p \in Plan : BeginPlan(w, p)
    \/ /\ ckpt.kind = "wait" /\ ~WaitOver
       /\ task' = [task EXCEPT !.status = "waiting", !.owner = None]
       /\ UNCHANGED <<ckpt, worker>>

Takeover(w) ==
    /\ worker[w].pc = "idle"
    /\ task.status = "executing"
    /\ \A v \in Worker : Owner(v) => worker[v].pc = "idle"
    /\ Restart(w)
    /\ UNCHANGED <<Data, faults>>

\* The lease of a process that is alive has run out.
Supersede(w) ==
    /\ worker[w].pc = "idle"
    /\ task.status = "executing"
    /\ \E v \in Worker : Owner(v) /\ worker[v].pc # "idle"
    /\ faults < MaxFaults
    /\ faults' = faults + 1
    /\ Restart(w)
    /\ UNCHANGED Data

----------------------------------------------------------------------------
(* The step loop                                                           *)

\* The outcome of row x is not known.
Doubt(w, x) == worker' = [worker EXCEPT ![w].pc = "uncertain", ![w].row = x]

Pass(w) == worker' = [worker EXCEPT ![w].pc = "step", ![w].step = @ + 1, ![w].token = 0,
                                    ![w].done = @ \cup {worker[w].step}]

CheckPending(w) ==
    /\ worker[w].pc = "start"
    /\ \/ \E x \in Started : Doubt(w, x)
       \/ Started = {} /\ Goto(w, "step")
    /\ UNCHANGED <<task, ckpt, Data, faults>>

AtStep(w) == worker[w].pc = "step" /\ worker[w].step \in Step

Skip(w) ==
    /\ AtStep(w)
    /\ worker[w].step \in worker[w].known
    /\ Pass(w)
    /\ UNCHANGED <<task, ckpt, Data, faults>>

\* ToolSecurityPolicy.authorize, in a transaction of its own.
Authorize(w) ==
    LET p == worker[w].plan
        i == worker[w].step
    IN  /\ AtStep(w)
        /\ i \notin worker[w].known
        /\ Owner(w)
        /\ \/ /\ Allowed(p, i)
              /\ worker' = [worker EXCEPT ![w].pc = "allowed",
                                ![w].token = IF i \in Needs[p] THEN ckpt.token ELSE 0]
           \/ ~Allowed(p, i) /\ Goto(w, "refused")
        /\ UNCHANGED <<task, ckpt, Data, faults>>

\* History: the grant is used up by a call.
Charge(w) == used' = [t \in Token |-> IF t = worker[w].token THEN used[t] + 1 ELSE used[t]]

\* Fault: a row that is completed is opened again.
ReservableDone(x) == Started = {}

Reservable(x) == journal[x] # "completed" /\ Started = {}

\* begin_tool_invocation
Reserve(w) ==
    LET x == Current(w)
    IN  /\ worker[w].pc = "allowed"
        /\ CanCommit(w)
        /\ \/ /\ Reservable(x)
              /\ journal' = [journal EXCEPT ![x] = "started"]
              /\ Goto(w, "calling")
              /\ Charge(w)
           \/ /\ ~Reservable(x) /\ journal[x] = "completed"
              /\ Pass(w)
              /\ UNCHANGED <<journal, used>>
           \/ /\ ~Reservable(x) /\ journal[x] # "completed"
              /\ \E y \in Started : (Open(x) => y = x) /\ Doubt(w, y)
              /\ UNCHANGED <<journal, used>>
        /\ UNCHANGED <<task, ckpt, grant, waits, faults>>

\* The tool has returned; a row that cannot be completed stays open.
Complete(w) ==
    /\ worker[w].pc = "calling"
    /\ \/ /\ Owner(w) /\ Open(Current(w))
          /\ journal' = [journal EXCEPT ![Current(w)] = "completed"]
          /\ Pass(w)
       \/ Doubt(w, Current(w)) /\ UNCHANGED journal
    /\ UNCHANGED <<task, ckpt, grant, waits, used, faults>>

----------------------------------------------------------------------------
(* Decisions                                                               *)

Park(w, reason, completed, row) ==
    /\ waits < MaxWaits
    /\ waits' = waits + 1
    /\ task' = [task EXCEPT !.status = "waiting", !.owner = None]
    /\ ckpt' = [kind |-> "wait", reason |-> reason, token |-> waits', plan |-> worker[w].plan,
                completed |-> completed, row |-> row, cycle |-> ckpt.cycle]
    /\ Return(w)

\* The wait and its request are one transaction.
AskApproval(w) ==
    /\ worker[w].pc = "refused"
    /\ CanCommit(w)
    /\ Park(w, "approval", worker[w].done, None)
    /\ grant' = [grant EXCEPT ![waits'] = [status |-> "pending", plan |-> worker[w].plan,
                                           step |-> worker[w].step]]
    /\ UNCHANGED <<journal, used, faults>>

Uncertain(w) ==
    /\ worker[w].pc = "uncertain"
    /\ CanCommit(w)
    /\ Park(w, "unknown", worker[w].done, worker[w].row)
    /\ UNCHANGED <<grant, journal, used, faults>>

Ended == task' = [task EXCEPT !.status = "ended", !.owner = None]

\* Fault: one cycle more than configured.
AgainOnce(w, kind, completed) ==
    \/ /\ ckpt.cycle + 1 > MaxCycles
       /\ Ended /\ Return(w) /\ UNCHANGED ckpt
    \/ /\ ckpt.cycle + 1 <= MaxCycles
       /\ ckpt' = [NoCheckpoint EXCEPT !.kind = kind, !.plan = worker[w].plan,
                        !.completed = completed, !.cycle = ckpt.cycle + 1]
       /\ Goto(w, "replan")
       /\ UNCHANGED task

\* The next cycle of the same call, if the budget has one.
Again(w, kind, completed) ==
    \/ /\ ckpt.cycle + 1 >= MaxCycles
       /\ Ended /\ Return(w) /\ UNCHANGED ckpt
    \/ /\ ckpt.cycle + 1 < MaxCycles
       /\ ckpt' = [NoCheckpoint EXCEPT !.kind = kind, !.plan = worker[w].plan,
                        !.completed = completed, !.cycle = ckpt.cycle + 1]
       /\ IF kind = "retry"
          THEN worker' = [worker EXCEPT ![w] =
                    [Idle EXCEPT !.pc = "start", !.plan = worker[w].plan, !.step = 1,
                                 !.known = completed]]
          ELSE Goto(w, "replan")
       /\ UNCHANGED task

Replan(w, p) ==
    /\ worker[w].pc = "replan"
    /\ CanCommit(w)
    /\ BeginPlan(w, p)
    /\ UNCHANGED <<Data, faults>>

\* An error before the call was reserved: wrong arguments, no such tool.
Fail(w) ==
    /\ worker[w].pc = "allowed"
    /\ CanCommit(w)
    /\ \/ Again(w, "retry", worker[w].done)
       \/ Again(w, "replan", {})
    /\ UNCHANGED <<Data, faults>>

\* All steps are done, and the validator has decided.
Finish(w) ==
    /\ worker[w].pc = "step" /\ worker[w].step = Steps + 1
    /\ CanCommit(w)
    /\ \/ Ended /\ Return(w) /\ UNCHANGED <<ckpt, waits>>
       \/ Park(w, "auto", {}, None)
       \/ (\E kind \in {"retry", "replan"} : Again(w, kind, {})) /\ UNCHANGED waits
    /\ UNCHANGED <<grant, journal, used, faults>>

\* A transaction of a worker that lost the task is refused, and its call ends.
Abort(w) ==
    /\ worker[w].pc \notin {"idle", "start", "calling"}
    /\ ~CanCommit(w)
    /\ Return(w)
    /\ UNCHANGED <<task, ckpt, Data, faults>>

Crash(w) ==
    /\ worker[w].pc # "idle"
    /\ faults < MaxFaults
    /\ faults' = faults + 1
    /\ Return(w)
    /\ UNCHANGED <<task, ckpt, Data>>

----------------------------------------------------------------------------
(* What others do                                                          *)

\* resolve_tool_invocation
Judge(outcome) ==
    /\ task.status = "waiting"
    /\ ckpt.reason = "unknown"
    /\ Open(ckpt.row) /\ ckpt.row[1] = ckpt.plan
    /\ journal' = [journal EXCEPT ![ckpt.row] = outcome]
    /\ UNCHANGED <<task, ckpt, grant, waits, worker, faults, used>>

\* TaskStore.approve and revoke_approval
SetApproval ==
    /\ task' = [task EXCEPT !.approved = ~@]
    /\ UNCHANGED <<ckpt, Data, worker, faults>>

Cancel ==
    /\ task.status # "ended"
    /\ Ended
    /\ ckpt' = NoCheckpoint
    /\ UNCHANGED <<Data, worker, faults>>

Begin(w) == (\E p \in Plan : Run(w, p)) \/ Wake(w) \/ Takeover(w)

Work(w) ==
    \/ CheckPending(w) \/ Skip(w) \/ Authorize(w) \/ Reserve(w) \/ Complete(w)
    \/ AskApproval(w) \/ Uncertain(w) \/ Fail(w) \/ Finish(w) \/ Abort(w)
    \/ \E p \in Plan : Replan(w, p)

Next ==
    \/ \E w \in Worker : Begin(w) \/ Work(w) \/ Supersede(w) \/ Crash(w)
    \/ \E t \in Token : Approve(t) \/ Reject(t) \/ Revoke(t)
    \/ \E outcome \in {"completed", "no_effect"} : Judge(outcome)
    \/ SetApproval \/ Cancel

Spec == Init /\ [][Next]_vars

\* Operators resume a task after a grant, the maintenance job one whose process is
\* lost; running processes go on.
FairSpec ==
    /\ Spec
    /\ \A w \in Worker : WF_vars(Work(w))
    /\ WF_vars(\E w \in Worker : Begin(w))

----------------------------------------------------------------------------
(* Properties                                                              *)

Given(t) == grant[t].status \in {"approved", "revoked"}

\* Rows and calls have the shape the code relies on: a wait knows its plan, a
\* call its step, and the budget of cycles is not exceeded.
TypeOK ==
    /\ task \in [status : {"ready", "executing", "waiting", "ended"}, approved : BOOLEAN,
                 owner : Worker \cup {None}]
    /\ ckpt \in [kind : {"none", "plan", "retry", "replan", "wait"},
                 reason : {"none", "auto", "approval", "unknown"}, token : 0 .. MaxWaits,
                 plan : Plan \cup {None}, completed : SUBSET Step, row : Key \cup {None},
                 cycle : 0 .. MaxCycles - 1]
    /\ ckpt.kind # "none" => ckpt.plan \in Plan
    /\ ckpt.reason # "none" => ckpt.kind = "wait" /\ ckpt.token = waits /\ waits > 0
    /\ ckpt.reason = "unknown" => ckpt.row \in Key
    /\ grant \in [Token -> [status : {"none", "pending", "approved", "rejected", "revoked"},
                            plan : Plan \cup {None}, step : 0 .. Steps]]
    /\ waits \in 0 .. MaxWaits
    /\ journal \in [Key -> {"none", "started", "completed", "no_effect"}]
    /\ worker \in [Worker ->
            [pc : {"idle", "start", "step", "allowed", "refused", "calling", "uncertain",
                   "replan"},
             plan : Plan \cup {None}, step : 0 .. Steps + 1, known : SUBSET Step,
             done : SUBSET Step, row : Key \cup {None}, token : 0 .. MaxWaits]]
    /\ \A w \in Worker :
            /\ worker[w].pc # "idle" => worker[w].plan \in Plan /\ worker[w].step > 0
            /\ worker[w].pc \in {"allowed", "refused", "calling"} => worker[w].step \in Step
            /\ worker[w].pc = "uncertain" => worker[w].row \in Key
    /\ faults \in 0 .. MaxFaults
    /\ used \in [Token -> Nat]

\* A step that needs a grant is in the journal only if a person approved this step
\* of this plan.
CallsAreGranted ==
    \A p \in Plan : \A i \in Needs[p] : journal[<<p, i>>] # "none" =>
        \E t \in Token : Given(t) /\ grant[t].plan = p /\ grant[t].step = i

\* A grant is good for one call, and only once it is given: neither a retry, nor
\* another process, nor the verdict that the first call had no effect lets it be
\* used again.
OneCallPerGrant ==
    \A t \in Token : used[t] > 0 => used[t] = 1 /\ Given(t)

Standing == \E t \in Token : Ready(t, grant[t].plan, grant[t].step)

\* A task does not wait on after its request was approved: it is resumed, gets to
\* the step and beyond, and saves another checkpoint, or ends.
GrantsLeadOn == Standing ~> ~Standing \/ waits = MaxWaits

====
