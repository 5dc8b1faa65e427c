---- MODULE JournalProofs ----
(***************************************************************************)
(* Theorems about ToolJournal for any number of workers, plans and steps.    *)
(* They hold whatever the switches RunWaiting and LateCalls allow, but for   *)
(* JournalEffectOnce, which speaks of verdicts about calls that are over.    *)
(***************************************************************************)
EXTENDS ToolJournal, FiniteSetTheorems, TLAPS

----------------------------------------------------------------------------
(* Type correctness                                                        *)

\* What is known of a worker that executes.
LEMMA WorkerFacts ==
    ASSUME TypeOK, NEW w \in Worker
    PROVE  /\ worker[w] \in WorkerState
           /\ worker[w].pc \in Pc
           /\ worker[w].fenced \in BOOLEAN
           /\ worker[w].done \in SUBSET Step
           /\ worker[w].pc # "idle" => worker[w].plan \in Plan /\ worker[w].step \in 1 .. Steps + 1
           /\ worker[w].pc \in {"calling", "returned", "failed"} => Current(w) \in Key
           /\ AtStep(w) => Current(w) \in Key
           /\ worker[w].pc = "uncertain" => worker[w].row \in Key
<1>1. worker[w] \in WorkerState
  BY DEF TypeOK
<1> QED
  BY <1>1 DEF WorkerState, Current, Key, AtStep

\* The local moves of a worker keep its state well formed.
LEMMA MoveType ==
    ASSUME TypeOK, NEW w \in Worker
    PROVE  /\ Return(w) => worker' \in [Worker -> WorkerState]
           /\ \A pc \in {"start", "step", "replan", "validating"} :
                worker[w].pc # "idle" /\ Goto(w, pc) => worker' \in [Worker -> WorkerState]
           /\ \A pc \in {"calling", "returned", "failed"} :
                /\ worker[w].pc = "calling" \/ AtStep(w)
                /\ Goto(w, pc)
                => worker' \in [Worker -> WorkerState]
           /\ \A x \in Key : worker[w].pc # "idle" /\ Doubt(w, x)
                => worker' \in [Worker -> WorkerState]
           /\ (worker[w].pc = "returned" \/ AtStep(w)) /\ Pass(w)
                => worker' \in [Worker -> WorkerState]
<1>1. /\ worker \in [Worker -> WorkerState]
      /\ worker[w] \in WorkerState
  BY DEF TypeOK
<1>2. Steps \in Nat \ {0}
  BY LimitsAssumption
<1>3. ASSUME Return(w)
      PROVE  worker' \in [Worker -> WorkerState]
  <2>1. Idle \in WorkerState
    BY DEF Idle, WorkerState, Pc
  <2> QED
    BY <1>1, <1>3, <2>1 DEF Return
<1>4. ASSUME NEW pc \in {"start", "step", "replan", "validating"},
             worker[w].pc # "idle", Goto(w, pc)
      PROVE  worker' \in [Worker -> WorkerState]
  <2>1. [worker[w] EXCEPT !.pc = pc] \in WorkerState
    BY <1>1, <1>4 DEF WorkerState, Pc
  <2> QED
    BY <1>1, <1>4, <2>1 DEF Goto
<1>5. ASSUME NEW pc \in {"calling", "returned", "failed"},
             worker[w].pc = "calling" \/ AtStep(w), Goto(w, pc)
      PROVE  worker' \in [Worker -> WorkerState]
  <2>1. [worker[w] EXCEPT !.pc = pc] \in WorkerState
    BY <1>1, <1>5 DEF WorkerState, Pc, AtStep
  <2> QED
    BY <1>1, <1>5, <2>1 DEF Goto
<1>6. ASSUME NEW x \in Key, worker[w].pc # "idle", Doubt(w, x)
      PROVE  worker' \in [Worker -> WorkerState]
  <2>1. [worker[w] EXCEPT !.pc = "uncertain", !.row = x] \in WorkerState
    BY <1>1, <1>6 DEF WorkerState, Pc
  <2> QED
    BY <1>1, <1>6, <2>1 DEF Doubt
<1>7. ASSUME worker[w].pc = "returned" \/ AtStep(w), Pass(w)
      PROVE  worker' \in [Worker -> WorkerState]
  <2>1. worker[w].step \in Step /\ worker[w].pc # "idle"
    BY <1>1, <1>7 DEF WorkerState, AtStep
  <2>2. worker[w].step + 1 \in 1 .. Steps + 1 /\ worker[w].step + 1 \in Nat
    BY <1>2, <2>1 DEF Step
  <2>3. worker[w].done \cup {worker[w].step} \in SUBSET Step
    BY <1>1, <2>1 DEF WorkerState
  <2>4. [worker[w] EXCEPT !.pc = "step", !.step = worker[w].step + 1,
                          !.done = worker[w].done \cup {worker[w].step}] \in WorkerState
    BY <1>1, <2>1, <2>2, <2>3 DEF WorkerState, Pc
  <2> QED
    BY <1>1, <1>7, <2>4 DEF Pass
<1> QED
  BY <1>3, <1>4, <1>5, <1>6, <1>7

\* So does the beginning of an execution.
LEMMA BeginType ==
    ASSUME TypeOK, NEW w \in Worker
    PROVE  /\ \A p \in Plan, fenced \in BOOLEAN :
                BeginPlan(w, p, fenced) => /\ task' \in Task
                                           /\ ckpt' \in Checkpoint
                                           /\ worker' \in [Worker -> WorkerState]
           /\ ckpt.plan \in Plan /\ BeginRetry(w) =>
                /\ task' \in Task
                /\ ckpt' \in Checkpoint
                /\ worker' \in [Worker -> WorkerState]
<1>1. /\ task \in Task
      /\ ckpt \in Checkpoint
      /\ worker \in [Worker -> WorkerState]
      /\ ckpt.completed \in SUBSET Step
      /\ ckpt.cycle \in Nat
  BY DEF TypeOK, Checkpoint
<1>2. Steps \in Nat \ {0}
  BY LimitsAssumption
<1>3. ASSUME NEW p \in Plan, NEW fenced \in BOOLEAN, Enter(w, p, fenced)
      PROVE  task' \in Task /\ worker' \in [Worker -> WorkerState]
  <2>1. [Idle EXCEPT !.pc = "start", !.fenced = fenced, !.plan = p, !.step = 1,
                     !.known = ckpt.completed] \in WorkerState
    <3>1. 1 \in Nat /\ 1 \in 1 .. Steps + 1
      BY <1>2
    <3>2. {} \in SUBSET Step /\ None \in Key \cup {None}
      OBVIOUS
    <3> QED
      BY <1>1, <3>1, <3>2 DEF Idle, WorkerState, Pc
  <2>2. task' \in Task
    BY <1>1, <1>3 DEF Enter, Task
  <2> QED
    BY <1>1, <1>3, <2>1, <2>2 DEF Enter
<1>4. ASSUME NEW p \in Plan
      PROVE  [NoCheckpoint EXCEPT !.kind = "plan", !.plan = p, !.cycle = ckpt.cycle]
                \in Checkpoint
  BY <1>1 DEF NoCheckpoint, Checkpoint
<1> QED
  BY <1>1, <1>3, <1>4 DEF BeginPlan, BeginRetry

\* And the decisions.
LEMMA DecisionType ==
    ASSUME TypeOK, NEW w \in Worker, worker[w].pc # "idle"
    PROVE  /\ Ended => task' \in Task
           /\ \A completed \in SUBSET Step, reason \in {"auto", "blocked"} :
                Park(w, completed, reason, None) =>
                    /\ task' \in Task
                    /\ ckpt' \in Checkpoint
                    /\ worker' \in [Worker -> WorkerState]
           /\ \A completed \in SUBSET Step, row \in Key :
                Park(w, completed, "unknown", row) =>
                    /\ task' \in Task
                    /\ ckpt' \in Checkpoint
                    /\ worker' \in [Worker -> WorkerState]
           /\ \A kind \in {"retry", "replan"}, completed \in SUBSET Step :
                Again(w, kind, completed) =>
                    /\ task' \in Task
                    /\ ckpt' \in Checkpoint
                    /\ worker' \in [Worker -> WorkerState]
<1>1. /\ task \in Task
      /\ ckpt \in Checkpoint
      /\ worker \in [Worker -> WorkerState]
      /\ worker[w] \in WorkerState
      /\ worker[w].plan \in Plan
      /\ ckpt.cycle \in Nat
  BY DEF TypeOK, Checkpoint, WorkerState
<1>2. Steps \in Nat \ {0}
  BY LimitsAssumption
<1>3. Ended => task' \in Task
  BY DEF Ended, Task
<1>4. Return(w) => worker' \in [Worker -> WorkerState]
  BY MoveType
<1>5. ASSUME NEW completed \in SUBSET Step, NEW reason \in {"auto", "blocked", "unknown"},
             NEW row \in Key \cup {None}, reason = "unknown" => row \in Key,
             Park(w, completed, reason, row)
      PROVE  /\ task' \in Task
             /\ ckpt' \in Checkpoint
             /\ worker' \in [Worker -> WorkerState]
  <2>1. ckpt' \in Checkpoint
    BY <1>1, <1>5 DEF Park, Checkpoint
  <2> QED
    BY <1>4, <1>5, <2>1 DEF Park, Task
<1>6. ASSUME NEW kind \in {"retry", "replan"}, NEW completed \in SUBSET Step,
             Again(w, kind, completed)
      PROVE  /\ task' \in Task
             /\ ckpt' \in Checkpoint
             /\ worker' \in [Worker -> WorkerState]
  <2>1. CASE Exhausted /\ Ended /\ Return(w) /\ UNCHANGED ckpt
    BY <1>1, <1>3, <1>4, <2>1
  <2>2. CASE ~(Exhausted /\ Ended /\ Return(w) /\ UNCHANGED ckpt)
    <3>1. task' \in Task
      BY <1>1, <1>6, <2>2 DEF Again, Task
    <3>2. [NoCheckpoint EXCEPT !.kind = kind, !.plan = worker[w].plan,
                !.completed = completed, !.cycle = ckpt.cycle + 1] \in Checkpoint
      <4>1. ckpt.cycle + 1 \in Nat /\ None \in Key \cup {None}
        BY <1>1
      <4> QED
        BY <1>1, <4>1 DEF NoCheckpoint, Checkpoint
    <3>3. [worker[w] EXCEPT !.pc = "start", !.step = 1, !.known = completed,
                            !.done = {}, !.row = None] \in WorkerState
      <4>1. 1 \in Nat /\ 1 \in 1 .. Steps + 1
        BY <1>2
      <4>2. {} \in SUBSET Step /\ None \in Key \cup {None}
        OBVIOUS
      <4> QED
        BY <1>1, <4>1, <4>2 DEF WorkerState, Pc
    <3>4. CASE kind = "retry"
      <4>1. ckpt' \in Checkpoint
        BY <1>6, <2>2, <3>2 DEF Again
      <4>2. worker' = [worker EXCEPT ![w] =
                [worker[w] EXCEPT !.pc = "start", !.step = 1, !.known = completed,
                                  !.done = {}, !.row = None]]
        BY <1>1, <1>6, <2>2, <3>4 DEF Again
      <4>3. worker' \in [Worker -> WorkerState]
        BY <1>1, <3>3, <4>2
      <4> QED
        BY <3>1, <4>1, <4>3
    <3>5. CASE kind = "replan"
      <4>1. Goto(w, "replan") => worker' \in [Worker -> WorkerState]
        BY MoveType
      <4> QED
        BY <1>1, <1>6, <2>2, <3>1, <3>2, <3>5, <4>1 DEF Again
    <3> QED
      BY <3>4, <3>5
  <2> QED
    BY <2>1, <2>2
<1> QED
  BY <1>3, <1>5, <1>6

\* Everything has its shape at first.
LEMMA TypeInit == Init => TypeOK
<1> SUFFICES ASSUME Init PROVE TypeOK
  OBVIOUS
<1>1. task \in Task
  BY DEF Init, Task
<1>2. ckpt \in Checkpoint
  <2>1. None \in Key \cup {None} /\ {} \in SUBSET Step
    OBVIOUS
  <2> QED
    BY <2>1 DEF Init, NoCheckpoint, Checkpoint
<1>3. worker \in [Worker -> WorkerState]
  <2>1. None \in Key \cup {None} /\ {} \in SUBSET Step
    OBVIOUS
  <2>2. Idle \in WorkerState
    BY <2>1 DEF Idle, WorkerState, Pc
  <2> QED
    BY <2>2 DEF Init
<1> QED
  BY <1>1, <1>2, <1>3 DEF Init, TypeOK

\* One step per action.
LEMMA TypeStep == TypeOK /\ [Next]_vars => TypeOK'
<1> SUFFICES ASSUME TypeOK, [Next]_vars PROVE TypeOK'
  OBVIOUS
<1>1. /\ task \in Task
      /\ ckpt \in Checkpoint
      /\ journal \in [Key -> {"none", "started", "completed", "no_effect"}]
      /\ worker \in [Worker -> WorkerState]
      /\ effects \in [Key -> Nat]
      /\ refuted \in [Key -> Nat]
      /\ performed \in SUBSET Key
  BY DEF TypeOK
<1> DEFINE Calm == UNCHANGED <<journal, effects, refuted, performed>>
<1> DEFINE Moved == /\ task' \in Task
                    /\ ckpt' \in Checkpoint
                    /\ worker' \in [Worker -> WorkerState]
<1>2. Calm /\ Moved => TypeOK'
  BY <1>1 DEF TypeOK
<1>3. ASSUME NEW w \in Worker, Begin(w)
      PROVE  TypeOK'
  <2>1. \A p \in Plan, fenced \in BOOLEAN : BeginPlan(w, p, fenced) => Moved
    BY BeginType
  <2>2. ckpt.plan \in Plan /\ BeginRetry(w) => Moved
    BY BeginType
  <2>3. /\ ckpt.kind # "none" => ckpt.plan \in Plan
        /\ WaitOver => ckpt.plan \in Plan
    BY <1>1 DEF Checkpoint, WaitOver
  <2>4. CASE \E p \in Plan : Run(w, p) \/ RunUnclaimed(w, p)
    BY <1>2, <2>1, <2>4 DEF Run, RunUnclaimed, World
  <2>5. CASE Wake(w)
    BY <1>2, <2>2, <2>3, <2>5 DEF Wake, World
  <2>6. CASE Takeover(w)
    <3>1. Calm
      BY <2>6 DEF Takeover, World
    <3>2. \/ \E p \in Plan : BeginPlan(w, p, TRUE)
          \/ ckpt.plan \in Plan /\ BeginRetry(w)
          \/ /\ task' = [status |-> "waiting", owner |-> None, runner |-> None]
             /\ UNCHANGED <<ckpt, worker>>
      BY <2>3, <2>6 DEF Takeover
    <3>3. CASE \E p \in Plan : BeginPlan(w, p, TRUE)
      BY <1>2, <2>1, <3>1, <3>3
    <3>4. CASE /\ task' = [status |-> "waiting", owner |-> None, runner |-> None]
               /\ UNCHANGED <<ckpt, worker>>
      BY <1>1, <1>2, <3>1, <3>4 DEF Task
    <3>5. CASE ckpt.plan \in Plan /\ BeginRetry(w)
      BY <1>2, <2>2, <3>1, <3>5
    <3> QED
      BY <3>2, <3>3, <3>4, <3>5
  <2> QED
    BY <1>3, <2>4, <2>5, <2>6 DEF Begin
<1>4. ASSUME NEW w \in Worker, Work(w) \/ Crash(w)
      PROVE  TypeOK'
  <2>1. /\ worker[w].pc \in Pc
        /\ worker[w].fenced \in BOOLEAN
        /\ worker[w].done \in SUBSET Step
        /\ worker[w].pc \in {"calling", "returned", "failed"} => Current(w) \in Key
        /\ AtStep(w) => Current(w) \in Key
        /\ worker[w].pc = "uncertain" => worker[w].row \in Key
    BY WorkerFacts
  <2>2. Started \in SUBSET Key
    BY DEF Started
  <2> DEFINE Known == worker' \in [Worker -> WorkerState]
  <2>3. Return(w) => Known
    BY MoveType
  <2>4. CASE CheckPending(w)
    <3>1. Known
      BY <2>2, <2>4, MoveType DEF CheckPending
    <3> QED
      BY <1>1, <1>2, <2>4, <3>1 DEF CheckPending, World
  <2>5. CASE Skip(w)
    <3>1. Known
      BY <2>5, MoveType DEF Skip
    <3> QED
      BY <1>1, <1>2, <2>5, <3>1 DEF Skip, World
  <2>6. CASE Read(w)
    <3>1. Known
      BY <2>6, MoveType DEF Read
    <3> QED
      BY <1>1, <2>1, <2>6, <3>1 DEF Read, TypeOK
  <2>7. CASE Reserve(w)
    <3>1. Known
      <4>1. AtStep(w) /\ worker[w].pc # "idle"
        BY <2>7 DEF Reserve, AtStep
      <4>2. Pass(w) \/ Goto(w, "calling") \/ \E y \in Key : Doubt(w, y)
        BY <2>2, <2>7 DEF Reserve
      <4> QED
        BY <4>1, <4>2, MoveType
    <3>2. Current(w) \in Key
      BY <2>1, <2>7 DEF Reserve
    <3>3. journal' \in [Key -> {"none", "started", "completed", "no_effect"}]
      BY <1>1, <2>7, <3>2 DEF Reserve
    <3> QED
      BY <1>1, <2>7, <3>1, <3>3 DEF Reserve, World, TypeOK
  <2>8. CASE Call(w)
    <3>1. Current(w) \in Key /\ worker[w].pc = "calling"
      BY <2>1, <2>8 DEF Call
    <3>2. Known
      BY <2>8, <3>1, MoveType DEF Call
    <3>3. effects' \in [Key -> Nat]
      BY <1>1, <2>8, <3>1 DEF Call
    <3> QED
      BY <1>1, <2>8, <3>2, <3>3 DEF Call, TypeOK
  <2>9. CASE Complete(w)
    <3>1. Current(w) \in Key /\ worker[w].pc = "returned"
      BY <2>1, <2>9 DEF Complete
    <3>2. Known
      BY <2>9, <3>1, MoveType DEF Complete
    <3>3. /\ journal' \in [Key -> {"none", "started", "completed", "no_effect"}]
          /\ performed' \in SUBSET Key
      BY <1>1, <2>9, <3>1 DEF Complete
    <3> QED
      BY <1>1, <2>9, <3>2, <3>3 DEF Complete, TypeOK
  <2>10. CASE Refuse(w)
    <3>1. worker[w].pc # "idle"
      BY <2>10 DEF Refuse, AtStep
    <3>2. \A kind \in {"retry", "replan"} : Kept(w, kind) \in SUBSET Step
      BY <2>1 DEF Kept
    <3>3. Moved
      BY <1>1, <2>1, <2>3, <2>10, <3>1, <3>2, DecisionType DEF Refuse
    <3> QED
      BY <1>2, <2>10, <3>3 DEF Refuse, World
  <2>11. CASE FailedTest(w)
    <3>1. worker[w].pc # "idle"
      BY <2>11 DEF FailedTest
    <3>2. Kept(w, "retry") \in SUBSET Step
      BY <2>1 DEF Kept
    <3>3. Moved
      BY <2>11, <3>1, <3>2, DecisionType DEF FailedTest
    <3> QED
      BY <1>2, <2>11, <3>3 DEF FailedTest, World
  <2>12. CASE Uncertain(w)
    <3>1. Moved
      BY <2>1, <2>12, DecisionType DEF Uncertain
    <3> QED
      BY <1>2, <2>12, <3>1 DEF Uncertain, World
  <2>13. CASE Executed(w)
    <3>1. Known
      BY <2>13, MoveType DEF Executed
    <3>2. worker[w].plan \in Plan
      BY <2>13, WorkerFacts DEF Executed
    <3>3. ckpt' \in Checkpoint
      <4>1. ckpt.cycle \in Nat /\ None \in Key \cup {None} /\ {} \in SUBSET Step
        BY <1>1 DEF Checkpoint
      <4> QED
        BY <2>13, <3>2, <4>1 DEF Executed, NoCheckpoint, Checkpoint
    <3>4. task' \in Task
      BY <1>1, <2>13 DEF Executed, Task
    <3> QED
      BY <1>2, <2>13, <3>1, <3>3, <3>4 DEF Executed, World
  <2>14. CASE Validated(w)
    <3>1. worker[w].pc # "idle" /\ {} \in SUBSET Step
      BY <2>14 DEF Validated
    <3>2. Moved
      BY <1>1, <2>3, <2>14, <3>1, DecisionType DEF Validated
    <3> QED
      BY <1>2, <2>14, <3>2 DEF Validated, World
  <2>15. CASE Abort(w)
    BY <1>1, <1>2, <2>3, <2>15 DEF Abort, World
  <2>16. CASE \E p \in Plan : Replan(w, p)
    BY <1>2, <2>1, <2>16, BeginType DEF Replan, World
  <2>17. CASE Crash(w)
    BY <1>1, <1>2, <2>3, <2>17 DEF Crash, World
  <2> QED
    BY <1>4, <2>4, <2>5, <2>6, <2>7, <2>8, <2>9, <2>10, <2>11, <2>12, <2>13,
       <2>14, <2>15, <2>16, <2>17 DEF Work
<1>5. CASE Others
  <2>1. \A outcome \in {"completed", "no_effect"} : CanDecide /\ Judge(outcome) =>
            /\ AskedRow \in Key
            /\ task' \in Task /\ ckpt' \in Checkpoint
            /\ worker' \in [Worker -> WorkerState]
            /\ journal' \in [Key -> {"none", "started", "completed", "no_effect"}]
            /\ effects' \in [Key -> Nat]
    BY <1>1 DEF CanDecide, Judge, AskedRow, Checkpoint
  <2>2. CASE Confirm
    BY <1>1, <2>1, <2>2 DEF Confirm, TypeOK
  <2>3. CASE Refute
    <3>1. AskedRow \in Key
      BY <2>1, <2>3 DEF Refute
    <3>2. refuted' \in [Key -> Nat]
      BY <1>1, <2>3, <3>1 DEF Refute
    <3> QED
      BY <1>1, <2>1, <2>3, <3>2 DEF Refute, TypeOK
  <2>4. CASE Unblock
    <3>1. ckpt' \in Checkpoint
      BY <1>1, <2>4 DEF Unblock, Checkpoint
    <3> QED
      BY <1>1, <1>2, <2>4, <3>1 DEF Unblock, World
  <2>5. CASE Cancel
    BY <1>1, <1>2, <2>5 DEF Cancel, Ended, Task, World
  <2> QED
    BY <1>5, <2>2, <2>3, <2>4, <2>5 DEF Others
<1>6. CASE UNCHANGED vars
  BY <1>1, <1>2, <1>6 DEF vars
<1> QED
  BY <1>3, <1>4, <1>5, <1>6 DEF Next

\* Rows, checkpoints and counters keep the shape the code relies on, whatever
\* processes crash, take over or are told.
THEOREM JournalTypeCorrect == Spec => []TypeOK
<1> QED
  BY TypeInit, TypeStep, PTL DEF Spec

----------------------------------------------------------------------------
(* One open row                                                            *)

\* A step opens a row only when none is open.
LEMMA StartedStep ==
    ASSUME TypeOK, [Next]_vars
    PROVE  Started' \subseteq Started \/ \E x \in Key : Started = {} /\ Started' \subseteq {x}
<1>1. journal \in [Key -> {"none", "started", "completed", "no_effect"}]
  BY DEF TypeOK
<1>2. UNCHANGED journal => Started' = Started
  BY DEF Started, Open
<1>3. ASSUME NEW w \in Worker, Reserve(w)
      PROVE  Started' \subseteq Started \/ \E x \in Key : Started = {} /\ Started' \subseteq {x}
  <2>1. Current(w) \in Key
    BY <1>3, WorkerFacts DEF Reserve
  <2>2. CASE Reservable(Current(w)) /\ journal' = [journal EXCEPT ![Current(w)] = "started"]
    BY <1>1, <2>1, <2>2 DEF Reservable, Started, Open
  <2> QED
    BY <1>2, <1>3, <2>2 DEF Reserve
<1>4. ASSUME NEW w \in Worker, Complete(w)
      PROVE  Started' \subseteq Started
  BY <1>1, <1>4 DEF Complete, Started, Open
<1>5. Confirm \/ Refute => Started' \subseteq Started
  BY <1>1 DEF Confirm, Refute, Judge, Started, Open
<1>6. ASSUME NEW w \in Worker, Begin(w) \/ Work(w) \/ Crash(w), ~Reserve(w), ~Complete(w)
      PROVE  UNCHANGED journal
  BY <1>6 DEF Begin, Work, Crash, Run, RunUnclaimed, Wake, Takeover, CheckPending,
              Skip, Read, Call, Refuse, FailedTest, Uncertain, Executed, Validated,
              Abort, Replan, World
<1>7. Unblock \/ Cancel \/ UNCHANGED vars => UNCHANGED journal
  BY DEF Unblock, Cancel, vars
<1> QED
  BY <1>2, <1>3, <1>4, <1>5, <1>6, <1>7 DEF Next, Others

\* Two calls of unknown outcome never exist together: whoever takes part, with
\* a claim or without, must first have the open row settled.
THEOREM JournalOneOpenRow == Spec => []OneOpenRow
<1>1. Init => OneOpenRow
  BY DEF Init, OneOpenRow, Started, Open
<1>2. TypeOK /\ OneOpenRow /\ [Next]_vars => OneOpenRow'
  BY StartedStep DEF OneOpenRow
<1> QED
  BY <1>1, <1>2, JournalTypeCorrect, PTL DEF Spec

----------------------------------------------------------------------------
(* No blind repetition                                                     *)

\* The workers inside the tool for row x.
Calling(x) == {w \in Worker : worker[w].pc = "calling" /\ Current(w) = x}

\* What the rows permit: one effect for a row that is open or completed, and one
\* for each verdict that there was none.
Permitted(x) ==
    refuted[x] + (IF journal[x] \in {"started", "completed"} THEN 1 ELSE 0)

\* Each effect, and each call that may still have one, is permitted by a row.
\* NoBlindRepeat alone is not inductive: it says nothing of calls under way.
AccountedFor(x) ==
    IsFiniteSet(Calling(x)) /\ effects[x] + Cardinality(Calling(x)) <= Permitted(x)

Accounted == \A x \in Key : AccountedFor(x)

\* What the rows permit is a number.
LEMMA PermittedType ==
    ASSUME TypeOK, NEW x \in Key
    PROVE  Permitted(x) \in Nat /\ Permitted(x) <= 1 + refuted[x] /\ effects[x] \in Nat
<1>1. refuted[x] \in Nat /\ effects[x] \in Nat
  BY DEF TypeOK
<1> QED
  BY <1>1 DEF Permitted

\* A step that starts no call and takes nothing back leaves the account in order.
LEMMA Quiet ==
    ASSUME TypeOK, TypeOK', NEW x \in Key, AccountedFor(x),
           Calling(x)' \subseteq Calling(x),
           effects'[x] = effects[x],
           Permitted(x) <= Permitted(x)'
    PROVE  AccountedFor(x)'
<1>1. /\ IsFiniteSet(Calling(x)')
      /\ Cardinality(Calling(x)') <= Cardinality(Calling(x))
  BY FS_Subset DEF AccountedFor
<1>2. /\ Cardinality(Calling(x)') \in Nat
      /\ Cardinality(Calling(x)) \in Nat
  BY <1>1, FS_CardinalityType DEF AccountedFor
<1>3. /\ Permitted(x) \in Nat
      /\ Permitted(x)' \in Nat
      /\ effects[x] \in Nat
      /\ effects'[x] \in Nat
  <2>1. /\ refuted[x] \in Nat /\ effects[x] \in Nat
        /\ refuted'[x] \in Nat /\ effects'[x] \in Nat
    BY DEF TypeOK
  <2> QED
    BY <2>1 DEF Permitted
<1>4. effects'[x] + Cardinality(Calling(x)') <= Permitted(x)'
  BY <1>1, <1>2, <1>3 DEF AccountedFor
<1> QED
  BY <1>1, <1>4 DEF AccountedFor

\* A worker that does not stand before a call afterwards counts no more.
LEMMA Leaves ==
    ASSUME TypeOK, NEW w \in Worker, NEW s,
           worker' = [worker EXCEPT ![w] = s], s.pc # "calling"
    PROVE  \A x \in Key : Calling(x)' = Calling(x) \ {w}
<1>1. \A v \in Worker : worker'[v] = IF v = w THEN s ELSE worker[v]
  BY DEF TypeOK
<1> QED
  BY <1>1 DEF Calling, Current

\* All moves but the one into the tool are of this kind.
LEMMA MovesLeave ==
    ASSUME TypeOK, NEW w \in Worker,
           \/ Return(w)
           \/ \E pc \in Pc \ {"calling"} : Goto(w, pc)
           \/ Pass(w)
           \/ \E x \in Key : Doubt(w, x)
           \/ \E p, fenced : Enter(w, p, fenced)
           \/ \E completed, reason, row : Park(w, completed, reason, row)
           \/ \E kind, completed : Again(w, kind, completed)
           \/ UNCHANGED worker /\ worker[w].pc # "calling"
    PROVE  \A x \in Key : Calling(x)' = Calling(x) \ {w}
<1>1. worker \in [Worker -> WorkerState] /\ worker[w] \in WorkerState
  BY DEF TypeOK
<1>2. Return(w) => worker' = [worker EXCEPT ![w] = Idle] /\ Idle.pc # "calling"
  BY DEF Return, Idle
<1>3. ASSUME NEW pc \in Pc \ {"calling"}, Goto(w, pc)
      PROVE  \E s : worker' = [worker EXCEPT ![w] = s] /\ s.pc # "calling"
  <2>1. /\ worker' = [worker EXCEPT ![w] = [worker[w] EXCEPT !.pc = pc]]
        /\ [worker[w] EXCEPT !.pc = pc].pc # "calling"
    BY <1>1, <1>3 DEF Goto, WorkerState
  <2> QED
    BY <2>1
<1>4. ASSUME Pass(w)
      PROVE  \E s : worker' = [worker EXCEPT ![w] = s] /\ s.pc # "calling"
  <2> DEFINE s == [worker[w] EXCEPT !.pc = "step", !.step = worker[w].step + 1,
                                    !.done = worker[w].done \cup {worker[w].step}]
  <2>1. worker' = [worker EXCEPT ![w] = s] /\ s.pc # "calling"
    BY <1>1, <1>4 DEF Pass, WorkerState
  <2> QED
    BY <2>1
<1>5. ASSUME NEW x \in Key, Doubt(w, x)
      PROVE  \E s : worker' = [worker EXCEPT ![w] = s] /\ s.pc # "calling"
  <2> DEFINE s == [worker[w] EXCEPT !.pc = "uncertain", !.row = x]
  <2>1. worker' = [worker EXCEPT ![w] = s] /\ s.pc # "calling"
    BY <1>1, <1>5 DEF Doubt, WorkerState
  <2> QED
    BY <2>1
<1>6. ASSUME NEW p, NEW fenced, Enter(w, p, fenced)
      PROVE  \E s : worker' = [worker EXCEPT ![w] = s] /\ s.pc # "calling"
  <2> DEFINE s == [Idle EXCEPT !.pc = "start", !.fenced = fenced, !.plan = p,
                               !.step = 1, !.known = ckpt.completed]
  <2>1. worker' = [worker EXCEPT ![w] = s] /\ s.pc # "calling"
    BY <1>6 DEF Enter, Idle
  <2> QED
    BY <2>1
<1>7. ASSUME NEW kind, NEW completed, Again(w, kind, completed)
      PROVE  \/ Return(w)
             \/ Goto(w, "replan")
             \/ \E s : worker' = [worker EXCEPT ![w] = s] /\ s.pc # "calling"
  <2> DEFINE s == [worker[w] EXCEPT !.pc = "start", !.step = 1, !.known = completed,
                                    !.done = {}, !.row = None]
  <2>1. \/ Return(w)
        \/ Goto(w, "replan")
        \/ worker' = [worker EXCEPT ![w] = s]
    BY <1>1, <1>7 DEF Again
  <2>2. s.pc # "calling"
    BY <1>1 DEF WorkerState
  <2> QED
    BY <2>1, <2>2
<1>8. \A completed, reason, row : Park(w, completed, reason, row) => Return(w)
  BY DEF Park
<1>9. CASE \E s : worker' = [worker EXCEPT ![w] = s] /\ s.pc # "calling"
  BY <1>9, Leaves
<1>10. CASE UNCHANGED worker /\ worker[w].pc # "calling"
  BY <1>10 DEF Calling, Current
<1>11. "replan" \in Pc \ {"calling"}
  BY DEF Pc
<1> QED
  BY <1>2, <1>3, <1>4, <1>5, <1>6, <1>7, <1>8, <1>9, <1>10, <1>11

\* One step per action that touches a call, a row or an effect; all others are
\* quiet.
LEMMA AccountedStep ==
    ASSUME TypeOK, TypeOK', Accounted, [Next]_vars
    PROVE  Accounted'
<1> SUFFICES ASSUME NEW x \in Key
             PROVE  AccountedFor(x)'
  BY DEF Accounted
<1>1. /\ journal \in [Key -> {"none", "started", "completed", "no_effect"}]
      /\ worker \in [Worker -> WorkerState]
      /\ effects \in [Key -> Nat]
      /\ refuted \in [Key -> Nat]
  BY DEF TypeOK
<1>2. /\ IsFiniteSet(Calling(x))
      /\ Cardinality(Calling(x)) \in Nat
      /\ effects[x] + Cardinality(Calling(x)) <= Permitted(x)
      /\ AccountedFor(x)
  BY FS_CardinalityType DEF Accounted, AccountedFor
<1>3. Permitted(x) \in Nat /\ effects[x] \in Nat
  BY PermittedType
<1>4. UNCHANGED <<journal, refuted>> => Permitted(x) <= Permitted(x)'
  BY <1>3 DEF Permitted
<1>5. ASSUME Calling(x)' \subseteq Calling(x), UNCHANGED <<journal, effects, refuted>>
      PROVE  AccountedFor(x)'
  BY <1>2, <1>4, <1>5, Quiet
<1>6. UNCHANGED worker => Calling(x)' = Calling(x)
  BY DEF Calling, Current
<1>7. ASSUME NEW w \in Worker, Begin(w)
      PROVE  AccountedFor(x)'
  <2>1. \/ \E p, fenced : Enter(w, p, fenced)
        \/ UNCHANGED worker /\ worker[w].pc # "calling"
    BY <1>7 DEF Begin, Run, RunUnclaimed, Wake, Takeover, BeginPlan, BeginRetry
  <2>2. UNCHANGED <<journal, effects, refuted>>
    BY <1>7 DEF Begin, Run, RunUnclaimed, Wake, Takeover, World
  <2> QED
    BY <1>5, <2>1, <2>2, MovesLeave
<1>8. ASSUME NEW w \in Worker, Reserve(w)
      PROVE  AccountedFor(x)'
  <2>1. Current(w) \in Key /\ worker[w].pc = "step" /\ w \notin Calling(x)
    BY <1>8, WorkerFacts DEF Reserve, AtStep, Calling
  <2>2. UNCHANGED <<effects, refuted>>
    BY <1>8 DEF Reserve, World
  <2>3. CASE UNCHANGED journal
    <3>1. Pass(w) \/ \E y \in Key : Doubt(w, y)
      <4>1. Goto(w, "calling") => ~UNCHANGED journal \/ ~Reservable(Current(w))
                                   \/ journal' # [journal EXCEPT ![Current(w)] = "started"]
        BY <1>1, <2>1 DEF Reservable, Open
      <4> QED
        BY <1>8, <2>3, <4>1 DEF Reserve, Started
    <3> QED
      BY <1>5, <2>2, <2>3, <3>1, MovesLeave
  <2>4. CASE /\ Reservable(Current(w))
             /\ journal' = [journal EXCEPT ![Current(w)] = "started"]
             /\ Goto(w, "calling")
    <3>1. \A v \in Worker : worker'[v] =
                IF v = w THEN [worker[w] EXCEPT !.pc = "calling"] ELSE worker[v]
      BY <1>1, <2>4 DEF Goto
    <3>2. \A v \in Worker : Current(v)' = Current(v)
      <4>1. worker[w] \in WorkerState
        BY <1>1
      <4> QED
        BY <3>1, <4>1 DEF Current, WorkerState
    <3>3. \A v \in Worker : worker'[v].pc = IF v = w THEN "calling" ELSE worker[v].pc
      <4>1. worker[w] \in WorkerState
        BY <1>1
      <4> QED
        BY <3>1, <4>1 DEF WorkerState
    <3>4. CASE Current(w) # x
      <4>1. Calling(x)' = Calling(x)
        BY <2>1, <3>2, <3>3, <3>4 DEF Calling
      <4>2. Permitted(x)' = Permitted(x)
        BY <1>1, <2>2, <2>4, <3>4 DEF Permitted
      <4> QED
        BY <1>2, <1>3, <2>2, <4>1, <4>2, Quiet
    <3>5. CASE Current(w) = x
      <4>1. Calling(x)' = Calling(x) \cup {w}
        BY <3>2, <3>3, <3>5 DEF Calling
      <4>2. /\ IsFiniteSet(Calling(x)')
            /\ Cardinality(Calling(x)') = Cardinality(Calling(x)) + 1
        BY <1>2, <2>1, <4>1, FS_AddElement
      <4>3. Permitted(x)' = Permitted(x) + 1
        <5>1. journal[x] \notin {"started", "completed"} /\ journal'[x] = "started"
          BY <1>1, <2>4, <3>5 DEF Reservable, Open
        <5>2. refuted[x] \in Nat /\ refuted' = refuted
          BY <1>1, <2>2
        <5> QED
          BY <5>1, <5>2 DEF Permitted
      <4>4. effects' = effects
        BY <2>2
      <4>5. effects'[x] + Cardinality(Calling(x)') <= Permitted(x)'
        BY <1>2, <1>3, <4>2, <4>3, <4>4
      <4> QED
        BY <4>2, <4>5 DEF AccountedFor
    <3> QED
      BY <3>4, <3>5
  <2> QED
    BY <1>8, <2>3, <2>4 DEF Reserve
<1>9. ASSUME NEW w \in Worker, Call(w)
      PROVE  AccountedFor(x)'
  <2>1. worker[w].pc = "calling" /\ Current(w) \in Key
    BY <1>9, WorkerFacts DEF Call
  <2>2. Calling(x)' = Calling(x) \ {w}
    <3>1. {"returned", "failed"} \subseteq Pc \ {"calling"}
      BY DEF Pc
    <3>2. \/ \E pc \in Pc \ {"calling"} : Goto(w, pc)
          \/ \E y \in Key : Doubt(w, y)
      BY <1>9, <2>1, <3>1 DEF Call
    <3> QED
      BY <3>2, MovesLeave
  <2>3. UNCHANGED <<journal, refuted>>
    BY <1>9 DEF Call
  <2>4. CASE effects'[x] = effects[x]
    BY <1>2, <1>4, <2>2, <2>3, <2>4, Quiet
  <2>5. CASE effects'[x] # effects[x]
    <3>1. Current(w) = x /\ effects'[x] = effects[x] + 1
      BY <1>1, <1>9, <2>1, <2>5 DEF Call
    <3>2. w \in Calling(x)
      BY <2>1, <3>1 DEF Calling
    <3>3. /\ IsFiniteSet(Calling(x)')
          /\ Cardinality(Calling(x)') = Cardinality(Calling(x)) - 1
      BY <1>2, <2>2, <3>2, FS_RemoveElement
    <3>4. Permitted(x)' = Permitted(x)
      BY <2>3 DEF Permitted
    <3>5. effects'[x] + Cardinality(Calling(x)') <= Permitted(x)'
      BY <1>2, <1>3, <3>1, <3>3, <3>4
    <3> QED
      BY <3>3, <3>5 DEF AccountedFor
  <2> QED
    BY <2>4, <2>5
<1>10. ASSUME NEW w \in Worker, Complete(w)
       PROVE  AccountedFor(x)'
  <2>1. Current(w) \in Key /\ worker[w].pc = "returned"
    BY <1>10, WorkerFacts DEF Complete
  <2>2. Calling(x)' = Calling(x) \ {w}
    BY <1>10, <2>1, MovesLeave DEF Complete
  <2>3. UNCHANGED <<effects, refuted>>
    BY <1>10 DEF Complete
  <2>4. Permitted(x)' = Permitted(x)
    BY <1>1, <1>10, <2>1, <2>3 DEF Complete, Open, Permitted
  <2> QED
    BY <1>2, <1>3, <2>2, <2>3, <2>4, Quiet
<1>11. ASSUME NEW w \in Worker, Work(w) \/ Crash(w), ~Reserve(w), ~Call(w), ~Complete(w)
       PROVE  AccountedFor(x)'
  <2>1. UNCHANGED <<journal, effects, refuted>>
    BY <1>11 DEF Work, Crash, CheckPending, Skip, Read, Refuse, FailedTest,
                 Uncertain, Executed, Validated, Abort, Replan, World
  <2>2. {"step", "validating"} \subseteq Pc \ {"calling"}
    BY DEF Pc
  <2>3. \/ Return(w)
        \/ \E pc \in Pc \ {"calling"} : Goto(w, pc)
        \/ Pass(w)
        \/ \E y \in Key : Doubt(w, y)
        \/ \E p, fenced : Enter(w, p, fenced)
        \/ \E completed, reason, row : Park(w, completed, reason, row)
        \/ \E kind, completed : Again(w, kind, completed)
    BY <1>11, <2>2 DEF Work, Crash, CheckPending, Skip, Read, Refuse, FailedTest,
                 Uncertain, Executed, Validated, Abort, Replan, BeginPlan, Started
  <2> QED
    BY <1>5, <2>1, <2>3, MovesLeave
<1>12. CASE Others
  <2>1. UNCHANGED <<worker, effects>>
    BY <1>12 DEF Others, Confirm, Refute, Judge, Unblock, Cancel, World
  <2>2. Permitted(x)' = Permitted(x)
    <3>1. CASE Confirm
      BY <1>1, <3>1 DEF Confirm, CanDecide, Judge, Open, Permitted
    <3>2. CASE Refute
      <4>1. journal[AskedRow] = "started"
        BY <3>2 DEF Refute, CanDecide, Open
      <4> QED
        BY <1>1, <3>2, <4>1 DEF Refute, Judge, Permitted
    <3>3. CASE Unblock \/ Cancel
      BY <3>3 DEF Unblock, Cancel, World, Permitted
    <3> QED
      BY <1>12, <3>1, <3>2, <3>3 DEF Others
  <2> QED
    BY <1>2, <1>3, <1>6, <2>1, <2>2, Quiet
<1>13. CASE UNCHANGED vars
  BY <1>5, <1>6, <1>13 DEF vars
<1> QED
  BY <1>7, <1>8, <1>9, <1>10, <1>11, <1>12, <1>13 DEF Next

\* The account is in order at first.
LEMMA AccountedInit == Init => Accounted
<1> SUFFICES ASSUME Init, NEW x \in Key
             PROVE  AccountedFor(x)
  BY DEF Accounted
<1>1. Calling(x) = {}
  BY DEF Init, Calling, Idle
<1>2. effects[x] = 0 /\ refuted[x] = 0 /\ journal[x] = "none"
  BY DEF Init
<1> QED
  BY <1>1, <1>2, FS_EmptySet DEF AccountedFor, Permitted

\* A step of a plan takes effect once more only after a verdict that it did not,
\* also when calls of superseded workers land late.
THEOREM JournalNoBlindRepeat == Spec => []NoBlindRepeat
<1>1. TypeOK /\ TypeOK' /\ Accounted /\ [Next]_vars => Accounted'
  BY AccountedStep
<1>2. TypeOK /\ Accounted => NoBlindRepeat
  <2> SUFFICES ASSUME TypeOK, Accounted, NEW x \in Key
               PROVE  effects[x] <= 1 + refuted[x]
    BY DEF NoBlindRepeat
  <2>1. /\ Cardinality(Calling(x)) \in Nat
        /\ effects[x] + Cardinality(Calling(x)) <= Permitted(x)
    BY FS_CardinalityType DEF Accounted, AccountedFor
  <2>2. Permitted(x) <= 1 + refuted[x] /\ effects[x] \in Nat /\ Permitted(x) \in Nat
    BY PermittedType
  <2>3. refuted[x] \in Nat
    BY DEF TypeOK
  <2> QED
    BY <2>1, <2>2, <2>3
<1> QED
  BY <1>1, <1>2, AccountedInit, JournalTypeCorrect, PTL DEF Spec

----------------------------------------------------------------------------
(* At most one effect                                                      *)

\* A row that is not open had no effect or is completed; a call under way is the
\* only one, its row is open and there was no effect yet; a call that returned
\* had one.
Careful ==
    /\ \A x \in Key :
        /\ journal[x] \in {"none", "no_effect"} => effects[x] = 0
        /\ effects[x] <= 1
    /\ \A w \in Worker :
        /\ worker[w].pc = "calling" => Open(Current(w)) /\ effects[Current(w)] = 0
        /\ worker[w].pc = "returned" => effects[Current(w)] > 0
    /\ \A v, w \in Worker :
        worker[v].pc = "calling" /\ worker[w].pc = "calling" => v = w

Near == {"calling", "returned"}

\* Whoever stands before or behind a call stood there before.
Settled(v) == worker'[v].pc \in Near => worker'[v] = worker[v]

\* A worker that does not come near a call leaves the others where they are.
LEMMA GoesAway ==
    ASSUME TypeOK, NEW w \in Worker,
           \/ Return(w)
           \/ \E pc \in Pc \ Near : Goto(w, pc)
           \/ Pass(w)
           \/ \E x \in Key : Doubt(w, x)
           \/ \E p, fenced : Enter(w, p, fenced)
           \/ \E completed, reason, row : Park(w, completed, reason, row)
           \/ \E kind, completed : Again(w, kind, completed)
           \/ UNCHANGED worker
    PROVE  \A v \in Worker : Settled(v)
<1>1. worker \in [Worker -> WorkerState] /\ worker[w] \in WorkerState
  BY DEF TypeOK
<1>2. ASSUME Return(w) PROVE \A v \in Worker : Settled(v)
  BY <1>1, <1>2 DEF Return, Idle, Settled, Near
<1>3. ASSUME NEW pc \in Pc \ Near, Goto(w, pc) PROVE \A v \in Worker : Settled(v)
  BY <1>1, <1>3 DEF Goto, WorkerState, Settled
<1>4. ASSUME Pass(w) PROVE \A v \in Worker : Settled(v)
  BY <1>1, <1>4 DEF Pass, WorkerState, Settled, Near
<1>5. ASSUME NEW x \in Key, Doubt(w, x) PROVE \A v \in Worker : Settled(v)
  BY <1>1, <1>5 DEF Doubt, WorkerState, Settled, Near
<1>6. ASSUME NEW p, NEW fenced, Enter(w, p, fenced) PROVE \A v \in Worker : Settled(v)
  BY <1>1, <1>6 DEF Enter, Idle, Settled, Near
<1>7. ASSUME NEW kind, NEW completed, Again(w, kind, completed)
      PROVE  \A v \in Worker : Settled(v)
  <2>1. CASE Return(w)
    BY <1>2, <2>1
  <2>2. CASE Goto(w, "replan")
    BY <1>3, <2>2 DEF Pc, Near
  <2>3. CASE worker' = [worker EXCEPT ![w].pc = "start", ![w].step = 1,
                                      ![w].known = completed, ![w].done = {},
                                      ![w].row = None]
    BY <1>1, <2>3 DEF WorkerState, Settled, Near
  <2> QED
    BY <1>7, <2>1, <2>2, <2>3 DEF Again
<1>8. \A completed, reason, row : Park(w, completed, reason, row) => Return(w)
  BY DEF Park
<1> QED
  BY <1>2, <1>3, <1>4, <1>5, <1>6, <1>7, <1>8 DEF Settled

\* Every step but a reservation and the call itself.
LEMMA OthersSettle ==
    ASSUME TypeOK, NEW w \in Worker, Begin(w) \/ Work(w) \/ Crash(w),
           ~Reserve(w), ~Call(w)
    PROVE  UNCHANGED effects /\ \A v \in Worker : Settled(v)
<1>1. UNCHANGED effects
  BY DEF Begin, Work, Crash, Run, RunUnclaimed, Wake, Takeover, CheckPending, Skip, Read,
         Complete, Refuse, FailedTest, Uncertain, Executed, Validated, Abort, Replan, World
<1>2. {"step", "validating"} \subseteq Pc \ Near
  BY DEF Pc, Near
<1>3. CASE Begin(w)
  <2>1. (\E p, fenced : Enter(w, p, fenced)) \/ UNCHANGED worker
    BY <1>3 DEF Begin, Run, RunUnclaimed, Wake, Takeover, BeginPlan, BeginRetry
  <2> QED
    BY <1>1, <2>1, GoesAway
<1>4. CASE Complete(w)
  <2>1. Pass(w) \/ \E x \in Key : Doubt(w, x)
    BY <1>4, WorkerFacts DEF Complete
  <2> QED
    BY <1>1, <2>1, GoesAway
<1>5. CASE ~Begin(w) /\ ~Complete(w)
  <2>1. \/ Return(w)
        \/ \E pc \in Pc \ Near : Goto(w, pc)
        \/ Pass(w)
        \/ \E x \in Key : Doubt(w, x)
        \/ \E p, fenced : Enter(w, p, fenced)
        \/ \E completed, reason, row : Park(w, completed, reason, row)
        \/ \E kind, completed : Again(w, kind, completed)
    BY <1>2, <1>5 DEF Work, Crash, CheckPending, Skip, Read, Refuse, FailedTest,
                 Uncertain, Executed, Validated, Abort, Replan, BeginPlan, Started
  <2> QED
    BY <1>1, <2>1, GoesAway
<1> QED
  BY <1>3, <1>4, <1>5

\* Every step keeps Careful, if verdicts wait for the end of the call.
LEMMA CarefulStep ==
    ASSUME ~LateCalls, TypeOK, TypeOK', Careful, [Next]_vars
    PROVE  Careful'
<1>1. /\ journal \in [Key -> {"none", "started", "completed", "no_effect"}]
      /\ worker \in [Worker -> WorkerState]
      /\ effects \in [Key -> Nat]
  BY DEF TypeOK
<1>2. \A w \in Worker : worker[w].pc \in Near => Current(w) \in Key
  BY WorkerFacts DEF Near
<1>3. ASSUME UNCHANGED effects, \A v \in Worker : Settled(v),
             \A x \in Key : journal'[x] \in {"none", "no_effect"} => effects[x] = 0,
             \A w \in Worker : worker[w].pc = "calling" => journal'[Current(w)] = "started"
      PROVE  Careful'
  <2>1. \A v \in Worker : worker'[v].pc \in Near =>
          worker[v].pc = worker'[v].pc /\ Current(v)' = Current(v)
    BY <1>3 DEF Settled, Current
  <2> QED
    BY <1>3, <2>1 DEF Careful, Near, Open
<1>4. ASSUME NEW w \in Worker, Reserve(w) PROVE Careful'
  <2>1. Current(w) \in Key /\ worker[w].pc = "step"
    BY <1>4, WorkerFacts DEF Reserve, AtStep
  <2>2. UNCHANGED effects
    BY <1>4 DEF Reserve, World
  <2>3. CASE Pass(w) /\ UNCHANGED journal
    BY <1>3, <2>2, <2>3, GoesAway DEF Careful, Open
  <2>4. CASE UNCHANGED journal /\ \E y \in Key : Doubt(w, y)
    BY <1>3, <2>2, <2>4, GoesAway DEF Careful, Open
  <2>5. CASE /\ Reservable(Current(w))
             /\ journal' = [journal EXCEPT ![Current(w)] = "started"]
             /\ Goto(w, "calling")
    <3>1. \A v \in Worker : worker[v].pc # "calling"
      BY <1>2, <2>5 DEF Reservable, Started, Open, Careful, Near
    <3>2. effects[Current(w)] = 0
      BY <1>1, <2>1, <2>5 DEF Reservable, Open, Careful
    <3>3. /\ worker'[w].pc = "calling" /\ Current(w)' = Current(w)
          /\ \A v \in Worker \ {w} : worker'[v] = worker[v]
      BY <1>1, <2>5 DEF Goto, WorkerState, Current
    <3>4. \A x \in Key : journal'[x] \in {"none", "no_effect"} =>
                            journal[x] \in {"none", "no_effect"}
      BY <1>1, <2>1, <2>5
    <3>5. journal'[Current(w)] = "started"
      BY <1>1, <2>1, <2>5
    <3> QED
      BY <2>2, <3>1, <3>2, <3>3, <3>4, <3>5 DEF Careful, Open, Current
  <2> QED
    BY <1>4, <2>3, <2>4, <2>5 DEF Reserve, Started
<1>5. ASSUME NEW w \in Worker, Call(w) PROVE Careful'
  <2>1. Current(w) \in Key /\ worker[w].pc = "calling" /\ Open(Current(w))
        /\ effects[Current(w)] = 0 /\ UNCHANGED journal
    BY <1>2, <1>5 DEF Call, Careful, Near
  <2>2. \A v \in Worker \ {w} : worker[v].pc # "calling"
    BY <2>1 DEF Careful
  <2>3. /\ \A v \in Worker \ {w} : worker'[v] = worker[v]
        /\ worker'[w].pc \in {"returned", "uncertain", "failed"}
        /\ worker'[w].pc = "returned" =>
             Current(w)' = Current(w) /\ effects' = [effects EXCEPT ![Current(w)] = @ + 1]
    BY <1>1, <1>5 DEF Call, Goto, Doubt, WorkerState, Current
  <2>4. \/ UNCHANGED effects
        \/ effects' = [effects EXCEPT ![Current(w)] = 1]
    BY <1>5, <2>1 DEF Call
  <2>5. \A x \in Key : effects[x] \in Nat /\ effects[x] <= effects'[x]
                        /\ (effects'[x] = effects[x] \/ (x = Current(w) /\ effects'[x] = 1))
    BY <1>1, <2>1, <2>4
  <2>6. \A x \in Key : journal'[x] \in {"none", "no_effect"} => effects'[x] = 0
    BY <2>1, <2>5 DEF Careful, Open
  <2>7. \A x \in Key : effects'[x] <= 1
    BY <2>5 DEF Careful
  <2>8. \A v \in Worker : worker'[v].pc # "calling"
    BY <2>2, <2>3
  <2>9. \A v \in Worker : worker'[v].pc = "returned" => effects'[Current(v)'] > 0
    <3>1. ASSUME NEW v \in Worker \ {w}, worker'[v].pc = "returned"
          PROVE  effects'[Current(v)'] > 0
      <4>1. Current(v)' = Current(v) /\ Current(v) \in Key /\ effects[Current(v)] > 0
        BY <1>2, <2>3, <3>1 DEF Current, Careful, Near
      <4>2. effects'[Current(v)] \in Nat /\ effects'[Current(v)] >= effects[Current(v)]
        BY <2>5, <4>1 DEF TypeOK
      <4> QED
        BY <1>1, <4>1, <4>2
    <3>2. worker'[w].pc = "returned" => effects'[Current(w)'] > 0
      BY <1>1, <2>1, <2>3
    <3> QED
      BY <3>1, <3>2
  <2> QED
    BY <2>6, <2>7, <2>8, <2>9 DEF Careful
<1>6. ASSUME NEW w \in Worker, Begin(w) \/ Work(w) \/ Crash(w), ~Reserve(w), ~Call(w)
      PROVE  Careful'
  <2>1. UNCHANGED effects /\ \A v \in Worker : Settled(v)
    BY <1>6, OthersSettle
  <2>2. CASE UNCHANGED journal
    BY <1>3, <2>1, <2>2 DEF Careful, Open
  <2>3. CASE Complete(w) /\ journal' = [journal EXCEPT ![Current(w)] = "completed"]
    <3>1. worker[w].pc = "returned" /\ effects[Current(w)] > 0 /\ Current(w) \in Key
      BY <1>2, <2>3 DEF Complete, Careful, Near
    <3>2. \A v \in Worker : worker[v].pc = "calling" =>
             Current(v) # Current(w) /\ Current(v) \in Key
      BY <1>2, <3>1 DEF Careful, Near
    <3>3. \A v \in Worker : worker[v].pc = "calling" => journal'[Current(v)] = "started"
      BY <1>1, <2>3, <3>1, <3>2 DEF Careful, Open
    <3>4. \A x \in Key : journal'[x] \in {"none", "no_effect"} => effects[x] = 0
      BY <1>1, <2>3, <3>1 DEF Careful
    <3> QED
      BY <1>3, <2>1, <3>3, <3>4
  <2> QED
    BY <1>6, <2>2, <2>3 DEF Begin, Work, Crash, Run, RunUnclaimed, Wake, Takeover,
         CheckPending, Skip, Read, Complete, Refuse, FailedTest, Uncertain, Executed,
         Validated, Abort, Replan, World
<1>7. ASSUME Others PROVE Careful'
  <2>1. UNCHANGED <<worker, effects>>
    BY <1>7 DEF Others, Confirm, Refute, Judge, Unblock, Cancel, World
  <2>2. \A v \in Worker : Settled(v)
    BY <2>1 DEF Settled
  <2>3. CASE Confirm
    <3>1. /\ journal' = [journal EXCEPT ![AskedRow] = "completed"]
          /\ effects[AskedRow] > 0
      BY <2>3 DEF Confirm, Judge
    <3>2. \A v \in Worker : worker[v].pc = "calling" =>
             Current(v) # AskedRow /\ Current(v) \in Key
      BY <1>2, <3>1 DEF Careful, Near
    <3>3. \A v \in Worker : worker[v].pc = "calling" => journal'[Current(v)] = "started"
      BY <1>1, <3>1, <3>2 DEF Careful, Open
    <3>4. \A x \in Key : journal'[x] \in {"none", "no_effect"} => effects[x] = 0
      BY <1>1, <3>1 DEF Careful
    <3> QED
      BY <1>3, <2>1, <2>2, <3>3, <3>4
  <2>4. CASE Refute
    <3>1. /\ journal' = [journal EXCEPT ![AskedRow] = "no_effect"]
          /\ effects[AskedRow] = 0 /\ ~InCall(AskedRow)
      BY <2>4 DEF Refute, Judge
    <3>2. \A v \in Worker : worker[v].pc = "calling" =>
             Current(v) # AskedRow /\ Current(v) \in Key
      BY <1>2, <3>1 DEF InCall, Near
    <3>3. \A v \in Worker : worker[v].pc = "calling" => journal'[Current(v)] = "started"
      BY <1>1, <3>1, <3>2 DEF Careful, Open
    <3>4. \A x \in Key : journal'[x] \in {"none", "no_effect"} => effects[x] = 0
      BY <1>1, <3>1 DEF Careful
    <3> QED
      BY <1>3, <2>1, <2>2, <3>3, <3>4
  <2>5. CASE Unblock \/ Cancel
    <3>1. UNCHANGED journal
      BY <2>5 DEF Unblock, Cancel, World
    <3> QED
      BY <1>3, <2>1, <2>2, <3>1 DEF Careful, Open
  <2> QED
    BY <1>7, <2>3, <2>4, <2>5 DEF Others
<1>8. CASE UNCHANGED vars
  BY <1>8 DEF vars, Careful, Open, Current
<1> QED
  BY <1>4, <1>5, <1>6, <1>7, <1>8 DEF Next

\* When verdicts are only given about calls that are over, a step of a plan
\* takes effect at most once, through crashes, takeovers, retries and replans,
\* and even when workers without a claim take part.
THEOREM JournalEffectOnce ==
    ASSUME ~LateCalls
    PROVE  Spec => []EffectOnce
<1>1. Init => Careful
  BY DEF Init, Idle, Careful
<1>2. TypeOK /\ TypeOK' /\ Careful /\ [Next]_vars => Careful'
  BY CarefulStep
<1>3. Careful => EffectOnce
  BY DEF Careful, EffectOnce
<1> QED
  BY <1>1, <1>2, <1>3, JournalTypeCorrect, PTL DEF Spec

----------------------------------------------------------------------------
(* What a step of a worker does                                            *)

Alone(w) == \A v \in Worker : v # w => worker'[v] = worker[v]

\* The worker keeps its plan and its place in it.
Keeps(w) ==
    /\ worker'[w].fenced = worker[w].fenced /\ worker'[w].plan = worker[w].plan
    /\ worker'[w].step = worker[w].step
    /\ worker'[w].known = worker[w].known /\ worker'[w].done = worker[w].done

\* The loop goes on behind a step that needs no call any more.
Passes(w) ==
    /\ Alone(w) /\ worker[w].pc \in {"step", "returned"} /\ worker'[w].pc = "step"
    /\ worker[w].step \in Step /\ worker'[w].step = worker[w].step + 1
    /\ worker'[w].done = worker[w].done \cup {worker[w].step}
    /\ worker'[w].known = worker[w].known
    /\ worker'[w].fenced = worker[w].fenced /\ worker'[w].plan = worker[w].plan
    /\ UNCHANGED <<task, ckpt>>
    /\ performed \subseteq performed' /\ performed' \subseteq performed \cup {Current(w)}
    /\ \/ /\ worker[w].pc = "step" /\ UNCHANGED journal
          /\ KindOf(w) = "read" \/ performed' = performed
          /\ \/ worker[w].step \in worker[w].known
             \/ journal[Current(w)] = "completed"
             \/ Current(w) \in performed'
       \/ /\ journal' = [journal EXCEPT ![Current(w)] = "completed"]
          /\ Current(w) \in performed' /\ Open(Current(w)) /\ Owner(w)

\* The call ends, or its process.
Quits(w) ==
    /\ Alone(w) /\ worker'[w] = Idle
    /\ UNCHANGED <<task, ckpt, journal, performed>>

\* The worker looks at the journal, or its call comes back.
Looks(w) ==
    /\ Alone(w) /\ Keeps(w) /\ UNCHANGED <<task, ckpt, journal, performed>>
    /\ worker[w].pc \notin {"idle", "replan"}
    /\ \/ worker'[w].pc = "step" /\ Started = {}
       \/ worker'[w].pc = "uncertain" /\ worker'[w].row \in Started
       \/ /\ worker[w].pc \in Near /\ worker'[w].pc = "uncertain"
          /\ worker'[w].row = Current(w)
       \/ worker[w].pc = "calling" /\ worker'[w].pc \in {"returned", "failed"}

Opens(w) ==
    /\ Alone(w) /\ Keeps(w) /\ UNCHANGED <<task, ckpt, performed>>
    /\ worker[w].pc = "step" /\ worker'[w].pc = "calling"
    /\ Current(w) \in Key /\ Owner(w) /\ task.status = "executing" /\ Started = {}
    /\ journal' = [journal EXCEPT ![Current(w)] = "started"]

\* What a worker knows after a local move, and that nobody else moves.
LEMMA MoveFacts ==
    ASSUME TypeOK, NEW w \in Worker
    PROVE  /\ Return(w) => Alone(w) /\ worker'[w] = Idle
           /\ \A pc : Goto(w, pc) => Alone(w) /\ Keeps(w) /\ worker'[w].pc = pc
           /\ \A x : Doubt(w, x) => /\ Alone(w) /\ Keeps(w)
                                    /\ worker'[w].pc = "uncertain" /\ worker'[w].row = x
           /\ Pass(w) => /\ Alone(w) /\ worker'[w].pc = "step"
                         /\ worker'[w].step = worker[w].step + 1
                         /\ worker'[w].done = worker[w].done \cup {worker[w].step}
                         /\ worker'[w].known = worker[w].known
                         /\ worker'[w].fenced = worker[w].fenced
                         /\ worker'[w].plan = worker[w].plan
<1>1. worker \in [Worker -> WorkerState] /\ worker[w] \in WorkerState
  BY DEF TypeOK
<1>2. Return(w) => Alone(w) /\ worker'[w] = Idle
  BY <1>1 DEF Return, Alone
<1>3. \A pc : Goto(w, pc) => Alone(w) /\ Keeps(w) /\ worker'[w].pc = pc
  BY <1>1 DEF Goto, Alone, Keeps, WorkerState
<1>4. \A x : Doubt(w, x) => /\ Alone(w) /\ Keeps(w)
                            /\ worker'[w].pc = "uncertain" /\ worker'[w].row = x
  BY <1>1 DEF Doubt, Alone, Keeps, WorkerState
<1>5. Pass(w) => /\ Alone(w) /\ worker'[w].pc = "step"
                 /\ worker'[w].step = worker[w].step + 1
                 /\ worker'[w].done = worker[w].done \cup {worker[w].step}
                 /\ worker'[w].known = worker[w].known
                 /\ worker'[w].fenced = worker[w].fenced
                 /\ worker'[w].plan = worker[w].plan
  BY <1>1 DEF Pass, Alone, WorkerState
<1> QED
  BY <1>2, <1>3, <1>4, <1>5

\* A step of the loop passes a step of the plan, looks, opens a row or ends.
LEMMA LoopStep ==
    ASSUME TypeOK, NEW w \in Worker,
           \/ CheckPending(w) \/ Skip(w) \/ Read(w) \/ Reserve(w) \/ Call(w)
           \/ Complete(w) \/ Abort(w) \/ Crash(w)
    PROVE  Passes(w) \/ Quits(w) \/ Looks(w) \/ Opens(w)
<1>1. CASE CheckPending(w)
  BY <1>1, MoveFacts DEF CheckPending, Looks, World
<1>2. CASE Skip(w)
  BY <1>2, MoveFacts DEF Skip, AtStep, Passes, World
<1>3. CASE Read(w)
  BY <1>3, MoveFacts DEF Read, AtStep, Passes
<1>4. CASE Reserve(w)
  <2>1. /\ worker[w].pc = "step" /\ worker[w].step \in Step /\ Owner(w)
        /\ Current(w) \in Key /\ task.status = "executing"
        /\ UNCHANGED <<task, ckpt, performed>>
    BY <1>4, WorkerFacts DEF Reserve, AtStep, World
  <2>2. CASE journal[Current(w)] = "completed" /\ Pass(w) /\ UNCHANGED journal
    BY <2>1, <2>2, MoveFacts DEF Passes
  <2>3. CASE /\ Reservable(Current(w)) /\ Goto(w, "calling")
             /\ journal' = [journal EXCEPT ![Current(w)] = "started"]
    BY <2>1, <2>3, MoveFacts DEF Opens, Reservable
  <2>4. CASE UNCHANGED journal /\ \E y \in Started : Doubt(w, y)
    BY <2>1, <2>4, MoveFacts DEF Looks
  <2> QED
    BY <1>4, <2>2, <2>3, <2>4 DEF Reserve
<1>5. CASE Call(w)
  <2>1. \/ Goto(w, "returned") \/ Goto(w, "failed") \/ Doubt(w, Current(w))
    BY <1>5 DEF Call
  <2> QED
    BY <1>5, <2>1, MoveFacts DEF Call, Looks, Near
<1>6. CASE Complete(w)
  <2>1. worker[w].pc = "returned" /\ worker[w].step \in Step /\ Owner(w)
    BY <1>6 DEF Complete, TypeOK, WorkerState
  <2>2. CASE /\ Open(Current(w)) /\ Pass(w)
             /\ journal' = [journal EXCEPT ![Current(w)] = "completed"]
             /\ performed' = performed \cup {Current(w)}
    BY <1>6, <2>1, <2>2, MoveFacts DEF Complete, Passes
  <2>3. CASE Doubt(w, Current(w)) /\ UNCHANGED <<journal, performed>>
    BY <1>6, <2>1, <2>3, MoveFacts DEF Complete, Looks, Near
  <2> QED
    BY <1>6, <2>2, <2>3 DEF Complete
<1>7. CASE Abort(w) \/ Crash(w)
  BY <1>7, MoveFacts DEF Abort, Crash, Quits, World
<1> QED
  BY <1>1, <1>2, <1>3, <1>4, <1>5, <1>6, <1>7

Decides(w) == worker[w].pc # "idle" /\ Owner(w) /\ task.runner = w

\* A worker claims the task: with the plan of the checkpoint, or with a new one
\* where none is on record or the one on record is to be replaced.
Begins(w) ==
    /\ Alone(w) /\ UNCHANGED <<journal, performed>>
    /\ task'.status = "executing" /\ task'.owner = w /\ task'.runner = w
    /\ worker'[w].pc = "start" /\ worker'[w].fenced = TRUE
    /\ worker'[w].step = 1 /\ worker'[w].done = {}
    /\ worker'[w].known = ckpt.completed /\ worker'[w].plan = ckpt'.plan
    /\ \/ UNCHANGED ckpt /\ (ckpt.kind # "replan" \/ ckpt.reason # "none")
       \/ /\ ckpt'.kind = "plan" /\ ckpt'.completed = {} /\ ckpt'.reason = "none"
          /\ \/ task.status = "ready"
             \/ ckpt.kind = "plan" /\ ~HasRows(ckpt.plan)
             \/ ckpt.kind = "replan"
             \/ worker[w].pc = "replan" /\ Decides(w)

\* A worker without a claim makes a new plan: run() on a waiting task while the
\* journal is empty, or the planner in a later cycle of such a run.
Joins(w) ==
    /\ Alone(w) /\ UNCHANGED <<journal, performed>>
    /\ task'.status = "executing" /\ task'.owner = task.owner /\ task'.runner = w
    /\ worker'[w].pc = "start" /\ worker'[w].fenced = FALSE
    /\ worker'[w].step = 1 /\ worker'[w].done = {}
    /\ worker'[w].known = ckpt.completed /\ worker'[w].plan = ckpt'.plan
    /\ ckpt'.kind = "plan" /\ ckpt'.completed = {} /\ ckpt'.reason = "none"
    /\ \/ RunWaiting /\ task.status = "waiting" /\ NoRows
       \/ worker[w].pc = "replan" /\ worker[w].fenced = FALSE /\ Decides(w)

Suspends ==
    /\ task'.status = "waiting" /\ task'.owner = None /\ task'.runner = None
    /\ UNCHANGED <<ckpt, worker, journal, performed>>

\* The task ends or waits.
Closes(w) ==
    /\ Decides(w) /\ Alone(w) /\ worker'[w] = Idle
    /\ UNCHANGED <<journal, performed>>
    /\ task'.status # "ready" /\ task'.owner = None /\ task'.runner = None
    /\ \/ UNCHANGED ckpt
       \/ /\ ckpt'.kind = "wait" /\ ckpt'.plan = worker[w].plan
          /\ ckpt'.completed \in {worker[w].done, {}}
          /\ ckpt'.reason = "unknown" =>
                worker[w].pc = "uncertain" /\ ckpt'.row = worker[w].row

\* The same worker goes on.
GoesOn(w) ==
    /\ Decides(w) /\ Alone(w)
    /\ UNCHANGED <<journal, performed>>
    /\ task'.status \in {"executing", "validating"} /\ UNCHANGED <<task.owner, task.runner>>
    /\ ckpt'.plan = worker[w].plan /\ ckpt'.reason = "none"
    /\ worker'[w].fenced = worker[w].fenced /\ worker'[w].plan = worker[w].plan
    /\ \/ /\ ckpt'.kind = "retry" /\ ckpt'.completed \in {worker[w].done, {}}
          /\ worker'[w].pc = "start" /\ worker'[w].step = 1
          /\ worker'[w].known = ckpt'.completed /\ worker'[w].done = {}
       \/ /\ ckpt'.kind = "replan" /\ ckpt'.completed = {}
          /\ worker[w].pc \in {"step", "validating"}
          /\ worker'[w].pc = "replan" /\ Keeps(w)
       \/ /\ ckpt'.kind = "validate" /\ ckpt'.completed = {}
          /\ worker[w].pc = "step" /\ worker[w].step = Steps + 1
          /\ worker'[w].pc = "validating" /\ Keeps(w)

\* What a worker knows when its execution begins.
LEMMA EnterFacts ==
    ASSUME TypeOK, NEW w \in Worker, NEW p, NEW fenced \in BOOLEAN, Enter(w, p, fenced)
    PROVE  /\ Alone(w)
           /\ task'.status = "executing" /\ task'.runner = w
           /\ task'.owner = IF fenced THEN w ELSE task.owner
           /\ worker'[w].pc = "start" /\ worker'[w].fenced = fenced
           /\ worker'[w].step = 1 /\ worker'[w].done = {}
           /\ worker'[w].known = ckpt.completed /\ worker'[w].plan = p
BY DEF TypeOK, Enter, Alone, Idle

\* A new plan is made by a worker with a claim, or by one without.
LEMMA NewPlan ==
    ASSUME TypeOK, NEW w \in Worker, NEW p, NEW fenced \in BOOLEAN, BeginPlan(w, p, fenced),
           UNCHANGED <<journal, performed>>
    PROVE  /\ fenced /\ \/ task.status = "ready"
                        \/ ckpt.kind = "plan" /\ ~HasRows(ckpt.plan)
                        \/ ckpt.kind = "replan"
                        \/ worker[w].pc = "replan" /\ Decides(w)
             => Begins(w)
           /\ ~fenced /\ \/ RunWaiting /\ task.status = "waiting" /\ NoRows
                         \/ /\ worker[w].pc = "replan" /\ worker[w].fenced = FALSE
                            /\ Decides(w)
             => Joins(w)
<1>1. /\ ckpt'.kind = "plan" /\ ckpt'.completed = {} /\ ckpt'.reason = "none"
      /\ ckpt'.plan = p
  BY DEF BeginPlan, NoCheckpoint
<1>2. Enter(w, p, fenced)
  BY DEF BeginPlan
<1>3. CASE fenced = TRUE
  BY <1>1, <1>2, <1>3, EnterFacts DEF Begins
<1>4. CASE fenced = FALSE
  BY <1>1, <1>2, <1>4, EnterFacts DEF Joins
<1> QED
  BY <1>3, <1>4

\* The ways in which an execution begins.
LEMMA BeginStep ==
    ASSUME TypeOK, NEW w \in Worker, Begin(w) \/ \E p \in Plan : Replan(w, p)
    PROVE  Begins(w) \/ Joins(w) \/ Suspends
<1>1. ASSUME BeginRetry(w), UNCHANGED <<journal, performed>>,
             ckpt.kind # "replan" \/ ckpt.reason # "none"
      PROVE  Begins(w)
  BY <1>1, EnterFacts DEF BeginRetry, Begins
<1>2. CASE \E p \in Plan : Run(w, p)
  BY <1>2, NewPlan DEF Run, World
<1>3. CASE \E p \in Plan : RunUnclaimed(w, p)
  BY <1>3, NewPlan DEF RunUnclaimed, World
<1>4. CASE Wake(w)
  BY <1>1, <1>4 DEF Wake, WaitOver, World
<1>5. CASE Takeover(w)
  <2>1. UNCHANGED <<journal, performed>>
    BY <1>5 DEF Takeover, World
  <2>2. CASE ckpt.kind = "plan" /\ ~HasRows(ckpt.plan) /\ \E p \in Plan : BeginPlan(w, p, TRUE)
    BY <2>1, <2>2, NewPlan
  <2>3. CASE ckpt.kind = "replan" /\ \E p \in Plan : BeginPlan(w, p, TRUE)
    BY <2>1, <2>3, NewPlan
  <2>4. CASE ckpt.kind \in {"plan", "retry", "wait"} /\ BeginRetry(w)
    BY <1>1, <2>1, <2>4
  <2>5. CASE /\ task' = [status |-> "waiting", owner |-> None, runner |-> None]
             /\ UNCHANGED <<ckpt, worker>>
    BY <2>1, <2>5 DEF Suspends
  <2> QED
    BY <1>5, <2>2, <2>3, <2>4, <2>5 DEF Takeover
<1>6. CASE \E p \in Plan : Replan(w, p)
  <2>1. PICK p \in Plan : Replan(w, p)
    BY <1>6
  <2>2. /\ worker[w].fenced \in BOOLEAN /\ UNCHANGED <<journal, performed>>
        /\ BeginPlan(w, p, worker[w].fenced) /\ worker[w].pc = "replan" /\ Decides(w)
    BY <2>1, WorkerFacts DEF Replan, Decides, CanCommit, World
  <2>3. CASE worker[w].fenced = TRUE
    BY <2>2, <2>3, NewPlan
  <2>4. CASE worker[w].fenced = FALSE
    BY <2>2, <2>4, NewPlan
  <2> QED
    BY <2>2, <2>3, <2>4
<1> QED
  BY <1>2, <1>3, <1>4, <1>5, <1>6 DEF Begin

\* The ways in which the next cycle begins.
LEMMA AgainStep ==
    ASSUME TypeOK, NEW w \in Worker, Decides(w), NEW kind \in {"retry", "replan"},
           NEW completed \in {worker[w].done, {}}, kind = "replan" => completed = {},
           kind = "replan" => worker[w].pc \in {"step", "validating"},
           Again(w, kind, completed), UNCHANGED <<journal, performed>>
    PROVE  Closes(w) \/ GoesOn(w)
<1>1. task \in Task /\ worker \in [Worker -> WorkerState] /\ worker[w] \in WorkerState
  BY DEF TypeOK
<1>2. CASE Exhausted
  BY <1>2, MoveFacts DEF Again, Ended, Closes
<1>3. CASE ~Exhausted
  <2>1. /\ ckpt'.kind = kind /\ ckpt'.plan = worker[w].plan /\ ckpt'.reason = "none"
        /\ ckpt'.completed = completed
        /\ task'.status = "executing" /\ task'.owner = task.owner
        /\ task'.runner = task.runner
    BY <1>1, <1>3 DEF Again, NoCheckpoint, Task
  <2>2. CASE kind = "retry"
    <3>1. worker' = [worker EXCEPT ![w].pc = "start", ![w].step = 1,
                                   ![w].known = completed, ![w].done = {}, ![w].row = None]
      BY <1>3, <2>2 DEF Again
    <3>2. /\ Alone(w) /\ worker'[w].fenced = worker[w].fenced
          /\ worker'[w].plan = worker[w].plan
          /\ worker'[w].pc = "start" /\ worker'[w].step = 1
          /\ worker'[w].known = completed /\ worker'[w].done = {}
      BY <1>1, <3>1 DEF Alone, WorkerState
    <3> QED
      BY <2>1, <2>2, <3>2 DEF GoesOn
  <2>3. CASE kind = "replan"
    <3>1. Goto(w, "replan")
      BY <1>3, <2>3 DEF Again
    <3> QED
      BY <2>1, <2>3, <3>1, MoveFacts DEF GoesOn, Keeps
  <2> QED
    BY <2>2, <2>3
<1> QED
  BY <1>2, <1>3

\* Each decision lets the worker go on, or the task end or wait.
LEMMA DecideStep ==
    ASSUME TypeOK, NEW w \in Worker,
           Refuse(w) \/ FailedTest(w) \/ Uncertain(w) \/ Executed(w) \/ Validated(w)
    PROVE  Closes(w) \/ GoesOn(w)
<1>1. UNCHANGED <<journal, performed>> /\ Decides(w) /\ task \in Task
  BY DEF Refuse, FailedTest, Uncertain, Executed, Validated, World, Decides, CanCommit,
         AtStep, TypeOK
<1>2. ASSUME NEW completed \in {worker[w].done, {}}, NEW reason, NEW row,
             reason = "unknown" => worker[w].pc = "uncertain" /\ row = worker[w].row,
             Park(w, completed, reason, row)
      PROVE  Closes(w)
  BY <1>1, <1>2, MoveFacts DEF Park, Closes
<1>3. ASSUME Ended, Return(w), UNCHANGED ckpt PROVE Closes(w)
  BY <1>1, <1>3, MoveFacts DEF Ended, Closes
<1>4. CASE Refuse(w)
  <2>1. worker[w].pc = "step"
    BY <1>4 DEF Refuse, AtStep
  <2>2. CASE Park(w, worker[w].done, "blocked", None)
    BY <1>2, <2>2
  <2>3. CASE Ended /\ Return(w) /\ UNCHANGED ckpt
    BY <1>3, <2>3
  <2>4. CASE Again(w, "retry", Kept(w, "retry"))
    BY <1>1, <2>4, AgainStep DEF Kept
  <2>5. CASE Again(w, "replan", Kept(w, "replan"))
    BY <1>1, <2>1, <2>5, AgainStep DEF Kept
  <2> QED
    BY <1>4, <2>2, <2>3, <2>4, <2>5 DEF Refuse
<1>5. CASE FailedTest(w)
  BY <1>1, <1>5, AgainStep DEF FailedTest, Kept
<1>6. CASE Uncertain(w)
  BY <1>2, <1>6 DEF Uncertain
<1>7. CASE Executed(w)
  <2>1. /\ ckpt'.kind = "validate" /\ ckpt'.plan = worker[w].plan
        /\ ckpt'.completed = {} /\ ckpt'.reason = "none"
    BY <1>7 DEF Executed, NoCheckpoint
  <2>2. /\ task'.status = "validating" /\ task'.owner = task.owner
        /\ task'.runner = task.runner
    BY <1>1, <1>7 DEF Executed, Task
  <2>3. Alone(w) /\ Keeps(w) /\ worker'[w].pc = "validating"
    BY <1>7, MoveFacts DEF Executed
  <2> QED
    BY <1>1, <1>7, <2>1, <2>2, <2>3 DEF Executed, GoesOn, Keeps
<1>8. CASE Validated(w)
  <2>1. worker[w].pc = "validating"
    BY <1>8 DEF Validated
  <2>2. CASE Ended /\ Return(w) /\ UNCHANGED ckpt
    BY <1>3, <2>2
  <2>3. CASE \E reason \in {"auto", "blocked"} : Park(w, {}, reason, None)
    BY <1>2, <2>3
  <2>4. CASE Again(w, "retry", {}) \/ Again(w, "replan", {})
    BY <1>1, <2>1, <2>4, AgainStep
  <2> QED
    BY <1>8, <2>2, <2>3, <2>4 DEF Validated
<1> QED
  BY <1>4, <1>5, <1>6, <1>7, <1>8

WorkerStep(w) ==
    \/ Passes(w) \/ Quits(w) \/ Looks(w) \/ Opens(w)
    \/ Begins(w) \/ Joins(w) \/ Suspends \/ Closes(w) \/ GoesOn(w)

\* Each action of a worker is one of these steps.
LEMMA WorkerSteps ==
    ASSUME TypeOK, NEW w \in Worker, Begin(w) \/ Work(w) \/ Crash(w)
    PROVE  WorkerStep(w)
<1>1. CASE \/ CheckPending(w) \/ Skip(w) \/ Read(w) \/ Reserve(w) \/ Call(w)
           \/ Complete(w) \/ Abort(w) \/ Crash(w)
  BY <1>1, LoopStep DEF WorkerStep
<1>2. CASE Begin(w) \/ \E p \in Plan : Replan(w, p)
  BY <1>2, BeginStep DEF WorkerStep
<1>3. CASE Refuse(w) \/ FailedTest(w) \/ Uncertain(w) \/ Executed(w) \/ Validated(w)
  BY <1>3, DecideStep DEF WorkerStep
<1> QED
  BY <1>1, <1>2, <1>3 DEF Work

\* A verdict about the open row that the wait asks about.
Judges ==
    /\ UNCHANGED <<task, ckpt, worker>>
    /\ AskedRow \in Key /\ Open(AskedRow)
    /\ performed \subseteq performed' /\ performed' \subseteq performed \cup {AskedRow}
    /\ \/ journal' = [journal EXCEPT ![AskedRow] = "no_effect"]
       \/ journal' = [journal EXCEPT ![AskedRow] = "completed"] /\ AskedRow \in performed'

\* The task is cancelled, its blocker is removed, or nothing happens.
Rests ==
    /\ UNCHANGED <<journal, worker, performed>>
    /\ UNCHANGED <<ckpt.kind, ckpt.plan, ckpt.completed, ckpt.reason, ckpt.row>>
    /\ \/ UNCHANGED task
       \/ task'.status # "ready" /\ task'.owner = None /\ task'.runner = None

\* What people do is a verdict, or leaves rows and plans alone.
LEMMA OtherSteps ==
    ASSUME TypeOK, Others \/ UNCHANGED vars
    PROVE  Judges \/ Rests
<1>1. ckpt \in Checkpoint
  BY DEF TypeOK
<1>2. CASE Confirm \/ Refute
  <2>1. AskedRow \in Key
    BY <1>1, <1>2 DEF Confirm, Refute, CanDecide, AskedRow, Checkpoint
  <2> QED
    BY <1>2, <2>1 DEF Confirm, Refute, CanDecide, Judge, Judges
<1>3. CASE Unblock
  BY <1>1, <1>3 DEF Unblock, World, Rests, Checkpoint
<1>4. CASE Cancel \/ UNCHANGED vars
  BY <1>4 DEF Cancel, Ended, World, Rests, vars
<1> QED
  BY <1>2, <1>3, <1>4 DEF Others

----------------------------------------------------------------------------
(* What is skipped was done                                                *)

\* What has an effect succeeded only with a row in the journal, and rows stay.
Called ==
    \A x \in Key : x \in performed => Kind[x[1]][x[2]] = "read" \/ journal[x] # "none"

\* Every step keeps the rows of what was called.
LEMMA CalledStep ==
    ASSUME TypeOK, Called, [Next]_vars
    PROVE  Called'
<1>1. journal \in [Key -> {"none", "started", "completed", "no_effect"}]
  BY DEF TypeOK
<1>2. CASE UNCHANGED <<journal, performed>>
  BY <1>2 DEF Called
<1>3. ASSUME NEW w \in Worker, Passes(w) PROVE Called'
  <2>1. CASE UNCHANGED journal /\ (KindOf(w) = "read" \/ performed' = performed)
    BY <1>3, <2>1 DEF Passes, Called, Current, KindOf
  <2>2. CASE journal' = [journal EXCEPT ![Current(w)] = "completed"]
    BY <1>1, <1>3, <2>2 DEF Passes, Called
  <2> QED
    BY <1>3, <2>1, <2>2 DEF Passes
<1>4. ASSUME NEW w \in Worker, Opens(w) PROVE Called'
  BY <1>1, <1>4 DEF Opens, Called
<1>5. ASSUME Judges PROVE Called'
  BY <1>1, <1>5 DEF Judges, Called
<1>6. ASSUME NEW w \in Worker, WorkerStep(w), ~Passes(w), ~Opens(w)
      PROVE  UNCHANGED <<journal, performed>>
  BY <1>6 DEF WorkerStep, Quits, Looks, Begins, Joins, Suspends, Closes, GoesOn
<1>7. CASE \E w \in Worker : Begin(w) \/ Work(w) \/ Crash(w)
  BY <1>2, <1>3, <1>4, <1>6, <1>7, WorkerSteps
<1>8. CASE Others \/ UNCHANGED vars
  BY <1>2, <1>5, <1>8, OtherSteps DEF Rests
<1> QED
  BY <1>7, <1>8 DEF Next

\* What ExecutedMeansPerformed asks of a step.
Done(p, i) == <<p, i>> \in performed \/ (RunWaiting /\ ReadBefore(i))

\* Whatever journal, checkpoint and workers take for done was done.  A checkpoint
\* that lets another plan begin lists nothing, but for a run that begins in a
\* wait.
Proven ==
    /\ \A x \in Key : journal[x] = "completed" => x \in performed
    /\ \A i \in ckpt.completed : Done(ckpt.plan, i)
    /\ ckpt.kind \in {"none", "plan", "replan", "validate"} => ckpt.completed = {}
    /\ task.status = "ready" => ckpt.completed = {}
    /\ ExecutedMeansPerformed
    /\ \A w \in Worker :
        /\ \A i \in worker[w].known \cup worker[w].done : Done(worker[w].plan, i)
        /\ \A i \in 1 .. (worker[w].step - 1) : i \in worker[w].done
        /\ worker[w].pc = "replan" /\ task.runner = w => ckpt.completed = {}

\* What was read stays read.
LEMMA ReadStays ==
    ASSUME performed \subseteq performed'
    PROVE  \A i : ReadBefore(i) => ReadBefore(i)'
BY DEF ReadBefore

\* A run that begins in a wait finds an empty journal, so what it takes over from
\* the checkpoint was only read.
LEMMA TakenOver ==
    ASSUME TypeOK, Called, Proven, NEW w \in Worker, Joins(w)
    PROVE  \A i \in ckpt.completed : RunWaiting /\ ReadBefore(i)
<1>1. CASE worker[w].pc = "replan" /\ Decides(w)
  BY <1>1 DEF Proven, Decides
<1>2. CASE RunWaiting /\ NoRows
  <2> SUFFICES ASSUME NEW i \in ckpt.completed, <<ckpt.plan, i>> \in performed
               PROVE  ReadBefore(i)
    BY <1>2 DEF Proven, Done
  <2>1. ckpt.plan \in Plan /\ i \in Step /\ <<ckpt.plan, i>> \in Key
    BY DEF TypeOK, Key
  <2>2. journal[<<ckpt.plan, i>>] = "none"
    BY <1>2, <2>1 DEF NoRows, HasRows
  <2> QED
    BY <2>1, <2>2 DEF Called, ReadBefore
<1> QED
  BY <1>1, <1>2 DEF Joins

\* A step of a worker takes nothing for done that was not.
LEMMA ProvenWorker ==
    ASSUME TypeOK, Called, Proven, NEW w \in Worker, WorkerStep(w)
    PROVE  Proven'
<1>1. /\ journal \in [Key -> {"none", "started", "completed", "no_effect"}]
      /\ worker[w] \in WorkerState /\ None \notin Worker /\ Steps \in Nat
      /\ worker[w].pc \in {"step", "returned"} => worker[w].step \in Nat
  BY NoneAssumption, LimitsAssumption DEF TypeOK, WorkerState
<1>2. \A i : ReadBefore(i) => ReadBefore(i)'
  <2>1. performed \subseteq performed'
    BY DEF WorkerStep, Passes, Quits, Looks, Opens, Begins, Joins, Suspends, Closes, GoesOn
  <2> QED
    BY <2>1, ReadStays
<1>3. CASE Passes(w)
  <2>1. Current(w) \in performed' \/ worker[w].step \in worker[w].known
    <3>1. worker[w].plan \in Plan /\ Current(w) \in Key
      BY <1>3, WorkerFacts DEF Passes, Current, Key
    <3> QED
      BY <1>3, <3>1 DEF Passes, Proven
  <2>2. \A x \in Key : journal'[x] = "completed" => x \in performed'
    BY <1>1, <1>3, <2>1 DEF Passes, Proven
  <2>3. performed \subseteq performed' /\ task' = task /\ ckpt' = ckpt
    BY <1>3 DEF Passes
  <2>4. \A i \in worker'[w].known \cup worker'[w].done : Done(worker[w].plan, i)'
    BY <1>2, <1>3, <2>1, <2>3 DEF Passes, Current, Proven, Done
  <2>5. \A i \in 1 .. (worker'[w].step - 1) : i \in worker'[w].done
    BY <1>1, <1>3 DEF Passes, Proven
  <2>6. worker'[w].pc # "replan"
    BY <1>3 DEF Passes
  <2>7. \A v \in Worker \ {w} : worker'[v] = worker[v]
    BY <1>3 DEF Passes, Alone
  <2> QED
    BY <1>2, <2>2, <2>3, <2>4, <2>5, <2>6, <2>7 DEF Proven, Done, ExecutedMeansPerformed
<1>4. CASE Quits(w)
  BY <1>2, <1>4 DEF Quits, Alone, Idle, Proven, Done, ExecutedMeansPerformed
<1>5. CASE Looks(w) \/ Opens(w)
  <2>1. \A x \in Key : journal'[x] = "completed" => journal[x] = "completed"
    BY <1>1, <1>5 DEF Looks, Opens
  <2>2. /\ UNCHANGED <<task, ckpt, performed>> /\ Alone(w) /\ Keeps(w)
        /\ worker'[w].pc # "replan"
    BY <1>5 DEF Looks, Opens
  <2> QED
    BY <1>2, <2>1, <2>2 DEF Alone, Keeps, Proven, Done, ExecutedMeansPerformed
<1>6. CASE Begins(w)
  <2>1. ckpt' # ckpt => ckpt.completed = {}
    BY <1>6 DEF Begins, Proven, Decides
  <2>2. \A v \in Worker \ {w} : worker'[v] = worker[v] /\ task'.runner # v
    BY <1>6 DEF Begins, Alone
  <2> QED
    BY <1>2, <1>6, <2>1, <2>2 DEF Begins, Proven, Done, ExecutedMeansPerformed
<1>7. CASE Joins(w)
  <2>1. \A v \in Worker \ {w} : worker'[v] = worker[v] /\ task'.runner # v
    BY <1>7 DEF Joins, Alone
  <2>2. \A i \in worker'[w].known : RunWaiting /\ ReadBefore(i)'
    BY <1>2, <1>7, TakenOver DEF Joins
  <2> QED
    BY <1>2, <1>7, <2>1, <2>2 DEF Joins, Proven, Done, ExecutedMeansPerformed
<1>8. CASE Suspends
  BY <1>1, <1>2, <1>8 DEF Suspends, Proven, Done, ExecutedMeansPerformed
<1>9. CASE Closes(w)
  BY <1>1, <1>2, <1>9 DEF Closes, Alone, Idle, Proven, Done, ExecutedMeansPerformed
<1>10. CASE GoesOn(w)
  <2>1. \A v \in Worker \ {w} : worker'[v] = worker[v] /\ task'.runner # v
    BY <1>10 DEF GoesOn, Decides, Alone
  <2>2. performed' = performed /\ ckpt'.plan = worker[w].plan
    BY <1>10 DEF GoesOn
  <2>3. \A i \in ckpt'.completed : Done(worker[w].plan, i)
    BY <1>10 DEF GoesOn, Proven
  <2>4. ckpt'.kind = "validate" => \A i \in Step : Done(worker[w].plan, i)
    BY <1>1, <1>10 DEF GoesOn, Proven, Step
  <2>5. /\ worker'[w].plan = worker[w].plan
        /\ \A i \in worker'[w].known \cup worker'[w].done : Done(worker[w].plan, i)
        /\ \A i \in 1 .. (worker'[w].step - 1) : i \in worker'[w].done
        /\ worker'[w].pc = "replan" => ckpt'.completed = {}
    BY <1>10, <2>3 DEF GoesOn, Keeps, Proven
  <2> QED
    BY <1>2, <1>10, <2>1, <2>2, <2>3, <2>4, <2>5
       DEF GoesOn, Proven, Done, ExecutedMeansPerformed
<1> QED
  BY <1>3, <1>4, <1>5, <1>6, <1>7, <1>8, <1>9, <1>10 DEF WorkerStep

\* Nor does any other.
LEMMA ProvenStep ==
    ASSUME TypeOK, Called, Proven, [Next]_vars
    PROVE  Proven'
<1>1. CASE \E w \in Worker : Begin(w) \/ Work(w) \/ Crash(w)
  BY <1>1, WorkerSteps, ProvenWorker
<1>2. ASSUME performed \subseteq performed' PROVE \A i : ReadBefore(i) => ReadBefore(i)'
  BY <1>2, ReadStays
<1>3. CASE Judges
  <2>1. \A x \in Key : journal'[x] = "completed" => x \in performed'
    BY <1>3 DEF Judges, Proven, TypeOK
  <2> QED
    BY <1>2, <1>3, <2>1 DEF Judges, Proven, Done, ExecutedMeansPerformed
<1>4. CASE Rests
  BY <1>2, <1>4, NoneAssumption DEF Rests, Proven, Done, ExecutedMeansPerformed
<1> QED
  BY <1>1, <1>3, <1>4, OtherSteps DEF Next

\* A plan goes to validation only when each of its steps succeeded as a step of
\* this plan, however often it was interrupted, retried or replaced.  The
\* checkpoint of a wait is the one thing that brings steps of another plan in,
\* when run() begins a new plan there (context_builder lists what it completed);
\* then they can only be steps without an effect.
THEOREM JournalExecutedMeansPerformed == Spec => []ExecutedMeansPerformed
<1>1. Init => Called /\ Proven
  BY DEF Init, Idle, NoCheckpoint, Called, Proven, ExecutedMeansPerformed
<1>2. TypeOK /\ Called /\ Proven /\ [Next]_vars => Called' /\ Proven'
  BY CalledStep, ProvenStep
<1>3. Proven => ExecutedMeansPerformed
  BY DEF Proven
<1> QED
  BY <1>1, <1>2, <1>3, JournalTypeCorrect, PTL DEF Spec

----------------------------------------------------------------------------
(* A wait for an outcome can be ended                                      *)

\* A call of unknown outcome has a row, wherever it is asked about.
Recorded ==
    /\ ckpt.reason = "unknown" => journal[ckpt.row] # "none"
    /\ \A w \in Worker :
        /\ worker[w].pc \in Near => journal[Current(w)] # "none"
        /\ worker[w].pc = "uncertain" => journal[worker[w].row] # "none"

\* Every step keeps it, as rows are never deleted.
LEMMA RecordedStep ==
    ASSUME TypeOK, Recorded, [Next]_vars
    PROVE  Recorded'
<1>1. /\ journal \in [Key -> {"none", "started", "completed", "no_effect"}]
      /\ \A w \in Worker : worker[w].pc \in Near => Current(w) \in Key
  BY WorkerFacts DEF TypeOK, Near
<1>2. ASSUME NEW x \in Key, NEW status \in {"started", "completed", "no_effect"},
             journal' = [journal EXCEPT ![x] = status]
      PROVE  \A y : journal[y] # "none" => journal'[y] # "none"
  BY <1>1, <1>2
<1>3. ASSUME NEW w \in Worker, WorkerStep(w) PROVE Recorded'
  <2>1. \A y : journal[y] # "none" => journal'[y] # "none"
    <3>1. CASE Passes(w)
      <4>1. Current(w) \in Key
        BY <3>1, WorkerFacts DEF Passes, Current, Key
      <4> QED
        BY <1>2, <3>1, <4>1 DEF Passes
    <3>2. CASE Opens(w)
      BY <1>2, <3>2 DEF Opens
    <3>3. CASE ~Passes(w) /\ ~Opens(w)
      BY <1>3, <3>3 DEF WorkerStep, Quits, Looks, Begins, Joins, Suspends, Closes, GoesOn
    <3> QED
      BY <3>1, <3>2, <3>3
  <2>2. \A v \in Worker \ {w} : worker'[v] = worker[v] /\ Current(v)' = Current(v)
    BY <1>3 DEF WorkerStep, Passes, Quits, Looks, Opens, Begins, Joins, Suspends, Closes,
                GoesOn, Alone, Current
  <2>3. /\ worker'[w].pc \in Near => journal'[Current(w)'] # "none"
        /\ worker'[w].pc = "uncertain" => journal'[worker'[w].row] # "none"
    <3>1. CASE Looks(w)
      <4>1. worker'[w].pc \in Near => worker[w].pc \in Near /\ Current(w)' = Current(w)
        BY <3>1 DEF Looks, Keeps, Current, Near
      <4>2. worker'[w].pc = "uncertain" => journal[worker'[w].row] # "none"
        BY <3>1 DEF Looks, Started, Open, Recorded
      <4> QED
        BY <2>1, <4>1, <4>2 DEF Recorded
    <3>2. CASE Opens(w)
      <4>1. Current(w)' = Current(w) /\ journal'[Current(w)] = "started"
            /\ worker'[w].pc = "calling"
        BY <1>1, <3>2 DEF Opens, Keeps, Current
      <4> QED
        BY <4>1
    <3>3. CASE Suspends
      BY <3>3 DEF Suspends, Recorded, Current
    <3>4. CASE ~Looks(w) /\ ~Opens(w) /\ ~Suspends
      BY <1>3, <3>4 DEF WorkerStep, Passes, Quits, Begins, Joins, Closes, GoesOn, Idle, Near
    <3> QED
      BY <3>1, <3>2, <3>3, <3>4
  <2>4. ckpt'.reason = "unknown" => journal[ckpt'.row] # "none"
    BY <1>3 DEF WorkerStep, Passes, Quits, Looks, Opens, Begins, Joins, Suspends, Closes,
                GoesOn, Recorded
  <2> QED
    BY <2>1, <2>2, <2>3, <2>4 DEF Recorded
<1>4. CASE \E w \in Worker : Begin(w) \/ Work(w) \/ Crash(w)
  BY <1>3, <1>4, WorkerSteps
<1>5. CASE Judges
  BY <1>2, <1>5 DEF Judges, Recorded, Current
<1>6. CASE Rests
  BY <1>6 DEF Rests, Recorded, Current
<1> QED
  BY <1>4, <1>5, <1>6, OtherSteps DEF Next

\* Whoever has the task under a claim works on the plan in the checkpoint.  When
\* the task waits, nobody has.
Matching ==
    /\ task.status = "waiting" => task.owner = None
    /\ \A w \in Worker : task.owner = w =>
        /\ task.runner = w
        /\ worker[w].pc # "idle" => worker[w].fenced /\ worker[w].plan = ckpt.plan

\* Every step keeps the plans together.
LEMMA MatchingStep ==
    ASSUME TypeOK, Matching, [Next]_vars
    PROVE  Matching'
<1>1. None \notin Worker
  BY NoneAssumption
<1>2. ASSUME NEW w \in Worker, WorkerStep(w) PROVE Matching'
  <2>1. CASE Passes(w) \/ Quits(w) \/ Looks(w) \/ Opens(w)
    BY <2>1 DEF Passes, Quits, Looks, Opens, Alone, Keeps, Idle, Matching
  <2>2. CASE Begins(w)
    BY <2>2 DEF Begins, Alone, Matching
  <2>3. CASE Joins(w)
    <3>1. task.owner \notin Worker
      BY <1>1, <2>3 DEF Joins, Decides, Matching
    <3> QED
      BY <2>3, <3>1 DEF Joins, Matching
  <2>4. CASE Suspends \/ Closes(w)
    BY <1>1, <2>4 DEF Suspends, Closes, Matching
  <2>5. CASE GoesOn(w)
    <3>1. \A v \in Worker : task.owner = v => v = w
      BY <2>5 DEF GoesOn, Decides, Matching
    <3> QED
      BY <2>5, <3>1 DEF GoesOn, Decides, Matching
  <2> QED
    BY <1>2, <2>1, <2>2, <2>3, <2>4, <2>5 DEF WorkerStep
<1>3. CASE \E w \in Worker : Begin(w) \/ Work(w) \/ Crash(w)
  BY <1>2, <1>3, WorkerSteps
<1>4. CASE Judges \/ Rests
  BY <1>1, <1>4 DEF Judges, Rests, Matching
<1> QED
  BY <1>3, <1>4, OtherSteps DEF Next

\* And so they always are.
LEMMA MatchingAlways == Spec => []Matching
<1>1. Init => Matching
  BY NoneAssumption DEF Init, Matching
<1> QED
  BY <1>1, MatchingStep, JournalTypeCorrect, PTL DEF Spec

\* A row for another plan than that of the checkpoint is opened only by a worker
\* without a claim: ToolInvocationStore.reserve does not look at the checkpoint,
\* and only the fence keeps the plans of worker and checkpoint the same.
StrayRowsAreUnclaimed ==
    [][\A x \in Key : Open(x)' /\ ~Open(x) /\ x[1] # ckpt.plan =>
         \E w \in Worker :
            ~worker[w].fenced /\ worker[w].pc = "step" /\ Current(w) = x]_vars

\* So a verdict that can never be given, on a call for a plan that was replaced,
\* always goes back to a run() of a waiting task.
THEOREM JournalStrayRows == Spec => StrayRowsAreUnclaimed
<1>1. ASSUME TypeOK, Matching, [Next]_vars, NEW x \in Key, Open(x)', ~Open(x),
             x[1] # ckpt.plan
      PROVE  \E w \in Worker : ~worker[w].fenced /\ worker[w].pc = "step" /\ Current(w) = x
  <2>1. journal \in [Key -> {"none", "started", "completed", "no_effect"}]
    BY <1>1 DEF TypeOK
  <2>2. ASSUME NEW w \in Worker, WorkerStep(w)
        PROVE  ~worker[w].fenced /\ worker[w].pc = "step" /\ Current(w) = x
    <3>1. ~Passes(w)
      BY <1>1, <2>1 DEF Passes, Open
    <3>2. Opens(w)
      BY <1>1, <2>2, <3>1 DEF WorkerStep, Quits, Looks, Begins, Joins, Suspends, Closes,
                              GoesOn, Open
    <3>3. Current(w) = x
      BY <1>1, <2>1, <3>2 DEF Opens, Open
    <3>4. worker[w].plan # ckpt.plan
      BY <1>1, <3>3 DEF Current
    <3> QED
      BY <1>1, <3>2, <3>3, <3>4 DEF Opens, Owner, Matching
  <2>3. ~Judges /\ ~Rests
    BY <1>1, <2>1 DEF Judges, Rests, Open
  <2> QED
    BY <1>1, <2>2, <2>3, WorkerSteps, OtherSteps DEF Next
<1>2. TypeOK /\ Matching /\ [Next]_vars =>
        [\A x \in Key : Open(x)' /\ ~Open(x) /\ x[1] # ckpt.plan =>
            \E w \in Worker :
                ~worker[w].fenced /\ worker[w].pc = "step" /\ Current(w) = x]_vars
  BY <1>1
<1> QED
  BY <1>2, MatchingAlways, JournalTypeCorrect, PTL DEF Spec, StrayRowsAreUnclaimed

\* As long as run() is not called for a waiting task, every worker has a claim.
Fenced == \A w \in Worker : worker[w].pc # "idle" => worker[w].fenced

\* No other way leads to work without a claim.
LEMMA FencedStep ==
    ASSUME ~RunWaiting, TypeOK, Fenced, [Next]_vars
    PROVE  Fenced'
<1>1. ASSUME NEW w \in Worker, WorkerStep(w) PROVE Fenced'
  <2>1. CASE Passes(w) \/ Quits(w) \/ Begins(w) \/ Suspends \/ Closes(w) \/ GoesOn(w)
    BY <2>1 DEF Fenced, Passes, Quits, Begins, Suspends, Closes, GoesOn, Alone, Idle, Decides
  <2>2. CASE Looks(w) \/ Opens(w)
    BY <2>2 DEF Fenced, Looks, Opens, Alone, Keeps
  <2>3. ~Joins(w)
    BY DEF Fenced, Joins
  <2> QED
    BY <1>1, <2>1, <2>2, <2>3 DEF WorkerStep
<1>2. CASE Others \/ UNCHANGED vars
  BY <1>2, OtherSteps DEF Judges, Rests, Fenced
<1> QED
  BY <1>1, <1>2, WorkerSteps DEF Next

\* Then an open row is of the plan in the checkpoint, and past the first look at
\* the journal nothing is open until the worker that has the task opens a row.
Askable ==
    /\ \A x \in Started : x[1] = ckpt.plan
    /\ ckpt.kind = "replan" \/ task.status = "ready" => Started = {}
    /\ ckpt.reason # "none" => ckpt.kind = "wait"
    /\ \A w \in Worker : task.owner = w /\ worker[w].pc # "idle" =>
        /\ worker[w].pc \in {"step", "replan", "validating"} => Started = {}
        /\ ckpt.kind = "replan" => worker[w].pc = "replan"

\* While rows are only closed, what is known of rows stays true.
LEMMA Closing ==
    ASSUME TypeOK, NEW x \in Key, journal[x] = "started",
           NEW outcome \in {"completed", "no_effect"},
           journal' = [journal EXCEPT ![x] = outcome]
    PROVE  Started' \subseteq Started
BY DEF TypeOK, Started, Open

\* A step of a worker keeps open rows to the plan of the checkpoint.
LEMMA AskableWorker ==
    ASSUME TypeOK, OneOpenRow, ~RunWaiting, Fenced, Matching, Askable,
           NEW w \in Worker, WorkerStep(w)
    PROVE  Askable'
<1>1. /\ journal \in [Key -> {"none", "started", "completed", "no_effect"}]
      /\ w # None
      /\ UNCHANGED journal => Started' = Started
  BY NoneAssumption DEF TypeOK, Started, Open
<1>2. Owner(w) /\ worker[w].pc # "idle" => task.owner = w
  BY DEF Owner, Fenced
<1>3. CASE Passes(w)
  <2>1. Started' \subseteq Started
    <3>1. CASE Open(Current(w)) /\ journal' = [journal EXCEPT ![Current(w)] = "completed"]
      <4>1. Current(w) \in Key
        BY <1>3, WorkerFacts DEF Passes, Current, Key
      <4> QED
        BY <3>1, <4>1, Closing DEF Open
    <3> QED
      BY <1>1, <1>3, <3>1 DEF Passes
  <2>2. task.owner = w => Started' = {}
    <3>1. CASE worker[w].pc = "step"
      BY <2>1, <3>1 DEF Askable
    <3>2. CASE worker[w].pc = "returned"
      <4>1. /\ journal' = [journal EXCEPT ![Current(w)] = "completed"]
            /\ Open(Current(w)) /\ Current(w) \in Key
        BY <1>3, <3>2, WorkerFacts DEF Passes
      <4>2. Started = {Current(w)}
        BY <4>1 DEF Started, OneOpenRow
      <4> QED
        BY <1>1, <4>1, <4>2 DEF Started, Open
    <3> QED
      BY <1>3, <3>1, <3>2 DEF Passes
  <2> QED
    BY <1>3, <2>1, <2>2 DEF Passes, Alone, Askable
<1>4. CASE Quits(w)
  BY <1>1, <1>4 DEF Quits, Alone, Idle, Askable
<1>5. CASE Looks(w)
  <2>1. worker'[w].pc \in {"step", "replan", "validating"} => Started = {}
    BY <1>5 DEF Looks
  <2>2. /\ UNCHANGED <<task, ckpt, journal>>
        /\ worker[w].pc \notin {"idle", "replan"} /\ Alone(w)
    BY <1>5 DEF Looks
  <2> QED
    BY <1>1, <2>1, <2>2 DEF Alone, Askable
<1>6. CASE Opens(w)
  <2>1. task.owner = w /\ worker[w].pc = "step"
    BY <1>2, <1>6 DEF Opens
  <2>2. worker[w].plan = ckpt.plan /\ ckpt.kind # "replan" /\ task.status # "ready"
    BY <1>6, <2>1 DEF Opens, Askable, Matching
  <2>3. \A x \in Started' : x[1] = ckpt.plan
    <3>1. Current(w)[1] = ckpt.plan
      BY <2>2 DEF Current
    <3>2. Started' \subseteq {Current(w)}
      BY <1>1, <1>6 DEF Opens, Started, Open
    <3> QED
      BY <3>1, <3>2
  <2>4. UNCHANGED <<task, ckpt>> /\ Alone(w) /\ worker'[w].pc = "calling"
    BY <1>6 DEF Opens
  <2>5. \A v \in Worker : task.owner = v => v = w
    BY <2>1
  <2> QED
    BY <2>2, <2>3, <2>4, <2>5 DEF Askable
<1>7. CASE Begins(w)
  <2>1. UNCHANGED journal /\ Started' = Started
    BY <1>1, <1>7 DEF Begins
  <2>2. ckpt' # ckpt => Started = {}
    <3>1. CASE task.status = "ready" \/ ckpt.kind = "replan"
      BY <3>1 DEF Askable
    <3>2. CASE ckpt.kind = "plan" /\ ~HasRows(ckpt.plan)
      <4> SUFFICES ASSUME NEW x \in Started PROVE FALSE
        OBVIOUS
      <4>1. PICK p \in Plan, i \in Step : x = <<p, i>>
        BY DEF Started, Key
      <4> QED
        BY <3>2, <4>1 DEF Askable, HasRows, Started, Open
    <3>3. CASE worker[w].pc = "replan" /\ Decides(w)
      BY <1>2, <3>3 DEF Decides, Askable
    <3> QED
      BY <1>7, <3>1, <3>2, <3>3 DEF Begins
  <2>3. ckpt'.kind # "replan" /\ task'.status # "ready"
    BY <1>7 DEF Begins, Askable
  <2>4. ckpt'.reason # "none" => ckpt'.kind = "wait"
    BY <1>7 DEF Begins, Askable
  <2>5. \A x \in Started' : x[1] = ckpt'.plan
    BY <2>1, <2>2 DEF Askable
  <2>6. \A v \in Worker \ {w} : task'.owner # v
    BY <1>7 DEF Begins
  <2>7. worker'[w].pc = "start"
    BY <1>7 DEF Begins
  <2> QED
    BY <2>3, <2>4, <2>5, <2>6, <2>7 DEF Askable
<1>8. ~Joins(w)
  BY DEF Fenced, Joins
<1>9. CASE Suspends
  BY <1>1, <1>9, NoneAssumption DEF Suspends, Askable
<1>10. CASE Closes(w)
  <2>1. \A v \in Worker : task'.owner # v
    BY <1>10, NoneAssumption DEF Closes
  <2>2. task'.status # "ready" /\ Started' = Started
    BY <1>1, <1>10 DEF Closes
  <2>3. worker[w].plan = ckpt.plan
    BY <1>2, <1>10 DEF Closes, Decides, Matching
  <2>4. /\ \A x \in Started : x[1] = ckpt'.plan
        /\ ckpt'.kind = "replan" => Started = {}
        /\ ckpt'.reason # "none" => ckpt'.kind = "wait"
    BY <1>10, <2>3 DEF Closes, Askable
  <2> QED
    BY <2>1, <2>2, <2>4 DEF Askable
<1>11. CASE GoesOn(w)
  <2>1. task.owner = w /\ task'.owner = w /\ worker[w].pc # "idle"
    BY <1>2, <1>11 DEF GoesOn, Decides
  <2>2. worker[w].plan = ckpt.plan /\ Started' = Started
    BY <1>1, <1>11, <2>1 DEF GoesOn, Matching
  <2>3. /\ \A x \in Started : x[1] = ckpt'.plan
        /\ ckpt'.reason = "none" /\ task'.status # "ready"
    BY <1>11, <2>2 DEF GoesOn, Askable
  <2>4. /\ ckpt'.kind = "replan" => Started = {} /\ worker'[w].pc = "replan"
        /\ worker'[w].pc \in {"step", "replan", "validating"} => Started = {}
    BY <1>11, <2>1 DEF GoesOn, Askable
  <2>5. \A v \in Worker \ {w} : task'.owner # v
    BY <2>1
  <2> QED
    BY <2>2, <2>3, <2>4, <2>5 DEF Askable
<1> QED
  BY <1>3, <1>4, <1>5, <1>6, <1>7, <1>8, <1>9, <1>10, <1>11 DEF WorkerStep

\* So does every other.
LEMMA AskableStep ==
    ASSUME ~RunWaiting, TypeOK, OneOpenRow, Fenced, Matching, Askable, [Next]_vars
    PROVE  Askable'
<1>1. CASE \E w \in Worker : Begin(w) \/ Work(w) \/ Crash(w)
  BY <1>1, WorkerSteps, AskableWorker
<1>2. CASE Judges
  <2>1. Started' \subseteq Started
    BY <1>2, Closing DEF Judges, Open
  <2> QED
    BY <1>2, <2>1 DEF Judges, Askable
<1>3. CASE Rests
  <2>1. Started' = Started
    BY <1>3 DEF Rests, Started, Open
  <2> QED
    BY <1>3, <2>1, NoneAssumption DEF Rests, Askable
<1> QED
  BY <1>1, <1>2, <1>3, OtherSteps DEF Next

\* And so they always are, unless run() enters a waiting task.
LEMMA AskableAlways ==
    ASSUME ~RunWaiting
    PROVE  Spec => []Askable
<1>1. Init => Fenced /\ Askable
  BY DEF Init, Idle, NoCheckpoint, Fenced, Askable, Started, Open
<1>2. TypeOK /\ OneOpenRow /\ Matching /\ Fenced /\ Askable /\ [Next]_vars
        => Fenced' /\ Askable'
  BY FencedStep, AskableStep
<1> QED
  BY <1>1, <1>2, JournalTypeCorrect, JournalOneOpenRow, MatchingAlways, PTL DEF Spec

\* So every schedule keeps the rows askable, or is one in which run() is called
\* for waiting tasks.
LEMMA AskableOrShared == Spec => [](RunWaiting \/ Askable)
<1>1. CASE RunWaiting
  BY <1>1, PTL
<1>2. CASE ~RunWaiting
  BY <1>2, AskableAlways, PTL
<1> QED
  BY <1>1, <1>2

\* A wait for the outcome of a call always asks about a row that exists: it is
\* settled and the wait is over, or it is open and a verdict on it is accepted.
\* Only when run() may be called for waiting tasks can the open row be that of a
\* plan which is not the one in the checkpoint, and no verdict is accepted
\* (resolve_tool_invocation compares the fingerprints).
THEOREM JournalOutcomeDecidable == Spec => []OutcomeDecidable
<1>1. Init => Recorded
  BY DEF Init, Idle, NoCheckpoint, Recorded, Near
<1>2. TypeOK /\ Recorded /\ [Next]_vars => Recorded'
  BY RecordedStep
<1>3. TypeOK /\ Recorded /\ (RunWaiting \/ Askable) => OutcomeDecidable
  <2> SUFFICES ASSUME TypeOK, Recorded, RunWaiting \/ Askable,
                      task.status = "waiting", ckpt.reason = "unknown"
               PROVE  \/ CanDecide
                      \/ WaitOver
                      \/ RunWaiting /\ Open(ckpt.row) /\ ckpt.row[1] # ckpt.plan
    BY DEF OutcomeDecidable
  <2>1. ckpt.row \in Key
    BY DEF TypeOK, Checkpoint
  <2>2. journal[ckpt.row] \in {"started", "completed", "no_effect"}
    BY <2>1 DEF TypeOK, Recorded
  <2>3. CASE Open(ckpt.row)
    BY <2>1, <2>3 DEF Askable, Started, CanDecide, AskedRow
  <2>4. CASE journal[ckpt.row] \in {"completed", "no_effect"}
    BY <2>4 DEF WaitOver
  <2> QED
    BY <2>2, <2>3, <2>4 DEF Open
<1> QED
  BY <1>1, <1>2, <1>3, AskableOrShared, JournalTypeCorrect, PTL DEF Spec

====
