---- MODULE ApprovalProofs ----
(***************************************************************************)
(* Theorems about StepApproval for any processes, plans, steps and limits.   *)
(***************************************************************************)
EXTENDS StepApproval, TLAPS

----------------------------------------------------------------------------
(* Type correctness                                                        *)

TaskType == task \in [status : {"ready", "executing", "waiting", "ended"},
                      approved : BOOLEAN, owner : Worker \cup {None}]

CkptRec == [kind : {"none", "plan", "retry", "replan", "wait"},
            reason : {"none", "auto", "approval", "unknown"}, token : 0 .. MaxWaits,
            plan : Plan \cup {None}, completed : SUBSET Step, row : Key \cup {None},
            cycle : 0 .. MaxCycles - 1]

CkptType ==
    /\ ckpt \in CkptRec
    /\ ckpt.kind # "none" => ckpt.plan \in Plan
    /\ ckpt.reason # "none" => ckpt.kind = "wait" /\ ckpt.token = waits /\ waits > 0
    /\ ckpt.reason = "unknown" => ckpt.row \in Key

Request == [status : {"none", "pending", "approved", "rejected", "revoked"},
            plan : Plan \cup {None}, step : 0 .. Steps]

GrantType == grant \in [Token -> Request]

JournalType == journal \in [Key -> {"none", "started", "completed", "no_effect"}]

PC == {"idle", "start", "step", "allowed", "refused", "calling", "uncertain", "replan"}

WorkerRec == [pc : PC, plan : Plan \cup {None}, step : 0 .. Steps + 1, known : SUBSET Step,
              done : SUBSET Step, row : Key \cup {None}, token : 0 .. MaxWaits]

Shape(r) ==
    /\ r.pc # "idle" => r.plan \in Plan /\ r.step > 0
    /\ r.pc \in {"allowed", "refused", "calling"} => r.step \in Step
    /\ r.pc = "uncertain" => r.row \in Key

WorkerType == worker \in [Worker -> WorkerRec] /\ \A w \in Worker : Shape(worker[w])

CountType == waits \in 0 .. MaxWaits /\ faults \in 0 .. MaxFaults /\ used \in [Token -> Nat]

LEMMA TypeParts ==
    TypeOK <=> TaskType /\ CkptType /\ GrantType /\ JournalType /\ WorkerType /\ CountType
BY DEF TypeOK, TaskType, CkptType, CkptRec, GrantType, Request, JournalType, WorkerType,
       WorkerRec, PC, Shape, CountType

LEMMA TypeInit == Init => TypeOK
<1> SUFFICES ASSUME Init PROVE TypeOK
  OBVIOUS
<1>0. /\ None \in Worker \cup {None} /\ None \in Plan \cup {None} /\ None \in Key \cup {None}
      /\ {} \in SUBSET Step
      /\ 0 \in 0 .. MaxWaits /\ 0 \in 0 .. MaxCycles - 1 /\ 0 \in 0 .. Steps
      /\ 0 \in 0 .. Steps + 1 /\ 0 \in 0 .. MaxFaults
  BY LimitsAssumption
<1>1. TaskType
  BY <1>0 DEF Init, TaskType
<1>2. CkptType
  BY <1>0 DEF Init, CkptType, CkptRec, NoCheckpoint
<1>3. GrantType /\ JournalType
  BY <1>0 DEF Init, GrantType, Request, JournalType
<1>4. WorkerType
  BY <1>0 DEF Init, WorkerType, WorkerRec, PC, Shape, Idle
<1>5. CountType
  BY <1>0 DEF Init, CountType
<1> QED
  BY <1>1, <1>2, <1>3, <1>4, <1>5, TypeParts

\* One worker moves.
LEMMA MoveType ==
    ASSUME WorkerType, NEW w \in Worker, NEW r \in WorkerRec, Shape(r),
           worker' = [worker EXCEPT ![w] = r]
    PROVE  WorkerType' /\ \A v \in Worker : worker'[v] = IF v = w THEN r ELSE worker[v]
BY DEF WorkerType

LEMMA IdleType == Idle \in WorkerRec /\ Shape(Idle)
<1>1. /\ None \in Plan \cup {None} /\ None \in Key \cup {None} /\ {} \in SUBSET Step
      /\ 0 \in 0 .. MaxWaits /\ 0 \in 0 .. Steps + 1
  BY LimitsAssumption
<1> QED
  BY <1>1 DEF Idle, WorkerRec, PC, Shape

LEMMA ReturnType ==
    ASSUME WorkerType, NEW w \in Worker, Return(w)
    PROVE  WorkerType' /\ \A v \in Worker : worker'[v] = IF v = w THEN Idle ELSE worker[v]
BY IdleType, MoveType DEF Return

LEMMA GotoType ==
    ASSUME WorkerType, NEW w \in Worker, NEW pc \in PC, Goto(w, pc),
           worker[w].pc # "idle",
           pc \in {"allowed", "refused", "calling"} => worker[w].step \in Step,
           pc # "uncertain"
    PROVE  WorkerType' /\ \A v \in Worker :
                worker'[v] = IF v = w THEN [worker[w] EXCEPT !.pc = pc] ELSE worker[v]
<1> DEFINE r == [worker[w] EXCEPT !.pc = pc]
<1>1. worker[w] \in WorkerRec /\ Shape(worker[w])
  BY DEF WorkerType
<1>2. r \in WorkerRec /\ Shape(r)
  BY <1>1 DEF WorkerRec, Shape
<1>3. worker' = [worker EXCEPT ![w] = r]
  BY DEF Goto
<1> HIDE DEF r
<1>4. WorkerType' /\ \A v \in Worker : worker'[v] = IF v = w THEN r ELSE worker[v]
  BY <1>2, <1>3, MoveType
<1> QED
  BY <1>4 DEF r

LEMMA DoubtType ==
    ASSUME WorkerType, NEW w \in Worker, NEW x \in Key, Doubt(w, x), worker[w].pc # "idle"
    PROVE  /\ WorkerType'
           /\ \A v \in Worker : worker'[v] =
                IF v = w THEN [worker[w] EXCEPT !.pc = "uncertain", !.row = x] ELSE worker[v]
<1> DEFINE r == [worker[w] EXCEPT !.pc = "uncertain", !.row = x]
<1>1. worker[w] \in WorkerRec /\ Shape(worker[w])
  BY DEF WorkerType
<1>2. r \in WorkerRec /\ Shape(r)
  BY <1>1 DEF WorkerRec, Shape, PC
<1>3. worker' = [worker EXCEPT ![w] = r]
  BY DEF Doubt
<1> HIDE DEF r
<1>4. WorkerType' /\ \A v \in Worker : worker'[v] = IF v = w THEN r ELSE worker[v]
  BY <1>2, <1>3, MoveType
<1> QED
  BY <1>4 DEF r

LEMMA PassType ==
    ASSUME WorkerType, NEW w \in Worker, Pass(w), worker[w].pc # "idle",
           worker[w].step \in Step
    PROVE  WorkerType' /\ \A v \in Worker :
                IF v = w THEN worker'[v].pc = "step" ELSE worker'[v] = worker[v]
<1> DEFINE r == [worker[w] EXCEPT !.pc = "step", !.step = @ + 1, !.token = 0,
                                  !.done = @ \cup {worker[w].step}]
<1>1. worker[w] \in WorkerRec /\ Shape(worker[w])
  BY DEF WorkerType
<1>2. /\ worker[w].step + 1 \in 0 .. Steps + 1 /\ worker[w].step + 1 > 0
      /\ worker[w].done \cup {worker[w].step} \in SUBSET Step
      /\ 0 \in 0 .. MaxWaits
  BY <1>1, LimitsAssumption DEF WorkerRec, Step
<1>3. r \in WorkerRec /\ Shape(r) /\ r.pc = "step"
  BY <1>1, <1>2 DEF WorkerRec, Shape, PC
<1>4. worker' = [worker EXCEPT ![w] = r]
  BY DEF Pass
<1> HIDE DEF r
<1>5. WorkerType' /\ \A v \in Worker : worker'[v] = IF v = w THEN r ELSE worker[v]
  BY <1>3, <1>4, MoveType
<1> QED
  BY <1>3, <1>5

LEMMA StartType ==
    ASSUME NEW p \in Plan, NEW known \in SUBSET Step, NEW r,
           r = [Idle EXCEPT !.pc = "start", !.plan = p, !.step = 1, !.known = known]
    PROVE  r \in WorkerRec /\ Shape(r) /\ r.pc = "start"
<1>1. r = [pc |-> "start", plan |-> p, step |-> 1, known |-> known, done |-> {},
           row |-> None, token |-> 0]
  BY DEF Idle
<1>2. /\ p \in Plan \cup {None} /\ None \in Key \cup {None} /\ {} \in SUBSET Step
      /\ 0 \in 0 .. MaxWaits /\ 1 \in 0 .. Steps + 1 /\ 1 > 0
  BY LimitsAssumption
<1>3. r \in WorkerRec
  BY <1>1, <1>2 DEF WorkerRec, PC
<1>4. Shape(r) /\ r.pc = "start"
  BY <1>1, <1>2 DEF Shape
<1> QED
  BY <1>3, <1>4

\* An execution begins.
LEMMA EnterType ==
    ASSUME TaskType, CkptType, WorkerType, NEW w \in Worker, NEW p \in Plan, Enter(w, p)
    PROVE  /\ TaskType' /\ WorkerType'
           /\ \A v \in Worker :
                IF v = w THEN worker'[v].pc = "start" ELSE worker'[v] = worker[v]
<1> DEFINE r == [Idle EXCEPT !.pc = "start", !.plan = p, !.step = 1,
                             !.known = ckpt.completed]
<1>1. TaskType'
  BY DEF Enter, TaskType
<1>2. 1 \in 0 .. Steps + 1 /\ ckpt.completed \in SUBSET Step
  BY LimitsAssumption DEF CkptType, CkptRec
<1>3. r \in WorkerRec /\ Shape(r) /\ r.pc = "start"
  BY <1>2, StartType
<1>4. worker' = [worker EXCEPT ![w] = r]
  BY DEF Enter
<1> HIDE DEF r
<1>5. WorkerType' /\ \A v \in Worker : worker'[v] = IF v = w THEN r ELSE worker[v]
  BY <1>3, <1>4, MoveType
<1> QED
  BY <1>1, <1>3, <1>5

LEMMA BeginPlanType ==
    ASSUME TaskType, CkptType, WorkerType, CountType, NEW w \in Worker, NEW p \in Plan,
           BeginPlan(w, p)
    PROVE  TaskType' /\ WorkerType' /\ CkptType'
<1>1. ckpt' = [kind |-> "plan", reason |-> "none", token |-> 0, plan |-> p,
               completed |-> {}, row |-> None, cycle |-> ckpt.cycle]
  BY DEF BeginPlan, NoCheckpoint
<1>2. /\ ckpt.cycle \in 0 .. MaxCycles - 1 /\ {} \in SUBSET Step
      /\ None \in Key \cup {None} /\ 0 \in 0 .. MaxWaits
  BY LimitsAssumption DEF CkptType, CkptRec
<1>3. CkptType'
  BY <1>1, <1>2 DEF CkptType, CkptRec
<1> QED
  BY <1>3, EnterType DEF BeginPlan

LEMMA BeginRetryType ==
    ASSUME TaskType, CkptType, WorkerType, NEW w \in Worker, BeginRetry(w),
           ckpt.plan \in Plan, UNCHANGED waits
    PROVE  TaskType' /\ WorkerType' /\ CkptType'
<1>1. CkptType'
  BY DEF BeginRetry, CkptType
<1> QED
  BY <1>1, EnterType DEF BeginRetry

LEMMA RestartType ==
    ASSUME TaskType, CkptType, WorkerType, CountType, NEW w \in Worker, Restart(w),
           UNCHANGED waits
    PROVE  TaskType' /\ WorkerType' /\ CkptType'
<1>1. CASE ckpt.kind # "none" /\ BeginRetry(w)
  BY <1>1, BeginRetryType DEF CkptType
<1>2. ASSUME NEW p \in Plan, BeginPlan(w, p)
      PROVE  TaskType' /\ WorkerType' /\ CkptType'
  BY <1>2, BeginPlanType
<1>3. CASE /\ task' = [task EXCEPT !.status = "waiting", !.owner = None]
           /\ UNCHANGED <<ckpt, worker>>
  BY <1>3 DEF TaskType, CkptType, WorkerType
<1> QED
  BY <1>1, <1>2, <1>3 DEF Restart

LEMMA ParkType ==
    ASSUME TypeOK, NEW w \in Worker, worker[w].pc # "idle",
           NEW reason \in {"auto", "approval", "unknown"}, NEW completed \in SUBSET Step,
           NEW row \in Key \cup {None}, reason = "unknown" => row \in Key,
           Park(w, reason, completed, row)
    PROVE  /\ TaskType' /\ WorkerType' /\ CkptType'
           /\ waits' = waits + 1 /\ waits' \in Token
<1>0. TaskType /\ CkptType /\ WorkerType /\ CountType
  BY TypeParts
<1>1. TaskType'
  BY <1>0 DEF Park, TaskType
<1>2. WorkerType'
  BY <1>0, ReturnType DEF Park
<1>3. /\ waits' = waits + 1 /\ waits' \in Token /\ waits' \in 0 .. MaxWaits /\ waits' > 0
      /\ worker[w].plan \in Plan /\ ckpt.cycle \in 0 .. MaxCycles - 1
  BY <1>0, LimitsAssumption
     DEF Park, CountType, Token, WorkerType, Shape, CkptType, CkptRec
<1>4. ckpt' = [kind |-> "wait", reason |-> reason, token |-> waits', plan |-> worker[w].plan,
               completed |-> completed, row |-> row, cycle |-> ckpt.cycle]
  BY DEF Park
<1>5. CkptType'
  BY <1>3, <1>4 DEF CkptType, CkptRec
<1> QED
  BY <1>1, <1>2, <1>3, <1>5

LEMMA AgainType ==
    ASSUME TypeOK, NEW w \in Worker, worker[w].pc # "idle", NEW kind \in {"retry", "replan"},
           NEW completed \in SUBSET Step, Again(w, kind, completed), UNCHANGED waits
    PROVE  TaskType' /\ WorkerType' /\ CkptType'
<1>0. TaskType /\ CkptType /\ WorkerType /\ CountType
  BY TypeParts
<1>1. CASE Ended /\ Return(w) /\ UNCHANGED ckpt
  <2>1. TaskType' /\ CkptType'
    BY <1>0, <1>1 DEF Ended, TaskType, CkptType
  <2> QED
    BY <1>0, <1>1, <2>1, ReturnType
<1>2. CASE /\ ckpt.cycle + 1 < MaxCycles
           /\ ckpt' = [NoCheckpoint EXCEPT !.kind = kind, !.plan = worker[w].plan,
                            !.completed = completed, !.cycle = ckpt.cycle + 1]
           /\ IF kind = "retry"
              THEN worker' = [worker EXCEPT ![w] =
                        [Idle EXCEPT !.pc = "start", !.plan = worker[w].plan, !.step = 1,
                                     !.known = completed]]
              ELSE Goto(w, "replan")
           /\ UNCHANGED task
  <2>1. worker[w].plan \in Plan /\ ckpt.cycle + 1 \in 0 .. MaxCycles - 1
    BY <1>0, <1>2, LimitsAssumption DEF WorkerType, Shape, CkptType, CkptRec
  <2>2. CkptType'
    <3>1. ckpt' = [kind |-> kind, reason |-> "none", token |-> 0, plan |-> worker[w].plan,
                   completed |-> completed, row |-> None, cycle |-> ckpt.cycle + 1]
      BY <1>2 DEF NoCheckpoint
    <3>2. None \in Key \cup {None} /\ 0 \in 0 .. MaxWaits
      BY LimitsAssumption
    <3> QED
      BY <2>1, <3>1, <3>2 DEF CkptType, CkptRec
  <2>3. TaskType'
    BY <1>0, <1>2 DEF TaskType
  <2>4. WorkerType'
    <3>1. CASE kind = "retry"
      <4> DEFINE r == [Idle EXCEPT !.pc = "start", !.plan = worker[w].plan, !.step = 1,
                                   !.known = completed]
      <4>1. r \in WorkerRec /\ Shape(r)
        BY <2>1, StartType
      <4>2. worker' = [worker EXCEPT ![w] = r]
        BY <1>2, <3>1
      <4> HIDE DEF r
      <4> QED
        BY <1>0, <4>1, <4>2, MoveType
    <3>2. CASE kind # "retry"
      BY <1>0, <1>2, <3>2, GotoType DEF PC
    <3> QED
      BY <3>1, <3>2
  <2> QED
    BY <2>2, <2>3, <2>4
<1> QED
  BY <1>1, <1>2 DEF Again

LEMMA JudgeType ==
    ASSUME JournalType, NEW x \in Key, NEW v \in {"none", "started", "completed", "no_effect"},
           journal' = [journal EXCEPT ![x] = v]
    PROVE  JournalType'
BY DEF JournalType

LEMMA TypeStep == TypeOK /\ [Next]_vars => TypeOK'
<1> SUFFICES ASSUME TypeOK, [Next]_vars PROVE TypeOK'
  OBVIOUS
<1>1. TaskType /\ CkptType /\ GrantType /\ JournalType /\ WorkerType /\ CountType
  BY TypeParts
<1>2. TaskType' /\ CkptType' /\ GrantType' /\ JournalType' /\ WorkerType' /\ CountType'
        => TypeOK'
  BY DEF TypeOK, TaskType, CkptType, CkptRec, GrantType, Request, JournalType, WorkerType,
         WorkerRec, PC, Shape, CountType
<1>3. /\ UNCHANGED task => TaskType'
      /\ UNCHANGED <<ckpt, waits>> => CkptType'
      /\ UNCHANGED grant => GrantType'
      /\ UNCHANGED journal => JournalType'
      /\ UNCHANGED worker => WorkerType'
      /\ UNCHANGED <<waits, faults, used>> => CountType'
      /\ UNCHANGED Data => UNCHANGED <<grant, waits, journal, used>>
  BY <1>1 DEF TaskType, CkptType, GrantType, JournalType, WorkerType, CountType, Data
<1>4. faults < MaxFaults /\ faults' = faults + 1 /\ UNCHANGED <<waits, used>> => CountType'
  BY <1>1, LimitsAssumption DEF CountType
<1>5. ASSUME NEW w \in Worker, Begin(w)
      PROVE  TypeOK'
  <2>1. UNCHANGED Data /\ UNCHANGED faults
    BY <1>5 DEF Begin, Run, Wake, Takeover
  <2>2. TaskType' /\ WorkerType' /\ CkptType'
    <3>1. ASSUME NEW p \in Plan, Run(w, p)
          PROVE  TaskType' /\ WorkerType' /\ CkptType'
      BY <1>1, <3>1, BeginPlanType DEF Run
    <3>2. CASE Wake(w)
      <4>1. ckpt.plan \in Plan
        BY <1>1, <3>2 DEF Wake, WaitOver, CkptType
      <4> QED
        BY <1>1, <2>1, <3>2, <4>1, <1>3, BeginRetryType DEF Wake
    <3>3. CASE Takeover(w)
      BY <1>1, <1>3, <2>1, <3>3, RestartType DEF Takeover
    <3> QED
      BY <1>5, <3>1, <3>2, <3>3 DEF Begin
  <2> QED
    BY <1>2, <1>3, <2>1, <2>2
<1>6. ASSUME NEW w \in Worker, Supersede(w)
      PROVE  TypeOK'
  <2>1. TaskType' /\ WorkerType' /\ CkptType'
    BY <1>1, <1>3, <1>6, RestartType DEF Supersede
  <2> QED
    BY <1>2, <1>3, <1>4, <1>6, <2>1 DEF Supersede
<1>7. ASSUME NEW w \in Worker, Crash(w)
      PROVE  TypeOK'
  BY <1>1, <1>2, <1>3, <1>4, <1>7, ReturnType DEF Crash
<1>8. ASSUME NEW w \in Worker, Work(w)
      PROVE  TypeOK'
  <2>1. CASE CheckPending(w)
    <3>1. WorkerType'
      BY <1>1, <2>1, GotoType, DoubtType DEF CheckPending, Started, PC
    <3> QED
      BY <1>2, <1>3, <2>1, <3>1 DEF CheckPending
  <2>2. CASE Skip(w)
    BY <1>1, <1>2, <1>3, <2>2, PassType DEF Skip, AtStep
  <2>3. CASE Authorize(w)
    <3> DEFINE r == [worker[w] EXCEPT !.pc = "allowed",
                        !.token = IF worker[w].step \in Needs[worker[w].plan]
                                  THEN ckpt.token ELSE 0]
    <3>1. WorkerType'
      <4>1. CASE worker' = [worker EXCEPT ![w] = r]
        <5>1. worker[w] \in WorkerRec /\ Shape(worker[w]) /\ worker[w].pc = "step"
              /\ worker[w].step \in Step
          BY <1>1, <2>3 DEF WorkerType, Authorize, AtStep
        <5>2. 0 \in 0 .. MaxWaits /\ ckpt.token \in 0 .. MaxWaits
          BY <1>1, LimitsAssumption DEF CkptType, CkptRec
        <5>3. r \in WorkerRec /\ Shape(r)
          BY <5>1, <5>2 DEF WorkerRec, Shape, PC
        <5> HIDE DEF r
        <5> QED
          BY <1>1, <4>1, <5>3, MoveType
      <4>2. CASE Goto(w, "refused")
        BY <1>1, <2>3, <4>2, GotoType DEF Authorize, AtStep, PC
      <4>3. worker' = [worker EXCEPT ![w] = r] \/ Goto(w, "refused")
        BY <2>3 DEF Authorize
      <4> QED
        BY <4>1, <4>2, <4>3
    <3> QED
      BY <1>2, <1>3, <2>3, <3>1 DEF Authorize
  <2>4. CASE Reserve(w)
    <3>1. worker[w].step \in Step /\ Current(w) \in Key
      BY <1>1, <2>4 DEF Reserve, WorkerType, Shape, Current, Key
    <3>2. WorkerType'
      BY <1>1, <2>4, <3>1, GotoType, DoubtType, PassType DEF Reserve, Started, PC
    <3>3. JournalType'
      BY <1>1, <1>3, <2>4, <3>1, JudgeType DEF Reserve
    <3>4. CountType'
      BY <1>1, <2>4 DEF Reserve, Charge, CountType
    <3> QED
      BY <1>2, <1>3, <2>4, <3>2, <3>3, <3>4 DEF Reserve
  <2>5. CASE Complete(w)
    <3>1. worker[w].step \in Step /\ Current(w) \in Key
      BY <1>1, <2>5 DEF Complete, WorkerType, Shape, Current, Key
    <3>2. WorkerType'
      BY <1>1, <2>5, <3>1, DoubtType, PassType DEF Complete
    <3>3. JournalType'
      BY <1>1, <1>3, <2>5, <3>1, JudgeType DEF Complete
    <3> QED
      BY <1>2, <1>3, <2>5, <3>2, <3>3 DEF Complete
  <2>6. ASSUME NEW reason \in {"auto", "approval", "unknown"},
               NEW completed \in SUBSET Step, NEW row \in Key \cup {None},
               reason = "unknown" => row \in Key, worker[w].pc # "idle",
               Park(w, reason, completed, row),
               UNCHANGED <<journal, used, faults>>
        PROVE  /\ TaskType' /\ WorkerType' /\ CkptType' /\ CountType' /\ JournalType'
               /\ waits' \in Token /\ worker[w].plan \in Plan \cup {None}
               /\ worker[w].step \in 0 .. Steps + 1
    <3>1. TaskType' /\ WorkerType' /\ CkptType' /\ waits' \in Token
      BY <2>6, ParkType
    <3>2. CountType'
      BY <1>1, <2>6, <3>1 DEF CountType, Token
    <3> QED
      BY <1>1, <1>3, <2>6, <3>1, <3>2 DEF WorkerType, WorkerRec
  <2>7. worker[w].done \in SUBSET Step /\ {} \in SUBSET Step /\ None \in Key \cup {None}
    BY <1>1 DEF WorkerType, WorkerRec
  <2>8. CASE AskApproval(w)
    <3>1. /\ TaskType' /\ WorkerType' /\ CkptType' /\ CountType' /\ JournalType'
          /\ waits' \in Token /\ worker[w].plan \in Plan \cup {None}
      BY <2>6, <2>7, <2>8 DEF AskApproval
    <3>2. worker[w].step \in 0 .. Steps
      BY <1>1, <2>8 DEF AskApproval, WorkerType, Shape, Step
    <3> DEFINE g == [status |-> "pending", plan |-> worker[w].plan, step |-> worker[w].step]
    <3>3. g \in Request
      BY <3>1, <3>2 DEF Request
    <3>4. grant' = [grant EXCEPT ![waits'] = g]
      BY <2>8 DEF AskApproval
    <3> HIDE DEF g
    <3>5. GrantType'
      BY <1>1, <3>1, <3>3, <3>4 DEF GrantType
    <3> QED
      BY <1>2, <3>1, <3>5
  <2>9. CASE Uncertain(w)
    <3>1. worker[w].row \in Key
      BY <1>1, <2>9 DEF Uncertain, WorkerType, Shape
    <3>2. TaskType' /\ WorkerType' /\ CkptType' /\ CountType' /\ JournalType'
      BY <2>6, <2>7, <2>9, <3>1 DEF Uncertain
    <3> QED
      BY <1>2, <1>3, <2>9, <3>2 DEF Uncertain
  <2>10. CASE Fail(w)
    <3>1. TaskType' /\ WorkerType' /\ CkptType'
      BY <1>3, <2>7, <2>10, AgainType DEF Fail
    <3> QED
      BY <1>2, <1>3, <2>10, <3>1 DEF Fail
  <2>11. CASE Finish(w)
    <3>1. worker[w].pc # "idle" /\ UNCHANGED <<grant, journal, used, faults>>
      BY <2>11 DEF Finish
    <3>2. CASE Ended /\ Return(w) /\ UNCHANGED <<ckpt, waits>>
      <4>1. TaskType'
        BY <1>1, <3>2 DEF Ended, TaskType
      <4> QED
        BY <1>1, <1>2, <1>3, <3>1, <3>2, <4>1, ReturnType
    <3>3. CASE Park(w, "auto", {}, None)
      BY <1>2, <1>3, <2>6, <2>7, <3>1, <3>3
    <3>4. CASE (\E kind \in {"retry", "replan"} : Again(w, kind, {})) /\ UNCHANGED waits
      <4>1. TaskType' /\ WorkerType' /\ CkptType'
        BY <2>7, <3>1, <3>4, AgainType
      <4> QED
        BY <1>2, <1>3, <3>1, <3>4, <4>1
    <3> QED
      BY <2>11, <3>2, <3>3, <3>4 DEF Finish
  <2>12. CASE Abort(w)
    BY <1>1, <1>2, <1>3, <2>12, ReturnType DEF Abort
  <2>13. ASSUME NEW p \in Plan, Replan(w, p)
         PROVE  TypeOK'
    <3>1. TaskType' /\ WorkerType' /\ CkptType'
      BY <1>1, <2>13, BeginPlanType DEF Replan
    <3> QED
      BY <1>2, <1>3, <2>13, <3>1 DEF Replan
  <2> QED
    BY <1>8, <2>1, <2>2, <2>3, <2>4, <2>5, <2>8, <2>9, <2>10, <2>11, <2>12, <2>13 DEF Work
<1>9. ASSUME NEW t \in Token, Approve(t) \/ Reject(t) \/ Revoke(t)
      PROVE  TypeOK'
  <2>1. PICK status \in {"approved", "rejected", "revoked"} : Settle(t, status)
    BY <1>9 DEF Approve, Reject, Revoke
  <2>2. GrantType'
    <3> DEFINE g == [grant[t] EXCEPT !.status = status]
    <3>1. g \in Request
      BY <1>1 DEF GrantType, Request
    <3>2. grant' = [grant EXCEPT ![t] = g]
      BY <2>1 DEF Settle
    <3> HIDE DEF g
    <3> QED
      BY <1>1, <3>1, <3>2 DEF GrantType
  <2> QED
    BY <1>2, <1>3, <2>1, <2>2 DEF Settle
<1>10. ASSUME NEW outcome \in {"completed", "no_effect"}, Judge(outcome)
       PROVE  TypeOK'
  <2>1. ckpt.row \in Key
    BY <1>1, <1>10 DEF Judge, CkptType
  <2>2. JournalType'
    BY <1>1, <1>10, <2>1, JudgeType DEF Judge
  <2> QED
    BY <1>2, <1>3, <1>10, <2>2 DEF Judge
<1>11. CASE SetApproval
  <2>1. TaskType'
    BY <1>1, <1>11 DEF SetApproval, TaskType
  <2> QED
    BY <1>2, <1>3, <1>11, <2>1 DEF SetApproval
<1>12. CASE Cancel
  <2>1. TaskType'
    BY <1>1, <1>12 DEF Cancel, Ended, TaskType
  <2>2. 0 \in 0 .. MaxWaits /\ 0 \in 0 .. MaxCycles - 1 /\ {} \in SUBSET Step
    BY LimitsAssumption
  <2>3. CkptType'
    BY <1>12, <2>2 DEF Cancel, CkptType, CkptRec, NoCheckpoint
  <2> QED
    BY <1>2, <1>3, <1>12, <2>1, <2>3 DEF Cancel
<1>13. CASE UNCHANGED vars
  BY <1>2, <1>3, <1>13 DEF vars
<1> QED
  BY <1>5, <1>6, <1>7, <1>8, <1>9, <1>10, <1>11, <1>12, <1>13 DEF Next

\* Rows and calls keep their shape, and the budget of cycles is kept, for any
\* processes, plans and limits.
THEOREM ApprovalTypeCorrect == Spec => []TypeOK
BY TypeInit, TypeStep, PTL DEF Spec

----------------------------------------------------------------------------
(* Grants                                                                  *)

\* A token that was not given out has no request.
Fresh == \A t \in Token : t > waits => grant[t].status = "none"

LEMMA AgainWorker ==
    ASSUME TypeOK, NEW w \in Worker, NEW kind \in {"retry", "replan"},
           NEW completed \in SUBSET Step, Again(w, kind, completed)
    PROVE  /\ worker'[w].pc # "allowed"
           /\ \A v \in Worker : v # w => worker'[v] = worker[v]
           /\ UNCHANGED task \/ task'.status # "executing"
           /\ ckpt' = ckpt \/ ckpt'.reason # "approval"
           /\ ckpt' = ckpt => task'.status # "executing"
<1>1. /\ worker \in [Worker -> WorkerRec] /\ TaskType /\ CkptType
      /\ w \in DOMAIN worker
  BY TypeParts DEF WorkerType
<1>2. CASE Ended /\ Return(w) /\ UNCHANGED ckpt
  BY <1>1, <1>2 DEF Ended, Return, Idle, TaskType
<1>3. CASE /\ ckpt.cycle + 1 < MaxCycles
           /\ ckpt' = [NoCheckpoint EXCEPT !.kind = kind, !.plan = worker[w].plan,
                            !.completed = completed, !.cycle = ckpt.cycle + 1]
           /\ IF kind = "retry"
              THEN worker' = [worker EXCEPT ![w] =
                        [Idle EXCEPT !.pc = "start", !.plan = worker[w].plan, !.step = 1,
                                     !.known = completed]]
              ELSE Goto(w, "replan")
           /\ UNCHANGED task
  <2>1. ckpt'.cycle = ckpt.cycle + 1 /\ ckpt'.reason = "none" /\ ckpt' # ckpt
    <3>1. ckpt' = [kind |-> kind, reason |-> "none", token |-> 0, plan |-> worker[w].plan,
                   completed |-> completed, row |-> None, cycle |-> ckpt.cycle + 1]
      BY <1>3 DEF NoCheckpoint
    <3>2. ckpt'.cycle = ckpt.cycle + 1 /\ ckpt'.reason = "none"
      BY <3>1
    <3>3. ckpt.cycle + 1 # ckpt.cycle
      BY <1>1, LimitsAssumption DEF CkptType, CkptRec
    <3> QED
      BY <3>2, <3>3
  <2>2. worker'[w].pc # "allowed"
    BY <1>1, <1>3 DEF Goto, Idle, WorkerRec
  <2> QED
    BY <1>1, <1>3, <2>1, <2>2 DEF Goto
<1> QED
  BY <1>2, <1>3 DEF Again

\* A worker holds a permission only while it stands where it was given.
LEMMA Arrives ==
    ASSUME TypeOK, [Next]_vars, NEW v \in Worker, worker'[v].pc = "allowed"
    PROVE  worker'[v] = worker[v] \/ Authorize(v)
<1>1. WorkerType /\ TaskType /\ CkptType /\ CountType
  BY TypeParts
<1>2. ASSUME NEW w \in Worker, NEW p \in Plan, BeginPlan(w, p)
      PROVE  worker'[v] = worker[v]
  BY <1>1, <1>2, EnterType DEF BeginPlan
<1>3. ASSUME NEW w \in Worker, BeginRetry(w), ckpt.plan \in Plan
      PROVE  worker'[v] = worker[v]
  BY <1>1, <1>3, EnterType DEF BeginRetry
<1>4. ASSUME NEW w \in Worker, Restart(w)
      PROVE  worker'[v] = worker[v]
  BY <1>1, <1>2, <1>3, <1>4 DEF Restart, CkptType
<1>5. ASSUME NEW w \in Worker, Return(w)
      PROVE  worker'[v] = worker[v]
  BY <1>1, <1>5, ReturnType DEF Idle
<1>6. ASSUME NEW w \in Worker, Begin(w) \/ Supersede(w) \/ Crash(w)
      PROVE  worker'[v] = worker[v]
  <2>1. CASE Wake(w)
    BY <1>1, <1>3, <2>1 DEF Wake, WaitOver, CkptType
  <2> QED
    BY <1>2, <1>4, <1>5, <1>6, <2>1 DEF Begin, Run, Takeover, Supersede, Crash
<1>7. ASSUME NEW w \in Worker, Work(w)
      PROVE  worker'[v] = worker[v] \/ Authorize(v)
  <2>1. worker \in [Worker -> WorkerRec] /\ w \in DOMAIN worker /\ v \in DOMAIN worker
    BY <1>1 DEF WorkerType
  <2>2. CASE CheckPending(w) \/ Skip(w) \/ Reserve(w) \/ Complete(w)
    <3>1. ASSUME NEW pc \in PC \ {"allowed"}, Goto(w, pc)
          PROVE  worker'[v] = worker[v]
      BY <2>1, <3>1 DEF Goto, WorkerRec
    <3>2. ASSUME NEW x, Doubt(w, x)
          PROVE  worker'[v] = worker[v]
      BY <2>1, <3>2 DEF Doubt, WorkerRec
    <3>3. CASE Pass(w)
      BY <2>1, <3>3 DEF Pass, WorkerRec
    <3> QED
      BY <2>2, <3>1, <3>2, <3>3 DEF CheckPending, Skip, Reserve, Complete, PC
  <2>3. CASE Authorize(w)
    BY <2>1, <2>3 DEF Authorize, Goto
  <2>4. CASE AskApproval(w) \/ Uncertain(w) \/ Abort(w)
    BY <1>5, <2>4 DEF AskApproval, Uncertain, Abort, Park
  <2>5. ASSUME NEW kind \in {"retry", "replan"}, NEW completed \in SUBSET Step,
               Again(w, kind, completed)
        PROVE  worker'[v] = worker[v]
    BY <2>5, AgainWorker
  <2>6. {} \in SUBSET Step /\ worker[w].done \in SUBSET Step
    BY <2>1 DEF WorkerRec
  <2>7. CASE Fail(w)
    BY <2>5, <2>6, <2>7 DEF Fail
  <2>8. CASE Finish(w)
    BY <1>5, <2>5, <2>6, <2>8 DEF Finish, Park
  <2>9. ASSUME NEW p \in Plan, Replan(w, p)
        PROVE  worker'[v] = worker[v]
    BY <1>2, <2>9 DEF Replan
  <2> QED
    BY <1>7, <2>2, <2>3, <2>4, <2>7, <2>8, <2>9 DEF Work
<1>8. CASE \/ \E t \in Token : Approve(t) \/ Reject(t) \/ Revoke(t)
           \/ \E outcome \in {"completed", "no_effect"} : Judge(outcome)
           \/ SetApproval \/ Cancel \/ UNCHANGED vars
  BY <1>8 DEF Approve, Reject, Revoke, Settle, Judge, SetApproval, Cancel, vars
<1> QED
  BY <1>6, <1>7, <1>8 DEF Next

\* What becomes of requests.
LEMMA GrantsLast ==
    ASSUME TypeOK, Fresh, [Next]_vars
    PROVE  /\ Fresh'
           /\ waits' >= waits
           /\ \A t \in Token : t <= waits =>
                grant'[t].plan = grant[t].plan /\ grant'[t].step = grant[t].step
           /\ \A t \in Token : Given(t) => t <= waits /\ Given(t)'
<1>1. GrantType /\ CountType /\ CkptType
  BY TypeParts
<1>2. \A t \in Token : Given(t) => t <= waits
  BY <1>1 DEF Fresh, Given, Token, CountType
<1>3. CASE UNCHANGED grant /\ waits' \in {waits, waits + 1}
  BY <1>1, <1>2, <1>3 DEF Fresh, Given, Token, CountType
<1>4. ASSUME NEW w \in Worker, AskApproval(w)
      PROVE  /\ Fresh'
             /\ waits' >= waits
             /\ \A t \in Token : t <= waits =>
                    grant'[t].plan = grant[t].plan /\ grant'[t].step = grant[t].step
             /\ \A t \in Token : Given(t) => t <= waits /\ Given(t)'
  <2>1. waits' = waits + 1 /\ \A t \in Token : t # waits' => grant'[t] = grant[t]
    BY <1>1, <1>4 DEF AskApproval, Park, GrantType
  <2> QED
    BY <1>1, <1>2, <2>1 DEF Fresh, Given, Token, CountType
<1>5. ASSUME NEW t \in Token, Approve(t) \/ Reject(t) \/ Revoke(t)
      PROVE  /\ Fresh'
             /\ waits' >= waits
             /\ \A u \in Token : u <= waits =>
                    grant'[u].plan = grant[u].plan /\ grant'[u].step = grant[u].step
             /\ \A u \in Token : Given(u) => u <= waits /\ Given(u)'
  <2>1. PICK status \in {"approved", "rejected", "revoked"} :
            /\ Settle(t, status)
            /\ Given(t) => status = "revoked"
    BY <1>5 DEF Approve, Reject, Revoke, Given
  <2>2. /\ waits' = waits
        /\ \A u \in Token : u # t => grant'[u] = grant[u]
        /\ grant'[t] = [grant[t] EXCEPT !.status = status]
    BY <1>1, <2>1 DEF Settle, GrantType
  <2>3. /\ grant'[t].status = status
        /\ grant'[t].plan = grant[t].plan /\ grant'[t].step = grant[t].step
    BY <1>1, <2>2 DEF GrantType, Request
  <2>4. t <= waits
    BY <1>1, <1>5 DEF Approve, Reject, Revoke, Decidable, CkptType, CkptRec, CountType, Fresh, Token
  <2>5. Fresh'
    BY <2>2, <2>4, <1>1 DEF Fresh, Token, CountType
  <2>6. Given(t) => Given(t)'
    BY <2>1, <2>3 DEF Given
  <2>7. \A u \in Token : Given(u) => Given(u)'
    BY <2>2, <2>6 DEF Given
  <2>8. waits' >= waits
    BY <1>1, <2>2 DEF CountType
  <2> QED
    BY <1>2, <2>2, <2>3, <2>5, <2>7, <2>8
<1>6. \/ UNCHANGED grant /\ waits' \in {waits, waits + 1}
      \/ \E w \in Worker : AskApproval(w)
      \/ \E t \in Token : Approve(t) \/ Reject(t) \/ Revoke(t)
  <2>1. ASSUME NEW w \in Worker, Begin(w) \/ Supersede(w) \/ Crash(w)
        PROVE  UNCHANGED <<grant, waits>>
    BY <2>1 DEF Begin, Run, Wake, Takeover, Supersede, Crash, Data
  <2>2. ASSUME NEW w \in Worker, Work(w)
        PROVE  AskApproval(w) \/ (UNCHANGED grant /\ waits' \in {waits, waits + 1})
    BY <2>2 DEF Work, CheckPending, Skip, Authorize, Reserve, Complete, Uncertain, Park, Fail,
                Finish, Abort, Replan, Data
  <2>3. CASE \/ \E outcome \in {"completed", "no_effect"} : Judge(outcome)
             \/ SetApproval \/ Cancel \/ UNCHANGED vars
    BY <2>3 DEF Judge, SetApproval, Cancel, vars, Data
  <2> QED
    BY <2>1, <2>2, <2>3 DEF Next
<1> QED
  BY <1>3, <1>4, <1>5, <1>6

\* A person approved step i of plan p.
Backed(p, i) == \E t \in Token : Given(t) /\ grant[t].plan = p /\ grant[t].step = i

\* A permission, once given to a worker, is backed for good.
Entitled == \A w \in Worker :
    worker[w].pc = "allowed" /\ worker[w].step \in Needs[worker[w].plan] =>
        Backed(worker[w].plan, worker[w].step)

LEMMA BackedLasts ==
    ASSUME TypeOK, Fresh, [Next]_vars, NEW p, NEW i, Backed(p, i)
    PROVE  Backed(p, i)'
<1>1. PICK t \in Token : Given(t) /\ grant[t].plan = p /\ grant[t].step = i
  BY DEF Backed
<1>2. Given(t)' /\ grant'[t].plan = p /\ grant'[t].step = i
  BY <1>1, GrantsLast
<1> QED
  BY <1>2 DEF Backed

\* What a step that needs a grant must have to be reserved.
LEMMA AllowedReady ==
    ASSUME TypeOK, NEW p \in Plan, NEW i \in Needs[p], Allowed(p, i)
    PROVE  /\ ckpt.reason = "approval" /\ ckpt.token \in Token /\ ckpt.token > 0
           /\ Given(ckpt.token)
           /\ grant[ckpt.token].plan = p /\ grant[ckpt.token].step = i
<1>1. Ready(ckpt.token, p, i) /\ Asked(i)
  BY DEF Allowed
<1>2. ckpt.token \in Token /\ ckpt.token > 0
  <2>1. CkptType /\ CountType
    BY TypeParts
  <2>2. ckpt.token = waits /\ waits > 0 /\ waits \in 0 .. MaxWaits /\ MaxWaits \in Nat
    BY <1>1, <2>1, LimitsAssumption DEF Asked, CkptType, CountType
  <2> QED
    BY <2>2 DEF Token
<1>3. grant[ckpt.token] = [status |-> "approved", plan |-> p, step |-> i]
  BY <1>1 DEF Ready
<1>4. ckpt.reason = "approval"
  BY <1>1 DEF Ready
<1> QED
  BY <1>2, <1>3, <1>4 DEF Given

LEMMA EntitledStep ==
    ASSUME TypeOK, Fresh, Entitled, [Next]_vars
    PROVE  Entitled'
<1> SUFFICES ASSUME NEW w \in Worker, NEW p, NEW i, p = worker'[w].plan, i = worker'[w].step,
                    worker'[w].pc = "allowed", i \in Needs[p]
             PROVE  Backed(p, i)'
  BY DEF Entitled
<1>1. CASE worker'[w] = worker[w]
  <2>1. worker[w].pc = "allowed" /\ worker[w].plan = p /\ worker[w].step = i
    BY <1>1
  <2>2. Backed(p, i)
    BY <2>1 DEF Entitled
  <2> QED
    BY <2>2, BackedLasts
<1>2. CASE Authorize(w)
  <2>1. WorkerType
    BY TypeParts
  <2>2. worker[w].pc = "step"
    BY <1>2 DEF Authorize, AtStep
  <2>3. worker[w].plan \in Plan
    BY <2>1, <2>2 DEF WorkerType, Shape
  <2>4. worker'[w].plan = worker[w].plan /\ worker'[w].step = worker[w].step
    BY <1>2, <2>1 DEF Authorize, WorkerType, WorkerRec, Goto
  <2>5. Allowed(worker[w].plan, worker[w].step)
    <3>1. ~Allowed(worker[w].plan, worker[w].step) => Goto(w, "refused")
      BY <1>2 DEF Authorize
    <3>2. Goto(w, "refused") => worker'[w].pc = "refused"
      BY <2>1 DEF Goto, WorkerType, WorkerRec
    <3> QED
      BY <3>1, <3>2
  <2>6. p \in Plan /\ Allowed(p, i)
    BY <2>3, <2>4, <2>5
  <2>7. Backed(p, i)
    BY <2>6, AllowedReady DEF Backed
  <2> QED
    BY <2>7, BackedLasts
<1> QED
  BY <1>1, <1>2, Arrives

\* Only Reserve makes a row that was not there, and only for the call of its worker.
LEMMA JournalGrows ==
    ASSUME TypeOK, [Next]_vars, NEW x \in Key, journal'[x] # "none"
    PROVE  \/ journal[x] # "none"
           \/ \E w \in Worker : worker[w].pc = "allowed" /\ x = Current(w)
<1>1. JournalType /\ CkptType
  BY TypeParts
<1>2. ASSUME UNCHANGED journal
      PROVE  journal[x] # "none"
  BY <1>2
<1>3. ASSUME NEW w \in Worker, Reserve(w)
      PROVE  journal[x] # "none" \/ (worker[w].pc = "allowed" /\ x = Current(w))
  BY <1>1, <1>3 DEF Reserve, JournalType
<1>4. ASSUME NEW w \in Worker, Complete(w)
      PROVE  journal[x] # "none"
  BY <1>1, <1>4 DEF Complete, Open, JournalType
<1>5. ASSUME NEW outcome \in {"completed", "no_effect"}, Judge(outcome)
      PROVE  journal[x] # "none"
  BY <1>1, <1>5 DEF Judge, Open, JournalType
<1>6. ASSUME NEW w \in Worker, Begin(w) \/ Supersede(w) \/ Crash(w)
      PROVE  UNCHANGED journal
  BY <1>6 DEF Begin, Run, Wake, Takeover, Supersede, Crash, Data
<1>7. ASSUME NEW w \in Worker, Work(w)
      PROVE  Reserve(w) \/ Complete(w) \/ UNCHANGED journal
  BY <1>7 DEF Work, CheckPending, Skip, Authorize, AskApproval, Uncertain, Fail, Finish,
              Abort, Replan, Data
<1>8. ASSUME NEW t \in Token, Approve(t) \/ Reject(t) \/ Revoke(t)
      PROVE  UNCHANGED journal
  BY <1>8 DEF Approve, Reject, Revoke, Settle
<1>9. ASSUME SetApproval \/ Cancel \/ UNCHANGED vars
      PROVE  UNCHANGED journal
  BY <1>9 DEF SetApproval, Cancel, vars, Data
<1> QED
  BY <1>2, <1>3, <1>4, <1>5, <1>6, <1>7, <1>8, <1>9 DEF Next

LEMMA GrantedStep ==
    ASSUME TypeOK, Fresh, Entitled, CallsAreGranted, [Next]_vars
    PROVE  CallsAreGranted'
<1> SUFFICES ASSUME NEW p \in Plan, NEW i \in Needs[p], journal'[<<p, i>>] # "none"
             PROVE  Backed(p, i)'
  BY DEF CallsAreGranted, Backed
<1>1. <<p, i>> \in Key
  BY NeedsAssumption DEF Key
<1>2. Backed(p, i)
  <2>1. CASE journal[<<p, i>>] # "none"
    BY <2>1 DEF CallsAreGranted, Backed
  <2>2. ASSUME NEW w \in Worker, worker[w].pc = "allowed", <<p, i>> = Current(w)
        PROVE  Backed(p, i)
    BY <2>2 DEF Entitled, Current
  <2> QED
    BY <1>1, <2>1, <2>2, JournalGrows
<1> QED
  BY <1>2, BackedLasts

\* A step that needs a grant is called only if a person approved this step of
\* this plan, whatever is revoked, taken over or asked again.
THEOREM ApprovalCallsAreGranted == Spec => []CallsAreGranted
<1> DEFINE Sound == TypeOK /\ Fresh /\ Entitled /\ CallsAreGranted
<1>1. Init => Sound
  <2> SUFFICES ASSUME Init
               PROVE  Sound
    OBVIOUS
  <2>1. TypeOK
    BY TypeInit
  <2>2. Fresh
    BY DEF Init, Fresh
  <2>3. \A w \in Worker : worker[w].pc = "idle"
    BY DEF Init, Idle
  <2>4. Entitled
    BY <2>3 DEF Entitled
  <2>5. \A x \in Key : journal[x] = "none"
    BY DEF Init
  <2>6. CallsAreGranted
    BY <2>5, NeedsAssumption DEF CallsAreGranted, Key
  <2> QED
    BY <2>1, <2>2, <2>4, <2>6
<1>2. Sound /\ [Next]_vars => Sound'
  BY TypeStep, GrantsLast, EntitledStep, GrantedStep
<1>3. Sound => CallsAreGranted
  OBVIOUS
<1> QED
  BY <1>1, <1>2, <1>3, PTL DEF Spec

----------------------------------------------------------------------------
(* One call for a grant                                                    *)

\* A grant that was used was given, and was used once; as long as its wait is the
\* checkpoint of the task, its call is in the journal, and cannot be reserved again.
Spent == \A t \in Token : used[t] > 0 =>
    /\ used[t] = 1
    /\ Given(t)
    /\ <<grant[t].plan, grant[t].step>> \in Key
    /\ ckpt.reason = "approval" /\ ckpt.token = t =>
            journal[<<grant[t].plan, grant[t].step>>] \in {"started", "completed"}

\* What holds for worker w if it owns the task and is allowed to call its step by
\* a grant: the grant is for this call, and the task still has the wait of it.
Bound(w) ==
    /\ ckpt.reason = "approval"
    /\ ckpt.token = worker[w].token
    /\ Given(worker[w].token)
    /\ grant[worker[w].token].plan = worker[w].plan
    /\ grant[worker[w].token].step = worker[w].step

Permitted == \A w \in Worker :
    Owner(w) /\ worker[w].pc = "allowed" /\ worker[w].token # 0 => Bound(w)

\* The checkpoint stays while the worker that owns the task is allowed to call.
LEMMA CkptStays ==
    ASSUME TypeOK, [Next]_vars, NEW w \in Worker, worker'[w].pc = "allowed",
           task'.owner = w
    PROVE  Owner(w) /\ ckpt' = ckpt
<1>1. TaskType /\ CkptType /\ WorkerType /\ CountType
  BY TypeParts
<1>2. w # None /\ worker \in [Worker -> WorkerRec] /\ w \in DOMAIN worker
  BY <1>1, NoneAssumption DEF WorkerType
<1>3. ASSUME NEW v \in Worker, NEW p \in Plan, Enter(v, p)
      PROVE  FALSE
  <2>1. v = w
    BY <1>1, <1>3 DEF Enter, TaskType
  <2>2. worker'[w].pc = "start"
    BY <1>2, <1>3, <2>1 DEF Enter, Idle
  <2> QED
    BY <2>2
<1>4. ASSUME NEW v \in Worker, BeginRetry(v), ckpt.plan \in Plan
      PROVE  FALSE
  BY <1>3, <1>4 DEF BeginRetry
<1>5. ASSUME NEW v \in Worker, NEW p \in Plan, BeginPlan(v, p)
      PROVE  FALSE
  BY <1>3, <1>5 DEF BeginPlan
<1>6. ASSUME task' = [task EXCEPT !.status = "waiting", !.owner = None]
      PROVE  FALSE
  BY <1>1, <1>2, <1>6 DEF TaskType
<1>7. ASSUME Ended
      PROVE  FALSE
  BY <1>1, <1>2, <1>7 DEF TaskType, Ended
<1>8. ASSUME NEW v \in Worker, Begin(v) \/ Supersede(v)
      PROVE  FALSE
  <2>1. ~Restart(v)
    BY <1>1, <1>4, <1>5, <1>6 DEF Restart, CkptType
  <2>2. ~Wake(v)
    BY <1>1, <1>4 DEF Wake, WaitOver, CkptType
  <2> QED
    BY <1>5, <1>8, <2>1, <2>2 DEF Begin, Run, Takeover, Supersede
<1>9. ASSUME NEW v \in Worker, NEW kind \in {"retry", "replan"},
             NEW completed \in SUBSET Step, Again(v, kind, completed), CanCommit(v)
      PROVE  FALSE
  <2>1. UNCHANGED task
    BY <1>7, <1>9 DEF Again
  <2>2. v = w
    BY <1>9, <2>1 DEF CanCommit, Owner
  <2> QED
    BY <1>9, <2>2, AgainWorker
<1>10. ASSUME NEW v \in Worker, Work(v)
       PROVE  UNCHANGED <<task, ckpt>>
  <2>1. {} \in SUBSET Step /\ worker[v].done \in SUBSET Step
    BY <1>1 DEF WorkerType, WorkerRec
  <2>2. ~AskApproval(v) /\ ~Uncertain(v)
    BY <1>6 DEF AskApproval, Uncertain, Park
  <2>3. ~Fail(v)
    BY <1>9, <2>1 DEF Fail
  <2>4. ~Finish(v)
    BY <1>6, <1>7, <1>9, <2>1 DEF Finish, Park
  <2>5. \A p \in Plan : ~Replan(v, p)
    BY <1>5 DEF Replan
  <2> QED
    BY <1>10, <2>2, <2>3, <2>4, <2>5
       DEF Work, CheckPending, Skip, Authorize, Reserve, Complete, Abort
<1>11. ASSUME NEW v \in Worker, Crash(v)
       PROVE  UNCHANGED <<task, ckpt>>
  BY <1>11 DEF Crash
<1>12. CASE SetApproval
  <2>1. task'.owner = task.owner
    BY <1>1, <1>12 DEF SetApproval, TaskType
  <2> QED
    BY <1>12, <2>1 DEF SetApproval, Owner
<1>13. ASSUME Cancel
       PROVE  FALSE
  BY <1>7, <1>13 DEF Cancel
<1>14. CASE \/ \E t \in Token : Approve(t) \/ Reject(t) \/ Revoke(t)
            \/ \E outcome \in {"completed", "no_effect"} : Judge(outcome)
            \/ UNCHANGED vars
  BY <1>14 DEF Approve, Reject, Revoke, Settle, Judge, vars, Owner
<1> QED
  BY <1>8, <1>10, <1>11, <1>12, <1>13, <1>14 DEF Next, Owner

\* A checkpoint that waits for an approval is new, and its token too, or was there.
LEMMA CkptMoves ==
    ASSUME TypeOK, [Next]_vars, ckpt'.reason = "approval"
    PROVE  ckpt' = ckpt \/ ckpt'.token = waits + 1
<1>1. TaskType /\ CkptType /\ WorkerType /\ CountType
  BY TypeParts
<1>2. ASSUME NEW w \in Worker, NEW p \in Plan, BeginPlan(w, p)
      PROVE  FALSE
  BY <1>2 DEF BeginPlan, NoCheckpoint
<1>3. ASSUME NEW w \in Worker, Begin(w) \/ Supersede(w) \/ Crash(w)
      PROVE  ckpt' = ckpt
  BY <1>2, <1>3 DEF Begin, Run, Wake, Takeover, Supersede, Restart, BeginRetry, Crash
<1>4. ASSUME NEW w \in Worker, Work(w)
      PROVE  ckpt' = ckpt \/ ckpt'.token = waits + 1
  <2>1. {} \in SUBSET Step /\ worker[w].done \in SUBSET Step
    BY <1>1 DEF WorkerType, WorkerRec
  <2>2. ASSUME NEW kind \in {"retry", "replan"}, NEW completed \in SUBSET Step,
               Again(w, kind, completed)
        PROVE  ckpt' = ckpt
    BY <2>2, AgainWorker
  <2>3. CASE Fail(w)
    BY <2>1, <2>2, <2>3 DEF Fail
  <2>4. CASE Finish(w)
    BY <2>1, <2>2, <2>4 DEF Finish, Park
  <2>5. CASE AskApproval(w) \/ Uncertain(w)
    BY <2>5 DEF AskApproval, Uncertain, Park
  <2>6. \A p \in Plan : ~Replan(w, p)
    BY <1>2 DEF Replan
  <2> QED
    BY <1>4, <2>3, <2>4, <2>5, <2>6
       DEF Work, CheckPending, Skip, Authorize, Reserve, Complete, Abort
<1>5. CASE \/ \E t \in Token : Approve(t) \/ Reject(t) \/ Revoke(t)
           \/ \E outcome \in {"completed", "no_effect"} : Judge(outcome)
           \/ SetApproval \/ UNCHANGED vars
  BY <1>5 DEF Approve, Reject, Revoke, Settle, Judge, SetApproval, vars
<1>6. ~Cancel
  BY DEF Cancel, NoCheckpoint
<1> QED
  BY <1>3, <1>4, <1>5, <1>6 DEF Next

\* A row is taken back only by a verdict on an unknown outcome.
LEMMA RowsStay ==
    ASSUME TypeOK, [Next]_vars, ckpt.reason # "unknown", NEW x \in Key,
           journal[x] \in {"started", "completed"}
    PROVE  journal'[x] \in {"started", "completed"}
<1>1. JournalType
  BY TypeParts
<1>2. CASE UNCHANGED journal
  BY <1>2
<1>3. ASSUME NEW w \in Worker, Reserve(w) \/ Complete(w)
      PROVE  journal'[x] \in {"started", "completed"}
  BY <1>1, <1>3 DEF Reserve, Complete, JournalType
<1>4. ASSUME NEW outcome \in {"completed", "no_effect"}
      PROVE  ~Judge(outcome)
  BY DEF Judge
<1>5. ASSUME NEW w \in Worker, Begin(w) \/ Supersede(w) \/ Crash(w)
      PROVE  UNCHANGED journal
  BY <1>5 DEF Begin, Run, Wake, Takeover, Supersede, Crash, Data
<1>6. ASSUME NEW w \in Worker, Work(w)
      PROVE  Reserve(w) \/ Complete(w) \/ UNCHANGED journal
  BY <1>6 DEF Work, CheckPending, Skip, Authorize, AskApproval, Uncertain, Fail, Finish,
              Abort, Replan, Data
<1>7. ASSUME NEW t \in Token, Approve(t) \/ Reject(t) \/ Revoke(t)
      PROVE  UNCHANGED journal
  BY <1>7 DEF Approve, Reject, Revoke, Settle
<1>8. CASE SetApproval \/ Cancel \/ UNCHANGED vars
  BY <1>2, <1>8 DEF SetApproval, Cancel, vars, Data
<1> QED
  BY <1>2, <1>3, <1>4, <1>5, <1>6, <1>7, <1>8 DEF Next

\* Only a reservation uses a grant.
LEMMA UsedGrows ==
    ASSUME TypeOK, [Next]_vars
    PROVE  \/ UNCHANGED used
           \/ \E w \in Worker :
                /\ worker[w].pc = "allowed" /\ Owner(w)
                /\ Reservable(Current(w))
                /\ journal' = [journal EXCEPT ![Current(w)] = "started"]
                /\ Charge(w)
                /\ UNCHANGED <<ckpt, grant>>
<1>1. ASSUME NEW w \in Worker, Begin(w) \/ Supersede(w) \/ Crash(w)
      PROVE  UNCHANGED used
  BY <1>1 DEF Begin, Run, Wake, Takeover, Supersede, Crash, Data
<1>2. ASSUME NEW w \in Worker, Work(w)
      PROVE  Reserve(w) \/ UNCHANGED used
  BY <1>2 DEF Work, CheckPending, Skip, Authorize, Complete, AskApproval, Uncertain, Fail,
              Finish, Abort, Replan, Data
<1>3. ASSUME NEW w \in Worker, Reserve(w)
      PROVE  \/ UNCHANGED used
             \/ /\ worker[w].pc = "allowed" /\ Owner(w)
                /\ Reservable(Current(w))
                /\ journal' = [journal EXCEPT ![Current(w)] = "started"]
                /\ Charge(w)
                /\ UNCHANGED <<ckpt, grant>>
  BY <1>3 DEF Reserve, CanCommit
<1>4. ASSUME NEW t \in Token, Approve(t) \/ Reject(t) \/ Revoke(t)
      PROVE  UNCHANGED used
  BY <1>4 DEF Approve, Reject, Revoke, Settle
<1>5. CASE \/ \E outcome \in {"completed", "no_effect"} : Judge(outcome)
           \/ SetApproval \/ Cancel \/ UNCHANGED vars
  BY <1>5 DEF Judge, SetApproval, Cancel, vars, Data
<1> QED
  BY <1>1, <1>2, <1>3, <1>4, <1>5 DEF Next

LEMMA PermittedStep ==
    ASSUME TypeOK, Fresh, Permitted, [Next]_vars
    PROVE  Permitted'
<1> SUFFICES ASSUME NEW w \in Worker, task'.owner = w, worker'[w].pc = "allowed",
                    worker'[w].token # 0
             PROVE  Bound(w)'
  BY DEF Permitted, Owner
<1>1. Owner(w) /\ ckpt' = ckpt
  BY CkptStays
<1>2. WorkerType /\ GrantType /\ CountType
  BY TypeParts
<1> PICK t \in Token : t = worker'[w].token
  <2>1. TypeOK'
    BY TypeStep
  <2>2. worker'[w].token \in 0 .. MaxWaits
    BY <2>1 DEF TypeOK
  <2> QED
    BY <2>2, LimitsAssumption DEF Token
<1>3. CASE worker'[w] = worker[w]
  <2>1. Bound(w)
    BY <1>1, <1>3 DEF Permitted
  <2>2. Given(t)
    BY <1>3, <2>1 DEF Bound
  <2>3. t <= waits /\ Given(t)'
    BY <2>2, GrantsLast
  <2>4. grant'[t].plan = grant[t].plan /\ grant'[t].step = grant[t].step
    BY <2>3, GrantsLast
  <2> QED
    BY <1>1, <1>3, <2>1, <2>3, <2>4 DEF Bound, Given
<1>4. CASE Authorize(w)
  <2>1. worker[w].pc = "step"
    BY <1>4 DEF Authorize, AtStep
  <2>2. worker[w].plan \in Plan
    BY <1>2, <2>1 DEF WorkerType, Shape
  <2>3. worker'[w].plan = worker[w].plan /\ worker'[w].step = worker[w].step
    BY <1>2, <1>4 DEF Authorize, WorkerType, WorkerRec, Goto
  <2>4. ~Goto(w, "refused")
    BY <1>2 DEF Goto, WorkerType, WorkerRec
  <2>5. /\ Allowed(worker[w].plan, worker[w].step)
        /\ t = IF worker[w].step \in Needs[worker[w].plan] THEN ckpt.token ELSE 0
    BY <1>2, <1>4, <2>4 DEF Authorize, WorkerType, WorkerRec
  <2>6. worker[w].step \in Needs[worker[w].plan] /\ t = ckpt.token
    BY <2>5
  <2>7. /\ ckpt.reason = "approval" /\ Given(ckpt.token)
        /\ grant[ckpt.token].plan = worker[w].plan /\ grant[ckpt.token].step = worker[w].step
    BY <2>2, <2>5, <2>6, AllowedReady
  <2>8. UNCHANGED <<ckpt, grant>>
    BY <1>4 DEF Authorize, Data
  <2> QED
    BY <2>3, <2>6, <2>7, <2>8 DEF Bound, Given
<1> QED
  BY <1>3, <1>4, Arrives

LEMMA SpentStep ==
    ASSUME TypeOK, Fresh, Spent, Permitted, [Next]_vars
    PROVE  Spent'
<1> SUFFICES ASSUME NEW t \in Token, used'[t] > 0
             PROVE  /\ used'[t] = 1
                    /\ Given(t)'
                    /\ <<grant'[t].plan, grant'[t].step>> \in Key
                    /\ ckpt'.reason = "approval" /\ ckpt'.token = t =>
                        journal'[<<grant'[t].plan, grant'[t].step>>] \in {"started", "completed"}
  BY DEF Spent, Given
<1>1. CkptType /\ GrantType /\ JournalType /\ WorkerType /\ CountType
  BY TypeParts
<1>2. ASSUME used[t] > 0, used'[t] = used[t]
      PROVE  /\ used'[t] = 1
             /\ Given(t)'
             /\ <<grant'[t].plan, grant'[t].step>> \in Key
             /\ ckpt'.reason = "approval" /\ ckpt'.token = t =>
                 journal'[<<grant'[t].plan, grant'[t].step>>] \in {"started", "completed"}
  <2>1. used[t] = 1 /\ Given(t)
    BY <1>2 DEF Spent
  <2>2. t <= waits /\ Given(t)'
    BY <2>1, GrantsLast
  <2>3. grant'[t].plan = grant[t].plan /\ grant'[t].step = grant[t].step
    BY <2>2, GrantsLast
  <2>4. ASSUME ckpt'.reason = "approval", ckpt'.token = t
        PROVE  journal'[<<grant[t].plan, grant[t].step>>] \in {"started", "completed"}
    <3>1. ckpt' = ckpt
      <4>1. t # waits + 1
        BY <1>1, <2>2 DEF CountType, Token
      <4> QED
        BY <2>4, <4>1, CkptMoves
    <3>2. journal[<<grant[t].plan, grant[t].step>>] \in {"started", "completed"}
      BY <1>2, <2>4, <3>1 DEF Spent
    <3>3. <<grant[t].plan, grant[t].step>> \in Key
      BY <1>2 DEF Spent
    <3> QED
      BY <2>4, <3>1, <3>2, <3>3, RowsStay
  <2> QED
    BY <1>2, <2>1, <2>2, <2>3, <2>4 DEF Spent
<1>3. ASSUME NEW w \in Worker, worker[w].pc = "allowed", Owner(w), Reservable(Current(w)),
             journal' = [journal EXCEPT ![Current(w)] = "started"],
             worker[w].token = t, Charge(w), UNCHANGED <<ckpt, grant>>
      PROVE  /\ used'[t] = 1
             /\ Given(t)'
             /\ <<grant'[t].plan, grant'[t].step>> \in Key
             /\ journal'[<<grant'[t].plan, grant'[t].step>>] = "started"
  <2>1. Bound(w)
    BY <1>3 DEF Permitted, Token
  <2>2. <<grant[t].plan, grant[t].step>> = Current(w)
    BY <1>3, <2>1 DEF Bound, Current
  <2>3. Current(w) \in Key
    BY <1>1, <1>3 DEF WorkerType, Shape, Current, Key
  <2>4. journal[Current(w)] \notin {"started", "completed"}
    BY <1>3, <2>3 DEF Reservable, Started, Open
  <2>5. ~(used[t] > 0)
    BY <1>3, <2>1, <2>2, <2>4 DEF Spent, Bound
  <2>6. used'[t] = used[t] + 1
    BY <1>3 DEF Charge
  <2>7. used[t] = 0
    BY <1>1, <2>5 DEF CountType
  <2> QED
    BY <1>1, <1>3, <2>1, <2>2, <2>3, <2>6, <2>7 DEF Bound, Given, JournalType
<1>4. CASE UNCHANGED used
  BY <1>2, <1>4
<1>5. ASSUME NEW w \in Worker, worker[w].token # t, Charge(w)
      PROVE  used'[t] = used[t]
  BY <1>5 DEF Charge
<1> QED
  BY <1>2, <1>3, <1>4, <1>5, UsedGrows

\* A grant is good for one call, and only once it is given: no retry, takeover,
\* revocation or verdict on the first call lets it be used again.
THEOREM ApprovalOneCallPerGrant == Spec => []OneCallPerGrant
<1> DEFINE Charged == TypeOK /\ Fresh /\ Permitted /\ Spent
<1>1. Init => Charged
  <2> SUFFICES ASSUME Init
               PROVE  Charged
    OBVIOUS
  <2>1. TypeOK
    BY TypeInit
  <2>2. Fresh /\ Spent
    BY DEF Init, Fresh, Spent
  <2>3. \A w \in Worker : worker[w].pc = "idle"
    BY DEF Init, Idle
  <2>4. Permitted
    BY <2>3 DEF Permitted
  <2> QED
    BY <2>1, <2>2, <2>4
<1>2. Charged /\ [Next]_vars => Charged'
  BY TypeStep, GrantsLast, PermittedStep, SpentStep
<1>3. Charged => OneCallPerGrant
  BY DEF Spent, OneCallPerGrant
<1> QED
  BY <1>1, <1>2, <1>3, PTL DEF Spec

====
