---- MODULE AlertingProofs ----
(***************************************************************************)
(* Theorems about Alerting for any number of checks and any policy, and that *)
(* its steps are those of Alarm.                                              *)
(***************************************************************************)
EXTENDS Alerting, TLAPS

----------------------------------------------------------------------------
(* Type correctness                                                        *)

RunRec == [pc : {"idle", "next", "sent"}, at : Check, queue : SUBSET Check]

FileType ==
    /\ file \in [Check -> Entry]
    /\ \A c \in Check : file[c].state # "active" => file[c].notified = Never

RunType ==
    /\ run \in RunRec
    /\ \A c \in run.queue : file[c].state # "none"

\* The message that was sent is that of its entry, and is not sent again by this run.
Sending == run.pc = "sent" =>
    /\ run.at \notin run.queue
    /\ file[run.at].state # "none"
    /\ told[run.at] = Said(run.at)

Reported ==
    /\ failing \subseteq Check
    /\ slack \in BOOLEAN
    /\ told \in [Check -> {"nothing", "alert", "urgent", "resolved"}]

LEMMA TypeParts == TypeOK <=> FileType /\ RunType /\ Reported
BY DEF TypeOK, FileType, RunType, RunRec, Reported

\* Ages, and the entry of a check that nothing is known of.
LEMMA Ages ==
    /\ Longest \in Nat /\ 0 \in 0 .. Longest /\ 0 \in Message
    /\ Never \in Message
    /\ 0 \in 0 .. Escalation
    /\ 1 \in Check
    /\ \A most \in Nat : \A age \in 0 .. most : Sum(age, most) \in 0 .. most
BY PolicyAssumption, CheckAssumption DEF Longest, Message, Check, Sum

LEMMA NoEntryType ==
    /\ NoEntry \in Entry /\ NoEntry.state = "none" /\ NoEntry.notified = Never
    /\ \A state \in {"active", "resolved"} :
        LET e == [NoEntry EXCEPT !.state = state]
        IN  e \in Entry /\ e.state = state /\ e.notified = Never
BY Ages DEF NoEntry, Entry

LEMMA TypeInit == Init => TypeOK /\ Sending
<1> SUFFICES ASSUME Init PROVE TypeOK /\ Sending
  OBVIOUS
<1>1. FileType
  BY NoEntryType DEF Init, FileType
<1>2. RunType /\ Sending
  BY Ages DEF Init, RunType, RunRec, Sending
<1>3. Reported
  BY DEF Init, Reported
<1> QED
  BY <1>1, <1>2, <1>3, TypeParts

\* The comparison of report and file.
LEMMA MergedType ==
    ASSUME FileType, NEW c \in Check
    PROVE  /\ Merged(c) \in Entry
           /\ Merged(c).state = "active" <=> c \in failing
           /\ Merged(c).state # "active" => Merged(c).notified = Never
           /\ Merged(c).notified # Never => Merged(c).notified = file[c].notified
BY NoEntryType DEF FileType, Merged, Active

LEMMA DueMerged ==
    ASSUME FileType, NEW c \in Check, Due(Merged(c))
    PROVE  Merged(c).state # "none"
BY DEF Due

\* The record of a message.
LEMMA RecordedType ==
    ASSUME FileType, NEW c \in Check, file[c].state # "none"
    PROVE  /\ Recorded(c) \in [Check -> Entry]
           /\ \A d \in Check : d # c => Recorded(c)[d] = file[d]
           /\ Active(c) => Recorded(c)[c].state = "active"
           /\ ~Active(c) => Recorded(c)[c] = NoEntry
<1>1. file \in [Check -> Entry] /\ file[c] \in Entry
  BY DEF FileType
<1>2. CASE Resolved(c)
  <2>1. Recorded(c) = [file EXCEPT ![c] = NoEntry]
    BY <1>2 DEF Recorded
  <2>2. ~Active(c)
    BY <1>2 DEF Resolved, Active
  <2> QED
    BY <1>1, <2>1, <2>2, NoEntryType
<1>3. CASE ~Resolved(c)
  <2> DEFINE e == [file[c] EXCEPT !.emitted = 0, !.notified = 0, !.escalated = Late(file[c])]
  <2>1. Recorded(c) = [file EXCEPT ![c] = e]
    BY <1>3 DEF Recorded
  <2>2. file[c].state = "active"
    BY <1>1, <1>3 DEF Resolved, Entry
  <2>3. Late(file[c]) \in BOOLEAN
    BY DEF Late
  <2>4. e \in Entry /\ e.state = "active"
    BY <1>1, <2>2, <2>3, Ages DEF Entry
  <2> HIDE DEF e
  <2> QED
    BY <1>1, <2>1, <2>2, <2>4 DEF Active
<1> QED
  BY <1>2, <1>3

\* Time passes for an entry.
LEMMA OlderType ==
    ASSUME NEW e \in Entry
    PROVE  /\ Older(e) \in Entry
           /\ Older(e).state = e.state
           /\ e.notified = Never <=> Older(e).notified = Never
<1>1. CASE e.state = "none"
  BY <1>1 DEF Older
<1>2. CASE e.state # "none"
  <2> DEFINE seen == IF e.state = "active" THEN Sum(e.seen, Escalation) ELSE 0
             notified == IF e.notified = Never THEN Never ELSE Sum(e.notified, Longest)
             emitted == IF e.emitted = Never THEN Never ELSE Sum(e.emitted, Longest)
  <2>1. seen \in 0 .. Escalation
    BY Ages, PolicyAssumption DEF Entry
  <2>2. notified \in Message /\ (e.notified # Never => notified # Never)
    <3>1. CASE e.notified = Never
      BY <3>1, Ages
    <3>2. CASE e.notified # Never
      <4>1. notified \in 0 .. Longest
        BY <3>2, Ages DEF Entry, Message
      <4> QED
        BY <3>2, <4>1, Ages, NeverAssumption DEF Message
    <3> QED
      BY <3>1, <3>2
  <2>3. emitted \in Message
    <3>1. CASE e.emitted = Never
      BY <3>1, Ages
    <3>2. CASE e.emitted # Never
      BY <3>2, Ages DEF Entry, Message
    <3> QED
      BY <3>1, <3>2
  <2>4. Older(e) = [e EXCEPT !.seen = seen, !.notified = notified, !.emitted = emitted]
    BY <1>2 DEF Older
  <2>5. e.notified = Never => notified = Never
    OBVIOUS
  <2> HIDE DEF seen, notified, emitted
  <2> QED
    BY <2>1, <2>2, <2>3, <2>4, <2>5 DEF Entry
<1> QED
  BY <1>1, <1>2

\* What a run has to say and who is told, after a step that keeps the file.
LEMMA ReachType ==
    ASSUME TypeOK, NEW c \in run.queue, Reach(c)
    PROVE  /\ c \in Check
           /\ told' \in [Check -> {"nothing", "alert", "urgent", "resolved"}]
           /\ \A d \in Check : told'[d] = IF d = c THEN Said(c) ELSE told[d]
           /\ Active(c) => Said(c) \in {"alert", "urgent"}
           /\ ~Active(c) => Said(c) = "resolved"
<1>1. c \in Check /\ file[c].state \in {"active", "resolved"}
  BY DEF TypeOK, Entry
<1>2. told \in [Check -> {"nothing", "alert", "urgent", "resolved"}]
  BY DEF TypeOK
<1>3. Said(c) \in {"alert", "urgent", "resolved"}
  BY DEF Said
<1> QED
  BY <1>1, <1>2, <1>3 DEF Reach, Said, Active, Resolved

LEMMA ContinueType ==
    ASSUME run \in RunRec, NEW queue \in SUBSET Check, Continue(queue) \/ Return
    PROVE  run' \in RunRec /\ run'.pc # "sent" /\ run'.queue \subseteq queue
<1>1. {} \in SUBSET Check
  OBVIOUS
<1>2. CASE Return
  <2>1. run' = [pc |-> "idle", at |-> 1, queue |-> {}]
    BY <1>2 DEF Return, RunRec
  <2> QED
    BY <1>1, <2>1, Ages DEF RunRec
<1>3. CASE run' = [pc |-> "next", at |-> 1, queue |-> queue]
  BY <1>3, Ages DEF RunRec
<1> QED
  BY <1>2, <1>3 DEF Continue

\* Every step keeps the shape, and what was sent is what the file has to record.
LEMMA TypeStep ==
    ASSUME TypeOK, Sending, [Next]_vars
    PROVE  TypeOK' /\ Sending'
<1>1. FileType /\ RunType /\ Reported
  BY TypeParts
<1>2. run \in RunRec /\ run.queue \in SUBSET Check /\ run.at \in Check
  BY <1>1 DEF RunType, RunRec
<1>3. ASSUME FileType', RunType', Reported', Sending'
      PROVE  TypeOK' /\ Sending'
  BY <1>3 DEF TypeOK, FileType, RunType, RunRec, Reported
<1>4. ASSUME UNCHANGED <<failing, slack, told>>
      PROVE  Reported'
  BY <1>1, <1>4 DEF Reported
<1>5. CASE Evaluate
  <2> DEFINE after == [c \in Check |-> Merged(c)]
             due == {c \in Check : Due(after[c])}
  <2>1. file' = after /\ run' = [run EXCEPT !.pc = IF due = {} THEN "idle" ELSE "next", !.queue = due]
    BY <1>5 DEF Evaluate
  <2>2. FileType'
    BY <1>1, <2>1, MergedType DEF FileType
  <2>3. due \in SUBSET Check /\ \A c \in due : after[c].state # "none"
    BY <1>1, DueMerged
  <2> HIDE DEF after, due
  <2>4. RunType'
    BY <1>2, <2>1, <2>3 DEF RunType, RunRec
  <2>5. Sending'
    BY <1>2, <2>1 DEF Sending, RunRec
  <2> QED
    BY <1>3, <1>4, <1>5, <2>2, <2>4, <2>5 DEF Evaluate
<1>6. CASE Record
  <2> PICK c \in Check : c = run.at
    BY <1>2
  <2>1. file[c].state # "none" /\ c \notin run.queue
    BY <1>6 DEF Record, Sending
  <2>2. /\ file' \in [Check -> Entry]
        /\ \A d \in Check : d # c => file'[d] = file[d]
        /\ Active(c) => file'[c].state = "active"
        /\ ~Active(c) => file'[c] = NoEntry
    BY <1>1, <1>6, <2>1, RecordedType DEF Record
  <2>3. FileType'
    BY <1>1, <2>2, NoEntryType DEF FileType
  <2>4. run' \in RunRec /\ run'.pc # "sent" /\ run'.queue \subseteq run.queue
    BY <1>2, <1>6, ContinueType DEF Record
  <2>5. RunType'
    BY <1>1, <1>2, <2>1, <2>2, <2>4 DEF RunType
  <2>6. Sending'
    BY <2>4 DEF Sending
  <2> QED
    BY <1>3, <1>4, <1>6, <2>3, <2>5, <2>6 DEF Record
<1>7. ASSUME NEW c \in Check, Deliver(c)
      PROVE  TypeOK' /\ Sending'
  <2>1. c \in run.queue /\ Reach(c) /\ UNCHANGED <<failing, slack, file>>
    BY <1>7 DEF Deliver, First
  <2>2. /\ told' \in [Check -> {"nothing", "alert", "urgent", "resolved"}]
        /\ told'[c] = Said(c)
    BY <2>1, ReachType
  <2>3. run' = [pc |-> "sent", at |-> c, queue |-> run.queue \ {c}]
    BY <1>7 DEF Deliver
  <2>4. FileType' /\ Reported'
    BY <1>1, <2>1, <2>2 DEF FileType, Reported
  <2>5. RunType'
    BY <1>1, <1>2, <2>1, <2>3 DEF RunType, RunRec
  <2>6. Sending'
    BY <1>1, <2>1, <2>2, <2>3 DEF Sending, Said, Resolved, RunType
  <2> QED
    BY <1>3, <2>4, <2>5, <2>6
<1>8. ASSUME NEW c \in Check, Refuse(c)
      PROVE  TypeOK' /\ Sending'
  <2>1. c \in run.queue /\ (Reach(c) \/ UNCHANGED told) /\ UNCHANGED <<failing, slack, file>>
    BY <1>8 DEF Refuse, First
  <2>2. told' \in [Check -> {"nothing", "alert", "urgent", "resolved"}]
    BY <1>1, <2>1, ReachType DEF Reported
  <2>3. run' \in RunRec /\ run'.pc # "sent" /\ run'.queue \subseteq run.queue
    BY <1>2, <1>8, ContinueType DEF Refuse
  <2>4. FileType' /\ Reported' /\ RunType' /\ Sending'
    BY <1>1, <2>1, <2>2, <2>3 DEF FileType, Reported, RunType, Sending
  <2> QED
    BY <1>3, <2>4
<1>9. ASSUME NEW c \in Check, Emit(c)
      PROVE  TypeOK' /\ Sending'
  <2> DEFINE e == [file[c] EXCEPT !.emitted = 0,
                        !.escalated = IF Active(c) THEN Late(file[c]) ELSE @]
  <2>1. file[c] \in Entry /\ c \in DOMAIN file
    BY <1>1 DEF FileType
  <2>2. file' = [file EXCEPT ![c] = e]
    BY <1>9, <2>1 DEF Emit
  <2>3. (IF Active(c) THEN Late(file[c]) ELSE file[c].escalated) \in BOOLEAN
    BY <2>1 DEF Late, Entry
  <2>4. e \in Entry /\ e.state = file[c].state /\ e.notified = file[c].notified
    BY <2>1, <2>3, Ages DEF Entry
  <2> HIDE DEF e
  <2>5. FileType' /\ \A d \in Check : file'[d].state = file[d].state
    BY <1>1, <2>2, <2>4 DEF FileType
  <2>6. run' \in RunRec /\ run'.pc # "sent" /\ run'.queue \subseteq run.queue
    <3>1. run.queue \ {c} \in SUBSET Check
      BY <1>2
    <3> QED
      BY <1>2, <1>9, <3>1, ContinueType DEF Emit
  <2>7. RunType' /\ Sending'
    BY <1>1, <1>2, <2>5, <2>6 DEF RunType, Sending
  <2> QED
    BY <1>3, <1>4, <1>9, <2>5, <2>7 DEF Emit
<1>10. CASE Crash
  <2>1. run' \in RunRec /\ run'.pc # "sent" /\ run'.queue \subseteq run.queue
    BY <1>2, <1>10, ContinueType DEF Crash
  <2>2. FileType' /\ RunType' /\ Sending'
    BY <1>1, <1>10, <2>1 DEF Crash, FileType, RunType, Sending
  <2> QED
    BY <1>3, <1>4, <1>10, <2>2 DEF Crash
<1>11. CASE Tick
  <2>1. \A c \in Check : /\ file'[c] \in Entry
                         /\ file'[c].state = file[c].state
                         /\ file[c].notified = Never => file'[c].notified = Never
    BY <1>1, <1>11, OlderType DEF Tick, Age, FileType
  <2>2. file' \in [Check -> Entry]
    BY <1>11, <2>1 DEF Tick, Age
  <2>3. FileType' /\ RunType' /\ Sending'
    BY <1>1, <1>2, <1>11, <2>1, <2>2 DEF FileType, RunType, Sending, Tick, Age
  <2> QED
    BY <1>3, <1>4, <1>11, <2>3 DEF Tick, Age
<1>12. CASE Configure
  <2>1. Reported'
    BY <1>1, <1>12 DEF Configure, Reported
  <2>2. FileType' /\ RunType' /\ Sending'
    BY <1>1, <1>12 DEF Configure, FileType, RunType, Sending
  <2> QED
    BY <1>3, <2>1, <2>2
<1>13. ASSUME NEW c \in Check, Change(c)
       PROVE  TypeOK' /\ Sending'
  <2>1. Reported'
    BY <1>1, <1>13 DEF Change, Reported
  <2>2. FileType' /\ RunType' /\ Sending'
    BY <1>1, <1>13 DEF Change, FileType, RunType, Sending, Said, Resolved
  <2> QED
    BY <1>3, <2>1, <2>2
<1>14. CASE UNCHANGED vars
  BY <1>1, <1>3, <1>14 DEF vars, FileType, RunType, Reported, Sending, Said, Resolved
<1> QED
  BY <1>5, <1>6, <1>7, <1>8, <1>9, <1>10, <1>11, <1>12, <1>13, <1>14 DEF Next, Work

\* Reports, entries, runs and messages keep their shape, for any number of checks and any
\* policy.
THEOREM AlertingTypeCorrect == Spec => []TypeOK
BY TypeInit, TypeStep, PTL DEF Spec

----------------------------------------------------------------------------
(* What the file says of messages                                          *)

LEMMA NotifiedStep ==
    ASSUME TypeOK, Sending, NotifiedIsTold, [Next]_vars
    PROVE  NotifiedIsTold'
<1>1. FileType /\ RunType /\ Reported
  BY TypeParts
<1>2. ASSUME NEW c \in run.queue, Reach(c), UNCHANGED file
      PROVE  NotifiedIsTold'
  <2> SUFFICES ASSUME NEW d \in Check, file[d].notified # Never
               PROVE  told'[d] \in {"alert", "urgent"}
    BY <1>2 DEF NotifiedIsTold, Raised
  <2>1. told[d] \in {"alert", "urgent"} /\ Active(d)
    BY <1>1 DEF NotifiedIsTold, Raised, FileType, Active
  <2> QED
    BY <1>2, <2>1, ReachType
<1>3. CASE Evaluate
  <2> SUFFICES ASSUME NEW c \in Check, Merged(c).notified # Never
               PROVE  told[c] \in {"alert", "urgent"}
    BY <1>3 DEF NotifiedIsTold, Raised, Evaluate
  <2> QED
    BY <1>1, MergedType DEF NotifiedIsTold, Raised
<1>4. CASE Record
  <2> PICK c \in Check : c = run.at
    BY <1>1 DEF RunType, RunRec
  <2>1. file[c].state # "none" /\ told[c] = Said(c)
    BY <1>4 DEF Record, Sending
  <2>2. /\ \A d \in Check : d # c => file'[d] = file[d]
        /\ ~Active(c) => file'[c] = NoEntry
    BY <1>1, <1>4, <2>1, RecordedType DEF Record
  <2>3. Active(c) => told[c] \in {"alert", "urgent"}
    BY <2>1 DEF Said, Active, Resolved
  <2> QED
    BY <1>4, <2>2, <2>3, NoEntryType DEF NotifiedIsTold, Raised, Record
<1>5. ASSUME NEW c \in Check, Deliver(c) \/ Refuse(c)
      PROVE  NotifiedIsTold'
  <2>1. c \in run.queue /\ UNCHANGED file /\ (Reach(c) \/ UNCHANGED told)
    BY <1>5 DEF Deliver, Refuse, First
  <2> QED
    BY <1>2, <2>1 DEF NotifiedIsTold, Raised
<1>6. ASSUME NEW c \in Check, Emit(c)
      PROVE  NotifiedIsTold'
  <2>1. \A d \in Check : file'[d].notified = file[d].notified
    BY <1>1, <1>6 DEF Emit, FileType, Entry
  <2> QED
    BY <1>6, <2>1 DEF Emit, NotifiedIsTold, Raised
<1>7. CASE Tick
  <2>1. \A c \in Check : file'[c].notified # Never => file[c].notified # Never
    BY <1>1, <1>7, OlderType DEF Tick, Age, FileType
  <2> QED
    BY <1>7, <2>1 DEF Tick, Age, NotifiedIsTold, Raised
<1>8. CASE Crash \/ Configure \/ (\E c \in Check : Change(c)) \/ UNCHANGED vars
  BY <1>8 DEF Crash, Configure, Change, vars, NotifiedIsTold, Raised
<1> QED
  BY <1>3, <1>4, <1>5, <1>6, <1>7, <1>8 DEF Next, Work

\* An alert is in the file as notified only when the channel has said it, whatever
\* run is killed and whatever message is refused.
THEOREM AlertingNotifiedIsTold == Spec => []NotifiedIsTold
<1>1. Init => NotifiedIsTold
  BY DEF Init, NotifiedIsTold, NoEntry
<1> QED
  BY <1>1, TypeInit, TypeStep, NotifiedStep, PTL DEF Spec

----------------------------------------------------------------------------
(* Alerting implements Alarm                                               *)

Noticed == {c \in Check : Active(c)}

Told == [c \in Check |-> IF Raised(c) THEN "raised" ELSE told[c]]

\* A message is one of Alarm's: the word for what was noticed.
LEMMA ReachStep ==
    ASSUME TypeOK, slack, NEW c \in run.queue, Reach(c), UNCHANGED <<failing, slack, file>>
    PROVE  c \in Check /\ (Promise!Raise(c) \/ Promise!Resolve(c))
<1>1. /\ c \in Check
      /\ \A d \in Check : told'[d] = IF d = c THEN Said(c) ELSE told[d]
      /\ Active(c) => Said(c) \in {"alert", "urgent"}
      /\ ~Active(c) => Said(c) = "resolved"
  BY ReachType
<1>2. UNCHANGED Noticed
  BY DEF Noticed, Active
<1>3. CASE Active(c)
  <2>1. \A d \in Check : Told'[d] = [Told EXCEPT ![c] = "raised"][d]
    BY <1>1, <1>3 DEF Told, Raised
  <2>2. Told' = [Told EXCEPT ![c] = "raised"]
    BY <2>1 DEF Told
  <2> QED
    BY <1>1, <1>2, <1>3, <2>2 DEF Promise!Raise, Promise!Say, Told, Noticed
<1>4. CASE ~Active(c)
  <2>1. \A d \in Check : Told'[d] = [Told EXCEPT ![c] = "resolved"][d]
    BY <1>1, <1>4 DEF Told, Raised
  <2>2. Told' = [Told EXCEPT ![c] = "resolved"]
    BY <2>1 DEF Told
  <2> QED
    BY <1>1, <1>2, <1>4, <2>2 DEF Promise!Resolve, Promise!Say, Told, Noticed
<1> QED
  BY <1>3, <1>4

LEMMA AlarmStep ==
    ASSUME TypeOK, Sending, [Next]_vars
    PROVE  [Promise!Next]_(Promise!vars)
<1>1. FileType /\ RunType /\ Reported
  BY TypeParts
<1>2. ASSUME UNCHANGED <<failing, slack, told>>, \A c \in Check : file'[c].state = file[c].state
      PROVE  UNCHANGED Promise!vars
  BY <1>2 DEF Promise!vars, Active, Raised
<1>3. CASE Evaluate
  <2>1. \A c \in Check : Active(c)' <=> c \in failing
    BY <1>1, <1>3, MergedType DEF Evaluate, Active
  <2>2. Noticed' = failing
    BY <1>1, <2>1 DEF Noticed, Reported
  <2>3. UNCHANGED <<failing, slack, Told>>
    BY <1>3 DEF Evaluate, Told, Raised
  <2> QED
    BY <2>2, <2>3 DEF Promise!Next, Promise!Look, Noticed, Told
<1>4. CASE Record
  <2> PICK c \in Check : c = run.at
    BY <1>1 DEF RunType, RunRec
  <2>1. /\ \A d \in Check : d # c => file'[d] = file[d]
        /\ Active(c) => file'[c].state = "active"
        /\ ~Active(c) => file'[c] = NoEntry
    BY <1>1, <1>4, RecordedType DEF Record, Sending
  <2>2. \A d \in Check : Active(d)' <=> Active(d)
    BY <2>1, NoEntryType DEF Active
  <2> QED
    BY <1>4, <2>2 DEF Record, Promise!vars, Raised
<1>5. ASSUME NEW c \in Check, Deliver(c) \/ Refuse(c)
      PROVE  [Promise!Next]_(Promise!vars)
  <2>1. /\ c \in run.queue /\ slack /\ UNCHANGED <<failing, slack, file>>
        /\ Reach(c) \/ UNCHANGED told
    BY <1>5 DEF Deliver, Refuse, First
  <2> QED
    BY <1>2, <2>1, ReachStep DEF Promise!Next
<1>6. ASSUME NEW c \in Check, Emit(c)
      PROVE  UNCHANGED Promise!vars
  <2>1. \A d \in Check : file'[d].state = file[d].state
    BY <1>1, <1>6 DEF Emit, FileType, Entry
  <2> QED
    BY <1>2, <1>6, <2>1 DEF Emit
<1>7. CASE Tick
  <2>1. \A c \in Check : file'[c].state = file[c].state
    BY <1>1, <1>7, OlderType DEF Tick, Age, FileType
  <2> QED
    BY <1>2, <1>7, <2>1 DEF Tick, Age
<1>8. CASE Configure
  BY <1>8 DEF Configure, Promise!Next, Promise!Switch, Active, Raised
<1>9. ASSUME NEW c \in Check, Change(c)
      PROVE  Promise!Change(c)
  BY <1>9 DEF Change, Promise!Change, Active, Raised
<1>10. CASE Crash \/ UNCHANGED vars
  BY <1>2, <1>10 DEF Crash, vars
<1> QED
  BY <1>3, <1>4, <1>5, <1>6, <1>7, <1>8, <1>9, <1>10 DEF Next, Work, Promise!Next

\* Nothing is said of a check but what the last comparison found, and only while
\* there is a channel: the steps of Alerting are those of Alarm.
THEOREM AlertingIsAlarm == Spec => Promise!Spec
<1>1. Init => Promise!Init
  BY DEF Init, Promise!Init, NoEntry, Active, Raised
<1> QED
  BY <1>1, TypeInit, TypeStep, AlarmStep, PTL DEF Spec, Promise!Spec

====
