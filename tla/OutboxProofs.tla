---- MODULE OutboxProofs ----
(***************************************************************************)
(* Theorems about DecisionOutbox for any questions, answers and publishing   *)
(* processes.                                                                *)
(***************************************************************************)
EXTENDS DecisionOutbox, TLAPS

----------------------------------------------------------------------------
(* Type correctness                                                        *)

Busy == {"claimed", "absent", "done", "unsafe", "error"}

Pub == [pc : {"idle", "scan"} \cup Busy, id : Interaction \cup {None}, token : Nat,
        seen : SUBSET Interaction]

\* What is known of a publisher.
LEMMA PubFacts ==
    ASSUME TypeOK, NEW p \in Publisher
    PROVE  /\ pub \in [Publisher -> Pub]
           /\ pub[p] \in Pub
           /\ pub[p].pc \in Busy => pub[p].id \in Interaction
<1>1. pub \in [Publisher -> Pub]
  BY DEF TypeOK, Pub, Busy
<1> QED
  BY <1>1 DEF TypeOK, Pub, Busy

\* A move that keeps the row a publisher works on.
LEMMA GotoType ==
    ASSUME TypeOK, NEW p \in Publisher, NEW pc \in {"scan"} \cup Busy, Goto(p, pc),
           pc \in Busy => pub[p].id \in Interaction
    PROVE  /\ pub' \in [Publisher -> Pub]
           /\ \A q \in Publisher : pub'[q].pc \in Busy => pub'[q].id \in Interaction
           /\ \A q \in Publisher :
                pub'[q] = IF q = p THEN [pub[p] EXCEPT !.pc = pc] ELSE pub[q]
           /\ pub'[p].pc = pc /\ pub'[p].id = pub[p].id
<1>1. /\ pub \in [Publisher -> Pub]
      /\ pub[p] \in Pub
      /\ \A q \in Publisher : pub[q].pc \in Busy => pub[q].id \in Interaction
  BY PubFacts
<1>2. [pub[p] EXCEPT !.pc = pc] \in Pub
  BY <1>1 DEF Pub
<1>3. \A q \in Publisher : pub'[q] = IF q = p THEN [pub[p] EXCEPT !.pc = pc] ELSE pub[q]
  BY <1>1 DEF Goto
<1>4. pub'[p].pc = pc /\ pub'[p].id = pub[p].id
  BY <1>1, <1>3 DEF Pub
<1>5. pub' \in [Publisher -> Pub]
  BY <1>1, <1>2 DEF Goto
<1> QED
  BY <1>1, <1>3, <1>4, <1>5

LEMMA TypeInit == Init => TypeOK
<1> SUFFICES ASSUME Init PROVE TypeOK
  OBVIOUS
<1>1. /\ task \in [status : {"working", "waiting", "ended"}, token : Interaction \cup {None}]
      /\ inter \in [Interaction -> [status : {"none", "pending", "answered", "superseded"},
                                    answer : Answer \cup {None}, kept : BOOLEAN]]
  BY DEF Init
<1>2. /\ outbox \in [Interaction ->
            [status : {"none", "pending", "publishing", "published", "blocked"},
             token : Nat, live : BOOLEAN, attempts : Nat]]
      /\ \A i \in Interaction : outbox[i].status # "publishing" =>
            outbox[i].token = 0 /\ ~outbox[i].live
  BY DEF Init
<1>3. /\ pub \in [Publisher -> Pub]
      /\ \A p \in Publisher : pub[p].pc \notin {"idle", "scan"} => pub[p].id \in Interaction
  BY DEF Init, Idle, Pub
<1>4. faults \in 0 .. MaxFaults /\ edits \in 0 .. MaxEdits
  BY BoundAssumption DEF Init
<1> QED
  BY <1>1, <1>2, <1>3, <1>4 DEF Init, TypeOK, Pub, Busy

TaskType ==
    task \in [status : {"working", "waiting", "ended"}, token : Interaction \cup {None}]

InterType ==
    inter \in [Interaction -> [status : {"none", "pending", "answered", "superseded"},
                               answer : Answer \cup {None}, kept : BOOLEAN]]

Row == [status : {"none", "pending", "publishing", "published", "blocked"},
        token : Nat, live : BOOLEAN, attempts : Nat]

OutboxType ==
    /\ outbox \in [Interaction -> Row]
    /\ \A i \in Interaction : outbox[i].status # "publishing" =>
            outbox[i].token = 0 /\ ~outbox[i].live

PubType ==
    /\ pub \in [Publisher -> Pub]
    /\ \A p \in Publisher : pub[p].pc \in Busy => pub[p].id \in Interaction

RestType ==
    /\ note \in [Interaction -> {"none", "decision", "edited"}]
    /\ faults \in 0 .. MaxFaults /\ edits \in 0 .. MaxEdits
    /\ held \subseteq Interaction

LEMMA TypeParts == TypeOK <=> TaskType /\ InterType /\ OutboxType /\ PubType /\ RestType
<1>1. PubType <=>
        /\ pub \in [Publisher ->
            [pc : {"idle", "scan", "claimed", "absent", "done", "unsafe", "error"},
             id : Interaction \cup {None}, token : Nat, seen : SUBSET Interaction]]
        /\ \A p \in Publisher : pub[p].pc \notin {"idle", "scan"} => pub[p].id \in Interaction
  <2>1. {"idle", "scan"} \cup Busy =
            {"idle", "scan", "claimed", "absent", "done", "unsafe", "error"}
    BY DEF Busy
  <2> QED
    BY <2>1 DEF PubType, Pub, Busy
<1> QED
  BY <1>1 DEF TypeOK, TaskType, InterType, OutboxType, Row, RestType

\* The row of the outbox after one field changed.
LEMMA RowType ==
    ASSUME OutboxType, NEW i \in Interaction, NEW row \in Row,
           outbox' = [outbox EXCEPT ![i] = row],
           row.status # "publishing" => row.token = 0 /\ ~row.live
    PROVE  OutboxType'
BY DEF OutboxType

\* A row of the outbox belongs to an answer that is to be kept.
Queue == \A i \in Interaction : outbox[i].status # "none" =>
            inter[i].status = "answered" /\ inter[i].kept

\* What no step takes back: answers, rows, decisions in the vault, what people wrote.
LEMMA Lasting ==
    ASSUME TypeOK, [Next]_vars, NEW i \in Interaction
    PROVE  /\ inter[i].status = "answered" => inter'[i] = inter[i]
           /\ outbox[i].status # "none" => outbox'[i].status # "none"
           /\ held \subseteq held'
           /\ note[i] = "edited" => note'[i] = "edited"
           /\ note[i] # "none" => note'[i] # "none"
<1>1. InterType /\ OutboxType /\ PubType /\ RestType
  BY TypeParts
<1>2. inter[i].status = "answered" => inter'[i] = inter[i]
  <2>1. CASE UNCHANGED inter
    BY <2>1
  <2>2. ASSUME NEW j \in Interaction, Ask(j), inter[i].status = "answered"
        PROVE  inter'[i] = inter[i]
    <3>1. j # i
      BY <2>2 DEF Ask
    <3>2. Superseded(j)[i] = inter[i]
      BY <2>2 DEF Superseded
    <3> QED
      BY <1>1, <2>2, <3>1, <3>2 DEF Ask, Superseded
  <2>3. ASSUME NEW j \in Interaction, NEW a \in Answer, Give(j, a), inter[i].status = "answered"
        PROVE  inter'[i] = inter[i]
    BY <1>1, <2>3 DEF Give, Answerable, InterType
  <2>4. \/ UNCHANGED inter
        \/ \E j \in Interaction : Ask(j) \/ \E a \in Answer : Give(j, a)
    BY DEF Next, Task, Save, Work, Park, Cancel, Publish, Begin, Claim, Inspect, Link,
           Finish, Fail, Crash, Expire, Overrun, Edit, Asking, vars
  <2> QED
    BY <2>1, <2>2, <2>3, <2>4
<1>3. outbox[i].status # "none" => outbox'[i].status # "none"
  <2>1. CASE UNCHANGED outbox
    BY <2>1
  <2>2. ASSUME NEW j \in Interaction, NEW a \in Answer, Give(j, a)
        PROVE  outbox[i].status # "none" => outbox'[i].status # "none"
    BY <1>1, <2>2 DEF Give, Queued, OutboxType, Row
  <2>3. ASSUME NEW j \in Interaction, Expire(j) \/ Overrun(j)
        PROVE  outbox[i].status # "none" => outbox'[i].status # "none"
    BY <1>1, <2>3 DEF Expire, Overrun, OutboxType, Row
  <2>4. ASSUME NEW p \in Publisher, Claim(p)
        PROVE  outbox[i].status # "none" => outbox'[i].status # "none"
    <3>1. CASE UNCHANGED outbox
      BY <3>1
    <3>2. ASSUME NEW j \in Interaction, NEW row, row.status = "publishing",
                 outbox' = [outbox EXCEPT ![j] = row]
          PROVE  outbox[i].status # "none" => outbox'[i].status # "none"
      BY <1>1, <3>2 DEF OutboxType
    <3>3. \/ UNCHANGED outbox
          \/ \E j \in Interaction : \E row :
                row.status = "publishing" /\ outbox' = [outbox EXCEPT ![j] = row]
      BY <1>1, <2>4 DEF Claim, Claimable, Due, OutboxType
    <3> QED
      BY <3>1, <3>2, <3>3
  <2>5. ASSUME NEW p \in Publisher, Finish(p)
        PROVE  outbox[i].status # "none" => outbox'[i].status # "none"
    BY <1>1, <2>5 DEF Finish, Settled, Outcome, OutboxType, Row
  <2>6. \/ UNCHANGED outbox
        \/ \E j \in Interaction : Expire(j) \/ Overrun(j) \/ \E a \in Answer : Give(j, a)
        \/ \E p \in Publisher : Claim(p) \/ Finish(p)
    BY DEF Next, Task, Ask, Save, Work, Park, Cancel, Rest, Publish, Begin, Inspect, Link,
           Fail, Crash, Edit, vars
  <2> QED
    BY <2>1, <2>2, <2>3, <2>4, <2>5, <2>6
<1>4. /\ held \subseteq held'
      /\ note[i] = "edited" => note'[i] = "edited"
      /\ note[i] # "none" => note'[i] # "none"
  <2>1. CASE UNCHANGED <<note, held>>
    BY <2>1
  <2>2. ASSUME NEW j \in Interaction, Edit(j)
        PROVE  /\ held \subseteq held'
               /\ note[i] = "edited" => note'[i] = "edited"
               /\ note[i] # "none" => note'[i] # "none"
    BY <1>1, <2>2 DEF Edit, RestType
  <2>3. ASSUME NEW p \in Publisher, Link(p)
        PROVE  /\ held \subseteq held'
               /\ note[i] = "edited" => note'[i] = "edited"
               /\ note[i] # "none" => note'[i] # "none"
    BY <1>1, <2>3 DEF Link, LinkNote, Files, RestType
  <2>4. \/ UNCHANGED <<note, held>>
        \/ \E j \in Interaction : Edit(j)
        \/ \E p \in Publisher : Link(p)
    BY DEF Next, Task, Ask, Save, Work, Park, Cancel, Rest, Give, Publish, Begin, Claim,
           Inspect, Finish, Fail, Crash, Expire, Overrun, Files, vars
  <2> QED
    BY <2>1, <2>2, <2>3, <2>4
<1> QED
  BY <1>2, <1>3, <1>4

LEMMA QueueStep ==
    ASSUME TypeOK, Queue, [Next]_vars
    PROVE  Queue'
<1> SUFFICES ASSUME NEW i \in Interaction, outbox'[i].status # "none"
             PROVE  inter'[i].status = "answered" /\ inter'[i].kept
  BY DEF Queue
<1>1. InterType /\ OutboxType /\ PubType
  BY TypeParts
<1>2. CASE outbox[i].status # "none"
  BY <1>2, Lasting DEF Queue
<1>3. CASE outbox[i].status = "none"
  <2>1. ASSUME NEW j \in Interaction, NEW a \in Answer, Give(j, a)
        PROVE  inter'[i].status = "answered" /\ inter'[i].kept
    BY <1>1, <1>3, <2>1 DEF Give, Queued, InterType, OutboxType, Row
  <2>2. ASSUME ~ \E j \in Interaction, a \in Answer : Give(j, a)
        PROVE  outbox'[i].status = "none"
    <3>1. CASE UNCHANGED outbox
      BY <1>3, <3>1
    <3>2. ASSUME NEW j \in Interaction, Expire(j) \/ Overrun(j)
          PROVE  outbox'[i].status = "none"
      BY <1>1, <1>3, <3>2 DEF Expire, Overrun, OutboxType, Row
    <3>3. ASSUME NEW p \in Publisher, Claim(p)
          PROVE  outbox'[i].status = "none"
      BY <1>1, <1>3, <3>3 DEF Claim, Claimable, Due, OutboxType
    <3>4. ASSUME NEW p \in Publisher, Finish(p)
          PROVE  outbox'[i].status = "none"
      BY <1>1, <1>3, <3>4 DEF Finish, Holds, OutboxType
    <3>5. \/ UNCHANGED outbox
          \/ \E j \in Interaction : Expire(j) \/ Overrun(j)
          \/ \E p \in Publisher : Claim(p) \/ Finish(p)
      BY <2>2 DEF Next, Task, Ask, Save, Work, Park, Cancel, Rest, Publish, Begin,
                  Inspect, Link, Fail, Crash, Edit, vars
    <3> QED
      BY <3>1, <3>2, <3>3, <3>4, <3>5
  <2> QED
    BY <2>1, <2>2
<1> QED
  BY <1>2, <1>3

\* Give relies on Queue: the question has no row yet.
LEMMA TypeStep == TypeOK /\ Queue /\ [Next]_vars => TypeOK'
<1> SUFFICES ASSUME TypeOK, Queue, [Next]_vars PROVE TypeOK'
  OBVIOUS
<1>1. TaskType /\ InterType /\ OutboxType /\ PubType /\ RestType
  BY TypeParts
<1>2. TaskType' /\ InterType' /\ OutboxType' /\ PubType' /\ RestType' => TypeOK'
  BY DEF TypeOK, TaskType, InterType, OutboxType, Row, RestType, PubType, Pub, Busy
<1>3. /\ UNCHANGED task => TaskType'
      /\ UNCHANGED inter => InterType'
      /\ UNCHANGED outbox => OutboxType'
      /\ UNCHANGED pub => PubType'
      /\ UNCHANGED <<note, held, faults, edits>> => RestType'
  BY <1>1 DEF TaskType, InterType, OutboxType, PubType, RestType
<1>4. CASE Task
  <2>1. UNCHANGED <<outbox, note, held, pub, faults, edits>>
    BY <1>4 DEF Task, Ask, Save, Work, Park, Cancel, Rest, Files
  <2>2. TaskType'
    <3>1. ASSUME NEW i \in Interaction, Ask(i)
          PROVE  TaskType'
      BY <3>1 DEF Ask, TaskType
    <3>2. CASE Save
      BY <3>2 DEF Save, TaskType
    <3>3. CASE Work \/ Park
      BY <1>1, <3>3 DEF Work, Park, TaskType
    <3>4. CASE Cancel
      BY <3>4 DEF Cancel, TaskType
    <3> QED
      BY <1>4, <3>1, <3>2, <3>3, <3>4 DEF Task
  <2>3. InterType'
    <3>1. ASSUME NEW i \in Interaction, Ask(i)
          PROVE  InterType'
      <4>1. Superseded(i) \in [Interaction ->
                [status : {"none", "pending", "answered", "superseded"},
                 answer : Answer \cup {None}, kept : BOOLEAN]]
        BY <1>1 DEF Superseded, InterType
      <4> QED
        BY <3>1, <4>1 DEF Ask, InterType
    <3> QED
      BY <1>3, <1>4, <3>1 DEF Task, Save, Work, Park, Cancel
  <2> QED
    BY <1>2, <1>3, <2>1, <2>2, <2>3
<1>5. ASSUME NEW i \in Interaction, NEW a \in Answer, Give(i, a)
      PROVE  TypeOK'
  <2>1. InterType'
    BY <1>1, <1>5 DEF Give, InterType
  <2>2. OutboxType'
    <3> DEFINE row == [outbox[i] EXCEPT !.status = "pending"]
    <3>1. CASE UNCHANGED outbox
      BY <1>3, <3>1
    <3>2. CASE outbox' = [outbox EXCEPT ![i] = row]
      <4>1. row \in Row /\ row.token = 0 /\ ~row.live
        BY <1>1, <1>5 DEF OutboxType, Row, Give, Answerable, Queue
      <4> HIDE DEF row
      <4> QED
        BY <1>1, <3>2, <4>1, RowType
    <3> QED
      BY <1>1, <1>5, <3>1, <3>2 DEF Give, Queued, OutboxType
  <2> QED
    BY <1>2, <1>3, <1>5, <2>1, <2>2 DEF Give, Files
<1>6. ASSUME NEW i \in Interaction, Expire(i) \/ Overrun(i)
      PROVE  TypeOK'
  <2>1. OutboxType'
    <3>1. [outbox[i] EXCEPT !.live = FALSE] \in Row
      BY <1>1 DEF OutboxType, Row
    <3>2. outbox' = [outbox EXCEPT ![i] = [outbox[i] EXCEPT !.live = FALSE]]
      BY <1>1, <1>6 DEF Expire, Overrun, OutboxType
    <3> QED
      BY <1>1, <3>1, <3>2 DEF OutboxType, Row
  <2>2. RestType'
    BY <1>1, <1>6, BoundAssumption DEF Expire, Overrun, RestType, Files
  <2> QED
    BY <1>2, <1>3, <1>6, <2>1, <2>2 DEF Expire, Overrun, Asking
<1>7. ASSUME NEW i \in Interaction, Edit(i)
      PROVE  TypeOK'
  <2>1. RestType'
    BY <1>1, <1>7, BoundAssumption DEF Edit, RestType
  <2> QED
    BY <1>2, <1>3, <1>7, <2>1 DEF Edit, Asking
<1>8. ASSUME NEW p \in Publisher, Publish(p) \/ Fail(p) \/ Crash(p)
      PROVE  TypeOK'
  <2>1. UNCHANGED <<task, inter>>
    BY <1>8 DEF Publish, Fail, Crash, Begin, Claim, Inspect, Link, Finish, Asking
  <2>2. \A pc \in {"scan"} \cup Busy :
            Goto(p, pc) /\ (pc = "scan" \/ pub[p].pc \in Busy) => PubType'
    BY <1>1, GotoType, PubFacts DEF PubType, Busy
  <2>3. Idle \in Pub
    BY DEF Idle, Pub
  <2>4. CASE Begin(p)
    BY <1>2, <1>3, <2>1, <2>2, <2>4 DEF Begin, Files
  <2>5. CASE Claim(p)
    <3>1. CASE pub' = [pub EXCEPT ![p] = Idle] /\ UNCHANGED outbox
      <4>1. PubType'
        BY <1>1, <2>3, <3>1 DEF PubType, Idle, Busy
      <4> QED
        BY <1>2, <1>3, <2>1, <2>5, <3>1, <4>1 DEF Claim, Files
    <3>2. ASSUME NEW i \in Claimable(p),
                 outbox' = [outbox EXCEPT ![i] =
                    [status |-> "publishing", token |-> outbox[i].attempts + 1, live |-> TRUE,
                     attempts |-> outbox[i].attempts + 1]],
                 pub' = [pub EXCEPT ![p].pc = "claimed", ![p].id = i,
                                    ![p].token = outbox[i].attempts + 1,
                                    ![p].seen = @ \cup {i}]
          PROVE  TypeOK'
      <4>1. i \in Interaction
        BY DEF Claimable, Due
      <4>2. outbox[i].attempts + 1 \in Nat
        BY <1>1, <4>1 DEF OutboxType, Row
      <4>3. OutboxType'
        BY <1>1, <3>2, <4>1, <4>2 DEF OutboxType, Row
      <4>4. PubType'
        <5>1. pub[p] \in Pub /\ pub \in [Publisher -> Pub]
          BY PubFacts
        <5>2. pub[p].seen \cup {i} \in SUBSET Interaction
          BY <4>1, <5>1 DEF Pub
        <5> DEFINE s == [pub[p] EXCEPT !.pc = "claimed", !.id = i,
                                       !.token = outbox[i].attempts + 1,
                                       !.seen = pub[p].seen \cup {i}]
        <5>3. s \in Pub /\ s.id = i
          BY <4>1, <4>2, <5>1, <5>2 DEF Pub, Busy
        <5>4. pub' = [pub EXCEPT ![p] = s]
          BY <3>2, <5>1
        <5> HIDE DEF s
        <5> QED
          BY <1>1, <4>1, <5>1, <5>3, <5>4 DEF PubType
      <4> QED
        BY <1>2, <1>3, <2>1, <2>5, <4>3, <4>4 DEF Claim, Files
    <3> QED
      BY <1>1, <2>5, <3>1, <3>2 DEF Claim
  <2>6. CASE Inspect(p)
    <3>1. pub[p].pc \in Busy /\ {"unsafe", "absent", "done"} \subseteq Busy
      BY <2>6 DEF Inspect, Busy
    <3>2. PubType'
      BY <2>2, <2>6, <3>1 DEF Inspect, Verdict
    <3> QED
      BY <1>2, <1>3, <2>1, <2>6, <3>2 DEF Inspect, Files
  <2>7. CASE Link(p)
    <3>1. /\ pub[p].pc \in Busy /\ {"unsafe", "done"} \subseteq Busy
          /\ pub[p].id \in Interaction
      BY <1>1, <2>7 DEF Link, Busy, PubType
    <3>2. PubType'
      BY <2>2, <2>7, <3>1 DEF Link, LinkNote, Verdict
    <3>3. RestType'
      BY <1>1, <2>7, <3>1 DEF Link, LinkNote, RestType, Files
    <3> QED
      BY <1>2, <1>3, <2>1, <2>7, <3>2, <3>3 DEF Link
  <2>8. CASE Finish(p)
    <3>1. PubType'
      <4>1. [Idle EXCEPT !.pc = "scan", !.seen = pub[p].seen] \in Pub
        BY <2>3, PubFacts DEF Pub
      <4> QED
        BY <1>1, <2>8, <4>1 DEF Finish, PubType, Idle, Busy
    <3>2. OutboxType'
      <4>1. pub[p].id \in Interaction
        BY <1>1, <2>8 DEF Finish, PubType, Busy
      <4>2. Outcome(pub[p].pc) \in {"published", "blocked", "pending"}
        BY <2>8 DEF Finish, Outcome
      <4> DEFINE row == Settled(outbox[pub[p].id], Outcome(pub[p].pc))
      <4>3. row \in Row /\ row.token = 0 /\ ~row.live
        BY <1>1, <4>1, <4>2 DEF Settled, Row, OutboxType
      <4>4. \/ outbox' = [outbox EXCEPT ![pub[p].id] = row]
            \/ UNCHANGED outbox
        BY <1>1, <2>8, <4>1 DEF Finish, OutboxType
      <4> HIDE DEF row
      <4> QED
        BY <1>1, <1>3, <4>1, <4>3, <4>4, RowType
    <3> QED
      BY <1>2, <1>3, <2>1, <2>8, <3>1, <3>2 DEF Finish, Files
  <2>9. CASE Fail(p)
    <3>1. pub[p].pc \in Busy /\ "error" \in Busy
      BY <2>9 DEF Fail, Busy
    <3>2. RestType'
      BY <1>1, <2>9, BoundAssumption DEF Fail, RestType, Files
    <3> QED
      BY <1>2, <1>3, <2>1, <2>2, <2>9, <3>1, <3>2 DEF Fail
  <2>10. CASE Crash(p)
    <3>1. PubType'
      BY <1>1, <2>3, <2>10 DEF Crash, PubType, Idle, Busy
    <3>2. RestType'
      BY <1>1, <2>10, BoundAssumption DEF Crash, RestType, Files
    <3> QED
      BY <1>2, <1>3, <2>1, <2>10, <3>1, <3>2 DEF Crash
  <2> QED
    BY <1>8, <2>4, <2>5, <2>6, <2>7, <2>8, <2>9, <2>10 DEF Publish
<1>9. CASE UNCHANGED vars
  BY <1>2, <1>3, <1>9 DEF vars
<1> QED
  BY <1>4, <1>5, <1>6, <1>7, <1>8, <1>9 DEF Next

\* Rows, files and processes keep the shape the code relies on.
THEOREM OutboxTypeCorrect == Spec => []TypeOK
<1>1. Init => Queue
  BY DEF Init, Queue
<1>2. TypeOK /\ Queue /\ [Next]_vars => TypeOK' /\ Queue'
  BY TypeStep, QueueStep
<1> QED
  BY <1>1, <1>2, TypeInit, PTL DEF Spec

----------------------------------------------------------------------------
(* Soundness of the outbox                                                 *)

Reason(i) == inter[i].answer \in Secret \/ note[i] = "edited"

\* What a publisher has found out about its row stays true until it acts on it.
Findings == \A p \in Publisher :
    /\ pub[p].pc \in Busy => outbox[pub[p].id].status # "none"
    /\ pub[p].pc = "absent" => inter[pub[p].id].answer \notin Secret
    /\ pub[p].pc = "done" => pub[p].id \in held
    /\ pub[p].pc = "unsafe" => Reason(pub[p].id)

Notes == \A i \in Interaction :
    /\ note[i] = "decision" => i \in held
    /\ i \in held => /\ note[i] # "none"
                     /\ outbox[i].status # "none"
                     /\ inter[i].answer \notin Secret

Fates == \A i \in Interaction :
    /\ outbox[i].status = "published" => i \in held
    /\ outbox[i].status = "blocked" => Reason(i)

\* The inductive invariant: rows belong to answers, and each stage of publishing
\* rests on what the one before established.
Sound == TypeOK /\ Queue /\ Findings /\ Notes /\ Fates

LEMMA FindingsStep ==
    ASSUME Sound, [Next]_vars, NEW p \in Publisher
    PROVE  /\ pub'[p].pc \in Busy => outbox'[pub'[p].id].status # "none"
           /\ pub'[p].pc = "absent" => inter'[pub'[p].id].answer \notin Secret
           /\ pub'[p].pc = "done" => pub'[p].id \in held'
           /\ pub'[p].pc = "unsafe" => Reason(pub[p].id)'
<1>1. /\ TypeOK /\ Queue /\ Findings /\ Notes
      /\ InterType /\ OutboxType /\ PubType /\ RestType
  BY TypeParts DEF Sound
<1>2. CASE pub'[p] = pub[p]
  <2>1. CASE pub[p].pc \in Busy
    <3> DEFINE i == pub[p].id
    <3>1. i \in Interaction
      BY <1>1, <2>1 DEF PubType
    <3>2. outbox[i].status # "none" /\ inter[i].status = "answered"
      BY <1>1, <2>1, <3>1 DEF Findings, Queue
    <3>3. /\ inter'[i] = inter[i]
          /\ outbox'[i].status # "none"
          /\ held \subseteq held'
          /\ note[i] = "edited" => note'[i] = "edited"
      BY <1>1, <3>1, <3>2, Lasting
    <3> QED
      BY <1>1, <1>2, <3>3 DEF Findings, Reason
  <2>2. CASE pub[p].pc \notin Busy
    BY <1>2, <2>2 DEF Busy
  <2> QED
    BY <2>1, <2>2
<1>3. CASE Begin(p) \/ Finish(p) \/ Crash(p)
  <2>1. pub'[p].pc \in {"idle", "scan"}
    <3>1. pub[p] \in Pub
      BY <1>1, PubFacts
    <3>2. CASE Begin(p)
      BY <1>1, <3>1, <3>2, GotoType DEF Begin, Busy
    <3>3. CASE Finish(p)
      BY <1>1, <3>3 DEF Finish, Idle, PubType
    <3>4. CASE Crash(p)
      BY <1>1, <3>4 DEF Crash, Idle, PubType
    <3> QED
      BY <1>3, <3>2, <3>3, <3>4
  <2> QED
    BY <2>1 DEF Busy
<1>4. CASE Claim(p)
  <2>1. CASE pub'[p].pc = "claimed"
    <3>1. PICK i \in Claimable(p) :
            /\ outbox' = [outbox EXCEPT ![i] =
                    [status |-> "publishing", token |-> outbox[i].attempts + 1, live |-> TRUE,
                     attempts |-> outbox[i].attempts + 1]]
            /\ pub' = [pub EXCEPT ![p].pc = "claimed", ![p].id = i,
                                  ![p].token = outbox[i].attempts + 1,
                                  ![p].seen = @ \cup {i}]
      <4>1. pub' # [pub EXCEPT ![p] = Idle]
        BY <1>1, <2>1 DEF Idle, PubType
      <4> QED
        BY <1>1, <1>4, <4>1 DEF Claim, Claimable, Due, OutboxType
    <3>2. i \in Interaction /\ outbox[i].status # "none"
      BY DEF Claimable, Due
    <3>3. pub'[p].id = i
      <4>1. pub[p] \in Pub
        BY <1>1, PubFacts
      <4> QED
        BY <1>1, <3>1, <4>1 DEF PubType, Pub
    <3>4. outbox'[i].status = "publishing"
      BY <1>1, <3>1, <3>2 DEF OutboxType
    <3> QED
      BY <2>1, <3>3, <3>4
  <2>2. CASE pub'[p].pc # "claimed"
    <3>1. pub'[p].pc = "idle"
      <4>1. pub[p] \in Pub /\ pub \in [Publisher -> Pub]
        BY <1>1, PubFacts
      <4>2. ASSUME NEW i,
                   pub' = [pub EXCEPT ![p].pc = "claimed", ![p].id = i,
                                      ![p].token = outbox[i].attempts + 1,
                                      ![p].seen = @ \cup {i}]
            PROVE  pub'[p].pc = "claimed"
        BY <4>1, <4>2 DEF Pub
      <4>3. pub' = [pub EXCEPT ![p] = Idle]
        BY <1>4, <2>2, <4>2 DEF Claim
      <4> QED
        BY <4>1, <4>3 DEF Idle
    <3> QED
      BY <3>1 DEF Busy
  <2> QED
    BY <2>1, <2>2
<1>5. CASE Inspect(p) \/ Link(p) \/ Fail(p)
  <2> DEFINE i == pub[p].id
  <2>1. pub[p].pc \in Busy /\ i \in Interaction
    BY <1>1, <1>5 DEF Inspect, Link, Fail, Busy, PubType
  <2>2. outbox[i].status # "none" /\ inter[i].status = "answered"
    BY <1>1, <2>1 DEF Findings, Queue
  <2>3. UNCHANGED <<inter, outbox>>
    BY <1>5 DEF Inspect, Link, Fail, Asking
  <2>4. ASSUME NEW pc \in Busy, Goto(p, pc)
        PROVE  pub'[p].pc = pc /\ pub'[p].id = i
    BY <1>1, <2>1, <2>4, GotoType
  <2>5. CASE Inspect(p)
    <3>1. CASE inter[i].answer \in Secret /\ Goto(p, "unsafe")
      <4>1. pub'[p].pc = "unsafe" /\ pub'[p].id = i
        BY <2>4, <3>1 DEF Busy
      <4> QED
        BY <2>2, <2>3, <3>1, <4>1 DEF Reason
    <3>2. CASE /\ inter[i].answer \notin Secret
               /\ Goto(p, IF note[i] = "none" THEN "absent" ELSE Verdict(i))
      <4>1. /\ pub'[p].pc = IF note[i] = "none" THEN "absent" ELSE Verdict(i)
            /\ pub'[p].id = i
        BY <2>4, <3>2 DEF Verdict, Busy
      <4>2. note[i] \in {"none", "decision", "edited"}
        BY <1>1, <2>1 DEF RestType
      <4>3. UNCHANGED <<note, held>>
        BY <2>5 DEF Inspect, Files
      <4> QED
        BY <1>1, <2>1, <2>2, <2>3, <3>2, <4>1, <4>2, <4>3 DEF Verdict, Notes, Reason
    <3> QED
      BY <2>2, <2>5, <3>1, <3>2 DEF Inspect
  <2>6. CASE Link(p)
    <3>1. CASE note[i] = "none" /\ held' = held \cup {i} /\ Goto(p, "done")
      <4>1. pub'[p].pc = "done" /\ pub'[p].id = i
        BY <2>4, <3>1 DEF Busy
      <4> QED
        BY <2>2, <2>3, <3>1, <4>1
    <3>2. CASE note[i] # "none" /\ Goto(p, Verdict(i)) /\ UNCHANGED <<note, held>>
      <4>1. pub'[p].pc = Verdict(i) /\ pub'[p].id = i
        BY <2>4, <3>2 DEF Verdict, Busy
      <4>2. note[i] \in {"decision", "edited"}
        BY <1>1, <2>1, <3>2 DEF RestType
      <4> QED
        BY <1>1, <2>1, <2>2, <2>3, <3>2, <4>1, <4>2 DEF Verdict, Notes, Reason
    <3> QED
      BY <2>6, <3>1, <3>2 DEF Link, LinkNote, Files
  <2>7. CASE Fail(p)
    <3>1. pub'[p].pc = "error" /\ pub'[p].id = i
      BY <2>4, <2>7 DEF Fail, Busy
    <3> QED
      BY <2>2, <2>3, <3>1
  <2> QED
    BY <1>5, <2>5, <2>6, <2>7
<1>6. ASSUME ~(Publish(p) \/ Fail(p) \/ Crash(p))
      PROVE  pub'[p] = pub[p]
  <2>1. ASSUME NEW q \in Publisher, q # p, Publish(q) \/ Fail(q) \/ Crash(q)
        PROVE  pub'[p] = pub[p]
    BY <1>1, <2>1 DEF Publish, Begin, Claim, Inspect, Link, LinkNote, Finish, Fail, Crash,
                      Goto, PubType
  <2>2. ASSUME ~ \E q \in Publisher : Publish(q) \/ Fail(q) \/ Crash(q)
        PROVE  UNCHANGED pub
    BY <2>2 DEF Next, Task, Ask, Save, Work, Park, Cancel, Rest, Give, Expire, Overrun,
                Edit, vars
  <2> QED
    BY <1>6, <2>1, <2>2
<1> QED
  BY <1>2, <1>3, <1>4, <1>5, <1>6 DEF Publish

LEMMA NotesStep ==
    ASSUME Sound, [Next]_vars, NEW i \in Interaction
    PROVE  /\ note'[i] = "decision" => i \in held'
           /\ i \in held' => /\ note'[i] # "none"
                             /\ outbox'[i].status # "none"
                             /\ inter'[i].answer \notin Secret
<1>1. /\ TypeOK /\ Queue /\ Findings /\ Notes
      /\ InterType /\ OutboxType /\ PubType /\ RestType
  BY TypeParts DEF Sound
<1>2. i \in held => /\ note'[i] # "none"
                    /\ outbox'[i].status # "none"
                    /\ inter'[i].answer \notin Secret
                    /\ i \in held'
  <2>1. i \in held => /\ inter[i].status = "answered" /\ inter[i].answer \notin Secret
                      /\ outbox[i].status # "none" /\ note[i] # "none"
    BY <1>1 DEF Notes, Queue
  <2> QED
    BY <1>1, <2>1, Lasting
<1>3. CASE UNCHANGED <<note, held>>
  BY <1>1, <1>2, <1>3 DEF Notes
<1>4. ASSUME NEW j \in Interaction, Edit(j)
      PROVE  /\ note'[i] = "decision" => note[i] = "decision"
             /\ UNCHANGED held
  BY <1>1, <1>4 DEF Edit, RestType
<1>5. ASSUME NEW p \in Publisher, Link(p)
      PROVE  \/ UNCHANGED <<note, held>>
             \/ note'[i] = note[i] /\ (i \in held' <=> i \in held)
             \/ /\ note'[i] = "decision" /\ i \in held'
                /\ outbox'[i].status # "none" /\ inter'[i].answer \notin Secret
  <2>1. pub[p].pc = "absent" /\ pub[p].id \in Interaction
    BY <1>1, <1>5 DEF Link, PubType, Busy
  <2>2. /\ outbox[pub[p].id].status # "none"
        /\ inter[pub[p].id].answer \notin Secret
    BY <1>1, <2>1 DEF Findings, Busy
  <2> QED
    BY <1>1, <1>5, <2>1, <2>2 DEF Link, LinkNote, Files, Asking, RestType
<1>6. \/ UNCHANGED <<note, held>>
      \/ \E j \in Interaction : Edit(j)
      \/ \E p \in Publisher : Link(p)
  BY DEF Next, Task, Ask, Save, Work, Park, Cancel, Rest, Give, Publish, Begin, Claim,
         Inspect, Finish, Fail, Crash, Expire, Overrun, Files, vars
<1> QED
  BY <1>1, <1>2, <1>3, <1>4, <1>5, <1>6 DEF Notes

LEMMA FatesStep ==
    ASSUME Sound, [Next]_vars, NEW i \in Interaction
    PROVE  /\ outbox'[i].status = "published" => i \in held'
           /\ outbox'[i].status = "blocked" => Reason(i)'
<1>1. /\ TypeOK /\ Queue /\ Findings /\ Notes /\ Fates
      /\ InterType /\ OutboxType /\ PubType /\ RestType
  BY TypeParts DEF Sound
<1>2. /\ outbox[i].status # "none" => inter'[i] = inter[i]
      /\ held \subseteq held'
      /\ note[i] = "edited" => note'[i] = "edited"
  BY <1>1, Lasting DEF Queue
<1>3. CASE outbox'[i].status = outbox[i].status
  BY <1>1, <1>2, <1>3 DEF Fates, Reason
<1>4. CASE outbox'[i].status \notin {"published", "blocked"}
  BY <1>4
<1>5. ASSUME NEW p \in Publisher, Finish(p), outbox'[i].status # outbox[i].status
      PROVE  /\ outbox'[i].status = "published" => i \in held'
             /\ outbox'[i].status = "blocked" => Reason(i)'
  <2>1. pub[p].id = i /\ outbox'[i] = Settled(outbox[i], Outcome(pub[p].pc))
    BY <1>1, <1>5 DEF Finish, OutboxType
  <2>2. outbox'[i].status = Outcome(pub[p].pc)
    BY <1>1, <2>1 DEF Settled, OutboxType, Row
  <2>3. UNCHANGED <<inter, note, held>>
    BY <1>5 DEF Finish, Asking, Files
  <2> QED
    BY <1>1, <1>5, <2>1, <2>2, <2>3 DEF Finish, Outcome, Findings, Reason
<1>6. ASSUME ~ \E p \in Publisher : Finish(p)
      PROVE  outbox'[i].status \in {outbox[i].status, "pending", "publishing"}
  <2>1. CASE UNCHANGED outbox
    BY <2>1
  <2>2. ASSUME NEW j \in Interaction, NEW a \in Answer, Give(j, a)
        PROVE  outbox'[i].status \in {outbox[i].status, "pending", "publishing"}
    BY <1>1, <2>2 DEF Give, Queued, OutboxType, Row
  <2>3. ASSUME NEW j \in Interaction, Expire(j) \/ Overrun(j)
        PROVE  outbox'[i].status \in {outbox[i].status, "pending", "publishing"}
    BY <1>1, <2>3 DEF Expire, Overrun, OutboxType, Row
  <2>4. ASSUME NEW p \in Publisher, Claim(p)
        PROVE  outbox'[i].status \in {outbox[i].status, "pending", "publishing"}
    <3>1. CASE UNCHANGED outbox
      BY <3>1
    <3>2. ASSUME NEW j \in Interaction, NEW row, row.status = "publishing",
                 outbox' = [outbox EXCEPT ![j] = row]
          PROVE  outbox'[i].status \in {outbox[i].status, "pending", "publishing"}
      BY <1>1, <3>2 DEF OutboxType
    <3>3. \/ UNCHANGED outbox
          \/ \E j \in Interaction : \E row :
                row.status = "publishing" /\ outbox' = [outbox EXCEPT ![j] = row]
      BY <1>1, <2>4 DEF Claim, Claimable, Due, OutboxType
    <3> QED
      BY <3>1, <3>2, <3>3
  <2>5. \/ UNCHANGED outbox
        \/ \E j \in Interaction : Expire(j) \/ Overrun(j) \/ \E a \in Answer : Give(j, a)
        \/ \E p \in Publisher : Claim(p)
    BY <1>6 DEF Next, Task, Ask, Save, Work, Park, Cancel, Rest, Publish, Begin, Inspect,
           Link, Fail, Crash, Edit, vars
  <2> QED
    BY <2>1, <2>2, <2>3, <2>4, <2>5
<1> QED
  BY <1>3, <1>4, <1>5, <1>6

LEMMA SoundStep == Sound /\ [Next]_vars => Sound'
<1> SUFFICES ASSUME Sound, [Next]_vars PROVE Sound'
  OBVIOUS
<1>1. TypeOK' /\ Queue'
  BY TypeStep, QueueStep DEF Sound
<1>2. Findings'
  BY FindingsStep DEF Findings
<1>3. Notes'
  BY NotesStep DEF Notes
<1>4. Fates'
  BY FatesStep DEF Fates
<1> QED
  BY <1>1, <1>2, <1>3, <1>4 DEF Sound

LEMMA SoundInit == Init => Sound
<1> SUFFICES ASSUME Init PROVE Sound
  OBVIOUS
<1>1. TypeOK
  BY TypeInit
<1>2. Queue /\ Findings /\ Notes /\ Fates
  BY DEF Init, Idle, Queue, Findings, Notes, Fates, Busy
<1> QED
  BY <1>1, <1>2 DEF Sound

\* Only a secret or another note makes a decision wait for a person, whatever
\* processes publish it at once.
THEOREM OutboxBlockedForCause == Spec => []BlockedForCause
<1>1. Sound => BlockedForCause
  BY DEF Sound, Fates, Reason, BlockedForCause
<1> QED
  BY <1>1, SoundInit, SoundStep, PTL DEF Spec

\* What got into the vault is a decision to be kept, without a secret, and still
\* the answer.
THEOREM OutboxNoteIsDecision == Spec => []NoteIsDecision
<1>1. Sound => NoteIsDecision
  BY DEF Sound, TypeOK, Queue, Notes, NoteIsDecision
<1> QED
  BY <1>1, SoundInit, SoundStep, PTL DEF Spec

\* No publisher writes over what a person wrote.
THEOREM OutboxEditKept == Spec => EditKept
<1>1. TypeOK /\ [Next]_vars => [\A i \in Interaction : note[i] = "edited" => note'[i] = "edited"]_vars
  BY Lasting
<1> QED
  BY <1>1, OutboxTypeCorrect, PTL DEF Spec, EditKept

----------------------------------------------------------------------------
(* The outbox implements DecisionRecord                                    *)

Given == [i \in Interaction |->
            IF inter[i].status = "answered" THEN inter[i].answer ELSE None]

Fate == [i \in Interaction |->
            IF outbox[i].status = "publishing" THEN "pending" ELSE outbox[i].status]

\* Each step gives an answer, writes a note, settles a fate, or changes nothing
\* that DecisionRecord sees.
LEMMA RecordStep ==
    ASSUME Sound, [Next]_vars
    PROVE  [Record!Next]_(Record!vars)
<1>1. /\ TypeOK /\ Queue /\ Findings /\ Notes /\ Fates
      /\ InterType /\ OutboxType /\ PubType /\ RestType
  BY TypeParts DEF Sound
<1>2. UNCHANGED <<Given, Fate, held>> => UNCHANGED Record!vars
  BY DEF Given, Fate, Record!vars
<1>3. UNCHANGED inter => UNCHANGED Given
  BY DEF Given
<1>4. (\A i \in Interaction : Fate'[i] = Fate[i]) => UNCHANGED Fate
  BY DEF Fate
<1>5. CASE Task
  <2>1. UNCHANGED <<outbox, held>>
    BY <1>5 DEF Task, Ask, Save, Work, Park, Cancel, Rest, Files
  <2>2. UNCHANGED Given
    <3>1. ASSUME NEW i \in Interaction, Ask(i), NEW j \in Interaction
          PROVE  Given'[j] = Given[j]
      <4>1. Superseded(i)[j].status = "answered" <=> inter[j].status = "answered"
        BY <1>1, <3>1 DEF Superseded, InterType
      <4>2. Superseded(i)[j].answer = inter[j].answer
        BY <1>1 DEF Superseded, InterType
      <4>3. /\ inter'[j].status = "answered" <=> inter[j].status = "answered"
            /\ inter'[j].answer = inter[j].answer
        <5>1. Superseded(i) \in [Interaction ->
                [status : {"none", "pending", "answered", "superseded"},
                 answer : Answer \cup {None}, kept : BOOLEAN]]
          BY <1>1 DEF Superseded, InterType
        <5> QED
          BY <1>1, <3>1, <4>1, <4>2, <5>1 DEF Ask
      <4> QED
        BY <4>3 DEF Given
    <3>2. ASSUME NEW i \in Interaction, Ask(i)
          PROVE  UNCHANGED Given
      <4>1. \A j \in Interaction : Given'[j] = Given[j]
        BY <3>1, <3>2
      <4> QED
        BY <4>1 DEF Given
    <3> QED
      BY <1>3, <1>5, <3>2 DEF Task, Save, Work, Park, Cancel, Rest
  <2> QED
    BY <1>2, <2>1, <2>2 DEF Fate
<1>6. ASSUME NEW i \in Interaction, NEW a \in Answer, Give(i, a)
      PROVE  Record!Give(i, a)
  <2>1. inter[i].status = "pending" /\ outbox[i].status = "none"
    BY <1>1, <1>6 DEF Give, Answerable, Queue, OutboxType, Row
  <2>2. Given[i] = None
    BY <2>1 DEF Given
  <2>3. Given' = [Given EXCEPT ![i] = a]
    BY <1>1, <1>6 DEF Give, InterType, Given
  <2>4. \E f \in {"none", "pending"} : Fate' = [Fate EXCEPT ![i] = f]
    <3>1. CASE outbox' = [outbox EXCEPT ![i].status = "pending"]
      <4>1. Fate' = [Fate EXCEPT ![i] = "pending"]
        BY <1>1, <3>1 DEF Fate, OutboxType, Row
      <4> QED
        BY <4>1
    <3>2. CASE UNCHANGED outbox
      <4>1. Fate' = [Fate EXCEPT ![i] = "none"]
        BY <2>1, <3>2 DEF Fate
      <4> QED
        BY <4>1
    <3> QED
      BY <1>6, <3>1, <3>2 DEF Give, Queued
  <2> QED
    BY <1>6, <2>2, <2>3, <2>4 DEF Record!Give, Give, Files, Given, Fate
<1>7. ASSUME NEW i \in Interaction, Expire(i) \/ Overrun(i) \/ Edit(i)
      PROVE  UNCHANGED Record!vars
  <2>1. UNCHANGED <<inter, held>>
    BY <1>7 DEF Expire, Overrun, Edit, Asking, Files
  <2>2. \A j \in Interaction : outbox'[j].status = outbox[j].status
    BY <1>1, <1>7 DEF Expire, Overrun, Edit, OutboxType, Row
  <2>3. UNCHANGED Fate
    BY <1>4, <2>2 DEF Fate
  <2> QED
    BY <1>2, <1>3, <2>1, <2>3
<1>8. ASSUME NEW p \in Publisher, Link(p)
      PROVE  [Record!Next]_(Record!vars)
  <2> DEFINE i == pub[p].id
  <2>1. i \in Interaction /\ pub[p].pc = "absent" /\ outbox[i].status # "none"
    BY <1>1, <1>8 DEF Link, PubType, Busy, Findings
  <2>2. UNCHANGED <<inter, outbox>>
    BY <1>8 DEF Link, Asking
  <2>3. UNCHANGED <<Given, Fate>>
    BY <2>2 DEF Given, Fate
  <2>4. CASE UNCHANGED held
    BY <1>2, <2>3, <2>4
  <2>5. CASE note[i] = "none" /\ held' = held \cup {i}
    <3>1. outbox[i].status \in {"pending", "publishing"}
      BY <1>1, <2>1, <2>5 DEF Findings, Fates, Notes, Reason, OutboxType, Row
    <3>2. Fate[i] = "pending"
      BY <2>1, <3>1 DEF Fate
    <3>3. Record!Write(i)
      BY <2>3, <2>5, <3>2 DEF Record!Write, Given, Fate
    <3> QED
      BY <2>1, <3>3 DEF Record!Next
  <2> QED
    BY <1>8, <2>4, <2>5 DEF Link, LinkNote, Files
<1>9. ASSUME NEW p \in Publisher, Finish(p)
      PROVE  [Record!Next]_(Record!vars)
  <2>1. /\ pub[p].id \in Interaction
        /\ pub[p].pc \in {"done", "unsafe", "error"}
    BY <1>1, <1>9 DEF Finish, PubType, Busy
  <2> PICK i \in Interaction : i = pub[p].id
    BY <2>1
  <2>2. UNCHANGED <<inter, held>> /\ UNCHANGED Given
    BY <1>9 DEF Finish, Asking, Files, Given
  <2>3. CASE UNCHANGED outbox
    BY <1>2, <2>2, <2>3 DEF Fate
  <2>4. CASE /\ outbox[i].status = "publishing"
             /\ outbox' = [outbox EXCEPT ![i] = Settled(outbox[i], Outcome(pub[p].pc))]
    <3>1. Settled(outbox[i], Outcome(pub[p].pc)).status = Outcome(pub[p].pc)
      BY <1>1, <2>1 DEF Settled, OutboxType, Row
    <3>2. Fate[i] = "pending" /\ Fate' = [Fate EXCEPT ![i] = Outcome(pub[p].pc)]
      <4>1. Outcome(pub[p].pc) # "publishing"
        BY <2>1 DEF Outcome
      <4> QED
        BY <1>1, <2>1, <2>4, <3>1, <4>1 DEF Fate, OutboxType
    <3>3. CASE pub[p].pc = "error"
      <4>1. UNCHANGED Fate
        BY <3>2, <3>3 DEF Outcome, Fate
      <4> QED
        BY <1>2, <2>2, <4>1
    <3>4. CASE pub[p].pc \in {"done", "unsafe"}
      <4>1. \/ i \in held /\ Fate' = [Fate EXCEPT ![i] = "published"]
            \/ Fate' = [Fate EXCEPT ![i] = "blocked"]
        BY <1>1, <3>2, <3>4 DEF Outcome, Findings
      <4>2. Record!Settle(i)
        BY <2>2, <3>2, <4>1 DEF Record!Settle, Given, Fate
      <4> QED
        BY <4>2 DEF Record!Next
    <3> QED
      BY <2>1, <3>3, <3>4
  <2> QED
    BY <1>1, <1>9, <2>1, <2>3, <2>4 DEF Finish, Holds, OutboxType
<1>10. ASSUME NEW p \in Publisher, Begin(p) \/ Claim(p) \/ Inspect(p) \/ Fail(p) \/ Crash(p)
       PROVE  UNCHANGED Record!vars
  <2>1. UNCHANGED <<inter, held>>
    BY <1>10 DEF Begin, Claim, Inspect, Fail, Crash, Asking, Files
  <2>2. CASE UNCHANGED outbox
    BY <1>2, <1>3, <2>1, <2>2 DEF Fate
  <2>3. CASE Claim(p)
    <3>1. ASSUME NEW i \in Claimable(p), NEW row, row.status = "publishing",
                 outbox' = [outbox EXCEPT ![i] = row]
          PROVE  UNCHANGED Fate
      <4>1. i \in Interaction /\ outbox[i].status \in {"pending", "publishing"}
        BY DEF Claimable, Due
      <4>2. \A j \in Interaction : Fate'[j] = Fate[j]
        BY <1>1, <3>1, <4>1 DEF Fate, OutboxType
      <4> QED
        BY <1>4, <4>2
    <3>2. \/ UNCHANGED outbox
          \/ \E i \in Claimable(p) : \E row :
                row.status = "publishing" /\ outbox' = [outbox EXCEPT ![i] = row]
      BY <1>1, <2>3 DEF Claim, Claimable, Due, OutboxType
    <3> QED
      BY <1>2, <1>3, <2>1, <2>2, <3>1, <3>2
  <2> QED
    BY <1>10, <2>2, <2>3 DEF Begin, Inspect, Fail, Crash
<1>11. CASE UNCHANGED vars
  BY <1>2, <1>11 DEF vars, Given, Fate
<1> QED
  BY <1>5, <1>6, <1>7, <1>8, <1>9, <1>10, <1>11
     DEF Next, Publish, Record!Next

\* The outbox keeps the promises of DecisionRecord, through crashes, lost claims
\* and processes that publish the same decision.
THEOREM OutboxKeepsRecord == Spec => KeepsRecord
<1>1. Init => Record!Init
  BY DEF Init, Record!Init
<1> QED
  BY <1>1, RecordStep, SoundInit, SoundStep, PTL DEF Spec, KeepsRecord, Record!Spec

----------------------------------------------------------------------------
(* Questions                                                               *)

\* The status of a question changes when one is asked and when it is answered.
LEMMA OnePendingStep ==
    ASSUME TypeOK, OnePending, [Next]_vars
    PROVE  OnePending'
<1>1. InterType
  BY TypeParts
<1>2. CASE UNCHANGED inter
  BY <1>2 DEF OnePending
<1>3. ASSUME NEW i \in Interaction, Ask(i)
      PROVE  OnePending'
  <2>1. \A j \in Interaction : inter'[j].status = "pending" => j = i
    <3> SUFFICES ASSUME NEW j \in Interaction, j # i
                 PROVE  inter'[j].status # "pending"
      OBVIOUS
    <3>1. inter'[j] = Superseded(i)[j]
      BY <1>3 DEF Ask, Superseded
    <3>2. Superseded(i)[j].status # "pending"
      BY <1>1 DEF Superseded, InterType
    <3> QED
      BY <3>1, <3>2
  <2> QED
    BY <2>1 DEF OnePending
<1>4. ASSUME NEW i \in Interaction, NEW a \in Answer, Give(i, a)
      PROVE  OnePending'
  <2>1. \A j \in Interaction : inter'[j].status = "pending" => inter[j].status = "pending"
    BY <1>1, <1>4 DEF Give, InterType
  <2> QED
    BY <2>1 DEF OnePending
<1>5. \/ UNCHANGED inter
      \/ \E i \in Interaction : Ask(i) \/ \E a \in Answer : Give(i, a)
  BY DEF Next, Task, Save, Work, Park, Cancel, Publish, Begin, Claim, Inspect, Link,
         Finish, Fail, Crash, Expire, Overrun, Edit, Asking, vars
<1> QED
  BY <1>2, <1>3, <1>4, <1>5

\* However its waits are left, a task never has two questions pending, for any
\* number of questions.
THEOREM OutboxOnePending == Spec => []OnePending
<1>1. Init => OnePending
  BY DEF Init, OnePending
<1>2. Sound /\ OnePending /\ [Next]_vars => OnePending'
  BY OnePendingStep DEF Sound
<1> QED
  BY <1>1, <1>2, SoundInit, SoundStep, PTL DEF Spec

====
