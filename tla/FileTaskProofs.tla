---- MODULE FileTaskProofs ----
(***************************************************************************)
(* Theorems about FileTask for any tasks and any limits.                     *)
(***************************************************************************)
EXTENDS FileTask, TLAPS

----------------------------------------------------------------------------
(* Plans                                                                   *)

\* A task whose plan is one step without arguments.
Bare(t) == t.form # "declared" /\ ~(t.form = "title" /\ "filesystem" \in t.tools)

\* The plan of a task that names its file.
LEMMA ConcreteLayout ==
    ASSUME NEW t \in Task
    PROVE  \E n \in 3 .. 6 : \E s :
               /\ s = Concrete(t) /\ Len(s) = n /\ DOMAIN s = 1 .. n
               /\ s[1] = "list" /\ s[2] = "write" /\ s[3] = "read"
               /\ \A i \in 4 .. n : s[i] \in {"status", "diff", "test"}
               /\ \A i \in 1 .. n : s[i] = "test" => i = n
               /\ t.test => s[n] = "test"
<1>1. CASE "git" \in t.tools /\ t.test
  <2> DEFINE s == <<"list", "write", "read">> \o <<"status", "diff">> \o <<"test">>
  <2>1. Concrete(t) = s
    BY <1>1 DEF Concrete, Git, Only
  <2>2. /\ Len(s) = 6 /\ DOMAIN s = 1 .. 6
        /\ s[1] = "list" /\ s[2] = "write" /\ s[3] = "read"
        /\ s[4] = "status" /\ s[5] = "diff" /\ s[6] = "test"
    OBVIOUS
  <2> HIDE DEF s
  <2> QED
    BY <2>1, <2>2
<1>2. CASE "git" \in t.tools /\ ~t.test
  <2> DEFINE s == <<"list", "write", "read">> \o <<"status", "diff">> \o <<>>
  <2>1. Concrete(t) = s
    BY <1>2 DEF Concrete, Git, Only
  <2>2. /\ Len(s) = 5 /\ DOMAIN s = 1 .. 5
        /\ s[1] = "list" /\ s[2] = "write" /\ s[3] = "read"
        /\ s[4] = "status" /\ s[5] = "diff"
    OBVIOUS
  <2> HIDE DEF s
  <2> QED
    BY <1>2, <2>1, <2>2
<1>3. CASE "git" \notin t.tools /\ t.test
  <2> DEFINE s == <<"list", "write", "read">> \o <<>> \o <<"test">>
  <2>1. Concrete(t) = s
    BY <1>3 DEF Concrete, Git, Only
  <2>2. /\ Len(s) = 4 /\ DOMAIN s = 1 .. 4
        /\ s[1] = "list" /\ s[2] = "write" /\ s[3] = "read" /\ s[4] = "test"
    OBVIOUS
  <2> HIDE DEF s
  <2> QED
    BY <2>1, <2>2
<1>4. CASE "git" \notin t.tools /\ ~t.test
  <2> DEFINE s == <<"list", "write", "read">> \o <<>> \o <<>>
  <2>1. Concrete(t) = s
    BY <1>4 DEF Concrete, Git, Only
  <2>2. /\ Len(s) = 3 /\ DOMAIN s = 1 .. 3
        /\ s[1] = "list" /\ s[2] = "write" /\ s[3] = "read"
    OBVIOUS
  <2> HIDE DEF s
  <2> QED
    BY <1>4, <2>1, <2>2
<1> QED
  BY <1>1, <1>2, <1>3, <1>4

\* The plan of a task that declares its change.
LEMMA DeclaredLayout ==
    ASSUME NEW t \in Task
    PROVE  \E n \in 4 .. 6 : \E s :
               /\ s = Declared(t) /\ Len(s) = n /\ DOMAIN s = 1 .. n
               /\ s[1] = "list" /\ s[2] = "read"
               /\ \A i \in 1 .. n : s[i] = "test" => i = n
               /\ t.test => s[n] = "test"
<1>1. CASE "git" \in t.tools /\ t.test
  <2> DEFINE s == <<"list", "read", "write", "read">> \o <<"diff">> \o <<"test">>
  <2>1. Declared(t) = s
    BY <1>1 DEF Declared, Git, Only
  <2>2. /\ Len(s) = 6 /\ DOMAIN s = 1 .. 6
        /\ s[1] = "list" /\ s[2] = "read" /\ s[3] = "write" /\ s[4] = "read"
        /\ s[5] = "diff" /\ s[6] = "test"
    OBVIOUS
  <2> HIDE DEF s
  <2> QED
    BY <2>1, <2>2
<1>2. CASE "git" \in t.tools /\ ~t.test
  <2> DEFINE s == <<"list", "read", "write", "read">> \o <<"diff">> \o <<>>
  <2>1. Declared(t) = s
    BY <1>2 DEF Declared, Git, Only
  <2>2. /\ Len(s) = 5 /\ DOMAIN s = 1 .. 5
        /\ s[1] = "list" /\ s[2] = "read" /\ s[3] = "write" /\ s[4] = "read"
        /\ s[5] = "diff"
    OBVIOUS
  <2> HIDE DEF s
  <2> QED
    BY <1>2, <2>1, <2>2
<1>3. CASE "git" \notin t.tools /\ t.test
  <2> DEFINE s == <<"list", "read", "write", "read">> \o <<>> \o <<"test">>
  <2>1. Declared(t) = s
    BY <1>3 DEF Declared, Git, Only
  <2>2. /\ Len(s) = 5 /\ DOMAIN s = 1 .. 5
        /\ s[1] = "list" /\ s[2] = "read" /\ s[3] = "write" /\ s[4] = "read"
        /\ s[5] = "test"
    OBVIOUS
  <2> HIDE DEF s
  <2> QED
    BY <2>1, <2>2
<1>4. CASE "git" \notin t.tools /\ ~t.test
  <2> DEFINE s == <<"list", "read", "write", "read">> \o <<>> \o <<>>
  <2>1. Declared(t) = s
    BY <1>4 DEF Declared, Git, Only
  <2>2. /\ Len(s) = 4 /\ DOMAIN s = 1 .. 4
        /\ s[1] = "list" /\ s[2] = "read" /\ s[3] = "write" /\ s[4] = "read"
    OBVIOUS
  <2> HIDE DEF s
  <2> QED
    BY <1>4, <2>1, <2>2
<1> QED
  BY <1>1, <1>2, <1>3, <1>4

\* What the proofs need of the plan of any task: its length, that a test comes last
\* and is there if the task has one, and which read comes first.
LEMMA Layout ==
    ASSUME NEW t \in Task
    PROVE  \E n \in Place : \E s :
               /\ s = Steps(t) /\ Len(s) = n /\ DOMAIN s = 1 .. n
               /\ \A i \in 1 .. n : s[i] = "test" => i = n
               /\ Bare(t) => n = 1 /\ s[1] = "bare"
               /\ ~Bare(t) => /\ t.test => s[n] = "test"
                              /\ \E i \in 1 .. n :
                                    s[i] = "read" /\ \A j \in 1 .. n : s[j] = "read" => i <= j
               /\ ~Bare(t) /\ t.form = "title" =>
                    \A i, j \in 1 .. n : s[i] = "read" /\ s[j] = "read" => i = j
<1>1. CASE t.form = "title" /\ "filesystem" \in t.tools
  <2>1. Steps(t) = Concrete(t) /\ ~Bare(t)
    BY <1>1 DEF Steps, Bare
  <2>2. PICK n \in 3 .. 6 : \E s :
               /\ s = Concrete(t) /\ Len(s) = n /\ DOMAIN s = 1 .. n
               /\ s[1] = "list" /\ s[2] = "write" /\ s[3] = "read"
               /\ \A i \in 4 .. n : s[i] \in {"status", "diff", "test"}
               /\ \A i \in 1 .. n : s[i] = "test" => i = n
               /\ t.test => s[n] = "test"
    BY ConcreteLayout
  <2>3. PICK s :
               /\ s = Concrete(t) /\ Len(s) = n /\ DOMAIN s = 1 .. n
               /\ s[1] = "list" /\ s[2] = "write" /\ s[3] = "read"
               /\ \A i \in 4 .. n : s[i] \in {"status", "diff", "test"}
               /\ \A i \in 1 .. n : s[i] = "test" => i = n
               /\ t.test => s[n] = "test"
    BY <2>2
  <2>4. \A i \in 1 .. n : s[i] = "read" => i = 3
    <3> SUFFICES ASSUME NEW i \in 1 .. n, i # 3
                 PROVE  s[i] # "read"
      OBVIOUS
    <3>1. i = 1 \/ i = 2 \/ i \in 4 .. n
      OBVIOUS
    <3> QED
      BY <2>3, <3>1
  <2>5. 3 \in 1 .. n /\ n \in Place
    BY DEF Place
  <2>6. \E i \in 1 .. n : s[i] = "read" /\ \A j \in 1 .. n : s[j] = "read" => i <= j
    BY <2>3, <2>4, <2>5
  <2> QED
    BY <2>1, <2>3, <2>4, <2>5, <2>6
<1>2. CASE t.form = "declared"
  <2>1. Steps(t) = Declared(t) /\ ~Bare(t)
    BY <1>2 DEF Steps, Bare
  <2>2. PICK n \in 4 .. 6 : \E s :
               /\ s = Declared(t) /\ Len(s) = n /\ DOMAIN s = 1 .. n
               /\ s[1] = "list" /\ s[2] = "read"
               /\ \A i \in 1 .. n : s[i] = "test" => i = n
               /\ t.test => s[n] = "test"
    BY DeclaredLayout
  <2>3. PICK s :
               /\ s = Declared(t) /\ Len(s) = n /\ DOMAIN s = 1 .. n
               /\ s[1] = "list" /\ s[2] = "read"
               /\ \A i \in 1 .. n : s[i] = "test" => i = n
               /\ t.test => s[n] = "test"
    BY <2>2
  <2>4. \A i \in 1 .. n : s[i] = "read" => 2 <= i
    <3> SUFFICES ASSUME NEW i \in 1 .. n, ~(2 <= i)
                 PROVE  s[i] # "read"
      OBVIOUS
    <3>1. i = 1
      OBVIOUS
    <3> QED
      BY <2>3, <3>1
  <2>5. 2 \in 1 .. n /\ n \in Place
    BY DEF Place
  <2>6. \E i \in 1 .. n : s[i] = "read" /\ \A j \in 1 .. n : s[j] = "read" => i <= j
    BY <2>3, <2>4, <2>5
  <2> QED
    BY <1>2, <2>1, <2>3, <2>5, <2>6
<1>3. CASE Bare(t)
  <2>1. Steps(t) = <<"bare">>
    BY <1>3 DEF Bare, Steps
  <2>2. Len(Steps(t)) = 1 /\ DOMAIN Steps(t) = 1 .. 1 /\ Steps(t)[1] = "bare" /\ 1 \in Place
    BY <2>1 DEF Place
  <2>3. \A i \in 1 .. 1 : Steps(t)[i] = "test" => i = 1
    OBVIOUS
  <2> QED
    BY <1>3, <2>2, <2>3
<1> QED
  BY <1>1, <1>2, <1>3 DEF Bare

\* The same of the task at hand, in the words of the actions.
LEMMA PlanFacts ==
    ASSUME TypeOK
    PROVE  /\ Len(Steps(task)) \in Place
           /\ DOMAIN Steps(task) = 1 .. Len(Steps(task))
           /\ \A i \in DOMAIN Steps(task) : i \in Place
           /\ \A i \in Places({"test"}) : i = Len(Steps(task))
           /\ Bare(task) => Len(Steps(task)) = 1 /\ Kind(1) = "bare"
           /\ ~Bare(task) => /\ task.test => Len(Steps(task)) \in Places({"test"})
                             /\ First(Places({"read"})) \in Places({"read"})
           /\ ~Bare(task) /\ task.form = "title" =>
                \A i, j \in Places({"read"}) : i = j
<1>1. task \in Task
  BY DEF TypeOK
<1>2. PICK n \in Place : \E s :
               /\ s = Steps(task) /\ Len(s) = n /\ DOMAIN s = 1 .. n
               /\ \A i \in 1 .. n : s[i] = "test" => i = n
               /\ Bare(task) => n = 1 /\ s[1] = "bare"
               /\ ~Bare(task) => /\ task.test => s[n] = "test"
                                 /\ \E i \in 1 .. n :
                                    s[i] = "read" /\ \A j \in 1 .. n : s[j] = "read" => i <= j
               /\ ~Bare(task) /\ task.form = "title" =>
                    \A i, j \in 1 .. n : s[i] = "read" /\ s[j] = "read" => i = j
  BY <1>1, Layout
<1>3. PICK s :
               /\ s = Steps(task) /\ Len(s) = n /\ DOMAIN s = 1 .. n
               /\ \A i \in 1 .. n : s[i] = "test" => i = n
               /\ Bare(task) => n = 1 /\ s[1] = "bare"
               /\ ~Bare(task) => /\ task.test => s[n] = "test"
                                 /\ \E i \in 1 .. n :
                                    s[i] = "read" /\ \A j \in 1 .. n : s[j] = "read" => i <= j
               /\ ~Bare(task) /\ task.form = "title" =>
                    \A i, j \in 1 .. n : s[i] = "read" /\ s[j] = "read" => i = j
  BY <1>2
<1>4. /\ Len(Steps(task)) = n /\ DOMAIN Steps(task) = 1 .. n
      /\ \A i \in 1 .. n : Kind(i) = s[i]
  BY <1>3 DEF Kind
<1>5. \A i \in 1 .. n : i \in Place
  BY DEF Place
<1>6. \A i : /\ i \in Places({"read"}) <=> i \in 1 .. n /\ s[i] = "read"
             /\ i \in Places({"test"}) <=> i \in 1 .. n /\ s[i] = "test"
  BY <1>4 DEF Places
<1>7. ~Bare(task) => First(Places({"read"})) \in Places({"read"})
  <2> SUFFICES ASSUME ~Bare(task)
               PROVE  First(Places({"read"})) \in Places({"read"})
    OBVIOUS
  <2>1. \E i \in Places({"read"}) : \A j \in Places({"read"}) : i <= j
    BY <1>3, <1>6
  <2> QED
    BY <2>1 DEF First
<1>8. n \in 1 .. n
  BY DEF Place
<1>9. \A i \in Places({"test"}) : i = n
  BY <1>3, <1>6
<1>10. ~Bare(task) /\ task.test => n \in Places({"test"})
  BY <1>3, <1>6, <1>8
<1>11. ~Bare(task) /\ task.form = "title" => \A i, j \in Places({"read"}) : i = j
  BY <1>3, <1>6
<1>12. Bare(task) => n = 1 /\ Kind(1) = "bare"
  BY <1>3, <1>4, <1>8
<1> QED
  BY <1>4, <1>5, <1>7, <1>9, <1>10, <1>11, <1>12

----------------------------------------------------------------------------
(* Type correctness                                                        *)

Results == {"nothing", "resumed", "journaled", "ok", "shown", "empty"} \cup Content

Rows == {"none", "done", "left", "noeffect"} \cup Started

Checkpoint == [skip : SUBSET Place, fresh : BOOLEAN]

Budget == [retries : 0 .. MaxRetries, replans : 0 .. MaxReplans, cycles : 0 .. MaxCycles - 1]

Evidence == [read : Content, tested : {"no", "passed", "attested"}]

\* What an attempt that ends and one that begins may change.
AttemptType ==
    /\ stage \in {"planning", "executing", "waiting", "dead", "done", "failed"}
    /\ ckpt \in Checkpoint /\ at \in 1 .. 7 /\ got \in [Place -> Results]
    /\ spent \in Budget /\ proof \in Evidence

WorldType ==
    /\ task \in Task /\ disk \in Content /\ litter \in BOOLEAN
    /\ journal \in [Place -> Rows]
    /\ trouble \in 0 .. MaxTrouble /\ edits \in 0 .. MaxEdits

LEMMA TypeParts == TypeOK <=> AttemptType /\ WorldType
BY DEF TypeOK, AttemptType, WorldType, Results, Rows, Checkpoint, Budget, Evidence

\* How a pass begins.
LEMMA Beginnings ==
    /\ NoRows \in [Place -> Rows] /\ NoResults \in [Place -> Results]
    /\ NoProof \in Evidence /\ [skip |-> {}, fresh |-> FALSE] \in Checkpoint
    /\ [skip |-> {}, fresh |-> TRUE] \in Checkpoint /\ 1 \in 1 .. 7
    /\ \A p \in Evidence : /\ [p EXCEPT !.read = "none"] \in Evidence
                           /\ [p EXCEPT !.read = "none"].tested = p.tested
<1>1. {} \in SUBSET Place
  OBVIOUS
<1>2. NoRows \in [Place -> Rows] /\ NoResults \in [Place -> Results]
  BY DEF NoRows, NoResults, Rows, Results
<1>3. NoProof \in Evidence
  BY DEF NoProof, Evidence, Content
<1>4. \A p \in Evidence : /\ [p EXCEPT !.read = "none"] \in Evidence
                          /\ [p EXCEPT !.read = "none"].tested = p.tested
  BY DEF Evidence, Content
<1> QED
  BY <1>1, <1>2, <1>3, <1>4 DEF Checkpoint

LEMMA TypeInit == Init => TypeOK
<1> SUFFICES ASSUME Init PROVE TypeOK
  OBVIOUS
<1>1. task \in Task /\ disk \in Content
  BY TaskAssumption DEF Init, Task
<1>2. spent \in Budget
  BY LimitAssumption DEF Init, Budget
<1>3. AttemptType
  BY <1>2, Beginnings DEF Init, AttemptType
<1>4. journal \in [Place -> Rows]
  BY Beginnings DEF Init
<1>5. trouble \in 0 .. MaxTrouble /\ edits \in 0 .. MaxEdits
  BY BoundAssumption DEF Init
<1>6. WorldType
  BY <1>1, <1>4, <1>5 DEF Init, WorldType
<1> QED
  BY <1>3, <1>6, TypeParts

\* Another attempt, if the limits allow one.
LEMMA AgainEffect ==
    ASSUME TypeOK, NEW action \in {"retry", "replan"}, NEW skip \in SUBSET Place,
           Again(action, skip)
    PROVE  /\ AttemptType'
           /\ stage' # "done"
           /\ \/ UNCHANGED <<ckpt, at, got, proof>>
              \/ /\ ckpt'.skip = skip /\ at' = 1 /\ got' = NoResults
                 /\ proof'.tested = proof.tested
<1>1. AttemptType
  BY TypeParts
<1> DEFINE retries == spent.retries + (IF action = "retry" THEN 1 ELSE 0)
           replans == spent.replans + (IF action = "replan" THEN 1 ELSE 0)
<1>2. retries \in Nat /\ replans \in Nat /\ spent.cycles \in 0 .. MaxCycles - 1
  BY <1>1, LimitAssumption DEF AttemptType, Budget
<1>3. CASE retries > MaxRetries \/ replans > MaxReplans \/ LastCycle
  BY <1>1, <1>3 DEF Again, AttemptType
<1>4. CASE ~(retries > MaxRetries \/ replans > MaxReplans \/ LastCycle)
  <2>1. /\ spent' = [retries |-> retries, replans |-> replans, cycles |-> spent.cycles + 1]
        /\ stage' = IF action = "retry" THEN "executing" ELSE "planning"
        /\ ckpt' = [skip |-> skip, fresh |-> FALSE]
        /\ StartPass
    BY <1>4 DEF Again
  <2> HIDE DEF retries, replans
  <2>2. spent' \in Budget
    <3>1. retries \in 0 .. MaxRetries /\ replans \in 0 .. MaxReplans
      BY <1>2, <1>4, LimitAssumption
    <3>2. spent.cycles + 1 \in 0 .. MaxCycles - 1
      BY <1>2, <1>4, LimitAssumption DEF LastCycle
    <3> QED
      BY <2>1, <3>1, <3>2 DEF Budget
  <2>3. ckpt' \in Checkpoint /\ ckpt'.skip = skip
    BY <2>1 DEF Checkpoint
  <2>4. at' = 1 /\ got' = NoResults /\ proof' \in Evidence /\ proof'.tested = proof.tested
    BY <1>1, <2>1, Beginnings DEF StartPass, AttemptType
  <2> QED
    BY <2>1, <2>2, <2>3, <2>4, Beginnings DEF AttemptType
<1> QED
  BY <1>3, <1>4

\* Where a call stands, and what comes of it.
LEMMA RunsPlace ==
    ASSUME TypeOK, Runs
    PROVE  /\ at \in Place /\ at \in 1 .. Len(Steps(task)) /\ at + 1 \in 1 .. 7
           /\ 1 .. (at - 1) \in SUBSET Place
           /\ \A i \in Places({"test"}) : i \notin 1 .. (at - 1)
<1>1. /\ DOMAIN Steps(task) = 1 .. Len(Steps(task)) /\ at \in DOMAIN Steps(task)
      /\ \A i \in DOMAIN Steps(task) : i \in Place
      /\ \A i \in Places({"test"}) : i = Len(Steps(task))
  BY PlanFacts DEF Runs
<1>2. PICK n \in Place : n = Len(Steps(task))
  BY PlanFacts
<1>3. at \in 1 .. n /\ \A i \in Places({"test"}) : i = n
  BY <1>1, <1>2
<1>4. at \in Place /\ at + 1 \in 1 .. 7 /\ 1 .. (at - 1) \in SUBSET Place
  BY <1>3 DEF Place
<1> QED
  BY <1>2, <1>3, <1>4

LEMMA GetsEffect ==
    ASSUME TypeOK, Runs, NEW result \in Results, Gets(result)
    PROVE  /\ got' \in [Place -> Results] /\ at' \in 1 .. 7 /\ at' = at + 1
           /\ \A i \in Place : got'[i] = IF i = at THEN result ELSE got[i]
<1>1. got \in [Place -> Results] /\ at \in Place /\ at + 1 \in 1 .. 7
  BY TypeParts, RunsPlace DEF AttemptType
<1> QED
  BY <1>1 DEF Gets

LEMMA RowEffect ==
    ASSUME TypeOK, Runs, NEW status \in Rows, Row(status)
    PROVE  /\ journal' \in [Place -> Rows]
           /\ \A i \in Place : journal'[i] = IF i = at THEN status ELSE journal[i]
<1>1. journal \in [Place -> Rows] /\ at \in Place
  BY TypeParts, RunsPlace DEF WorldType
<1> QED
  BY <1>1 DEF Row

\* What a look gets; only a read gets the content of the file.
LEMMA SeenType ==
    ASSUME disk \in Content, NEW kind \in {"list", "read", "status", "diff"}
    PROVE  /\ Seen(kind) \in Results
           /\ Seen(kind) \in Content => kind = "read" /\ Seen(kind) = disk
<1>1. CASE kind = "list"
  BY <1>1 DEF Seen, Results, Content
<1>2. CASE kind = "read"
  BY <1>2 DEF Seen, Results
<1>3. CASE kind = "status"
  BY <1>3 DEF Seen, Results, Content
<1>4. CASE kind = "diff"
  BY <1>4 DEF Seen, Results, Content
<1> QED
  BY <1>1, <1>2, <1>3, <1>4

LEMMA TypeStep ==
    ASSUME TypeOK, [Next]_vars
    PROVE  TypeOK'
<1>1. AttemptType /\ WorldType
  BY TypeParts
<1>2. ASSUME AttemptType', WorldType'
      PROVE  TypeOK'
  BY <1>2 DEF TypeOK, AttemptType, WorldType, Results, Rows, Checkpoint, Budget, Evidence
<1>3. {} \in SUBSET Place
  OBVIOUS
<1>4. CASE MakePlan
  <2>1. stage' \in {"executing", "failed"}
    BY <1>4 DEF MakePlan
  <2>2. AttemptType'
    BY <1>1, <1>4, <2>1, Beginnings DEF MakePlan, AttemptType
  <2>3. WorldType'
    BY <1>1, <1>4, Beginnings DEF MakePlan, WorldType
  <2> QED
    BY <1>2, <2>2, <2>3
<1>5. CASE Unsettled
  BY <1>1, <1>2, <1>5, Beginnings DEF Unsettled, AttemptType, WorldType
<1>6. CASE Skip \/ Journaled
  <2>1. Runs /\ (Gets("resumed") \/ Gets("journaled"))
    BY <1>6 DEF Skip, Journaled, Takes
  <2>2. got' \in [Place -> Results] /\ at' \in 1 .. 7
    BY <2>1, GetsEffect DEF Results
  <2> QED
    BY <1>1, <1>2, <1>6, <2>2 DEF Skip, Journaled, AttemptType, WorldType
<1>7. CASE Refuse
  <2>1. AttemptType'
    BY <1>3, <1>7, AgainEffect DEF Refuse
  <2> QED
    BY <1>1, <1>2, <1>7, <2>1 DEF Refuse, WorldType
<1>8. CASE Look
  <2>1. Runs /\ Kind(at) \in {"list", "read", "status", "diff"}
    BY <1>8 DEF Look, Takes
  <2>2. WorldType'
    BY <1>1, <1>8 DEF Look, WorldType
  <2>3. CASE stage' = "failed" /\ UNCHANGED <<at, got, proof>>
    BY <1>1, <1>2, <1>8, <2>2, <2>3 DEF Look, AttemptType
  <2>4. CASE /\ Gets(Seen(Kind(at)))
             /\ proof' = IF Kind(at) = "read" THEN [proof EXCEPT !.read = disk] ELSE proof
             /\ UNCHANGED stage
    <3>1. Seen(Kind(at)) \in Results
      BY <1>1, <2>1, SeenType DEF WorldType
    <3>2. got' \in [Place -> Results] /\ at' \in 1 .. 7
      BY <2>1, <2>4, <3>1, GetsEffect
    <3>3. proof' \in Evidence
      BY <1>1, <2>4 DEF AttemptType, WorldType, Evidence
    <3> QED
      BY <1>1, <1>2, <1>8, <2>2, <2>4, <3>2, <3>3 DEF Look, AttemptType
  <2> QED
    BY <1>8, <2>3, <2>4 DEF Look
<1>9. CASE Write
  <2>1. Runs /\ Gets("ok") /\ Row("done")
    BY <1>9 DEF Write, Takes
  <2>2. got' \in [Place -> Results] /\ at' \in 1 .. 7
    BY <2>1, GetsEffect DEF Results
  <2>3. journal' \in [Place -> Rows]
    BY <2>1, RowEffect DEF Rows
  <2> QED
    BY <1>1, <1>2, <1>9, <2>2, <2>3 DEF Write, AttemptType, WorldType, Content
<1>10. CASE Test
  <2>1. Runs /\ Gets("ok") /\ (Row("done") \/ Row("left"))
    BY <1>10 DEF Test, Takes
  <2>2. got' \in [Place -> Results] /\ at' \in 1 .. 7
    BY <2>1, GetsEffect DEF Results
  <2>3. journal' \in [Place -> Rows]
    BY <2>1, RowEffect DEF Rows
  <2>4. litter' \in BOOLEAN
    BY <1>1, <1>10 DEF Test, WorldType, Task
  <2>5. proof' \in Evidence
    BY <1>1, <1>10 DEF Test, AttemptType, Evidence
  <2> QED
    BY <1>1, <1>2, <1>10, <2>2, <2>3, <2>4, <2>5 DEF Test, AttemptType, WorldType
<1>11. CASE TestFails
  <2>1. Runs /\ Row("failed") /\ Again("retry", 1 .. (at - 1))
    BY <1>11 DEF TestFails, Takes
  <2>2. AttemptType'
    BY <2>1, RunsPlace, AgainEffect
  <2>3. journal' \in [Place -> Rows]
    BY <2>1, RowEffect DEF Rows, Started
  <2>4. litter' \in BOOLEAN
    BY <1>1, <1>11 DEF TestFails, WorldType, Task
  <2> QED
    BY <1>1, <1>2, <1>11, <2>2, <2>3, <2>4 DEF TestFails, WorldType
<1>12. CASE Interrupt
  <2>1. Runs
    BY <1>12 DEF Interrupt, Takes
  <2>2. PICK outcome \in {"happened", "missed"} :
            /\ Row(outcome)
            /\ disk' = IF outcome = "happened" /\ Kind(at) = "write" THEN "new" ELSE disk
            /\ litter' = (litter \/ (outcome = "happened" /\ Kind(at) = "test" /\ task.leaves))
    BY <1>12 DEF Interrupt
  <2>3. journal' \in [Place -> Rows]
    BY <2>1, <2>2, RowEffect DEF Rows, Started
  <2>4. trouble' \in 0 .. MaxTrouble
    BY <1>1, <1>12, BoundAssumption DEF Interrupt, Trouble, WorldType
  <2>5. disk' \in Content /\ litter' \in BOOLEAN
    BY <1>1, <2>2 DEF WorldType, Content
  <2>6. WorldType'
    BY <1>1, <1>12, <2>3, <2>4, <2>5 DEF Interrupt, WorldType
  <2>7. ckpt' \in Checkpoint /\ stage' \in {"waiting", "dead"}
    <3>1. 1 .. (at - 1) \in SUBSET Place
      BY <2>1, RunsPlace
    <3>2. \A skip \in SUBSET Place : [skip |-> skip, fresh |-> FALSE] \in Checkpoint
      BY DEF Checkpoint
    <3>3. \/ stage' = "waiting" /\ ckpt' = [skip |-> 1 .. (at - 1), fresh |-> FALSE]
          \/ stage' = "dead" /\ UNCHANGED ckpt
      BY <1>12 DEF Interrupt
    <3>4. CASE stage' = "waiting" /\ ckpt' = [skip |-> 1 .. (at - 1), fresh |-> FALSE]
      BY <3>1, <3>2, <3>4
    <3> QED
      BY <1>1, <3>3, <3>4 DEF AttemptType
  <2> QED
    BY <1>1, <1>2, <1>12, <2>6, <2>7 DEF Interrupt, AttemptType
<1>13. CASE Die
  <2>1. trouble' \in 0 .. MaxTrouble
    BY <1>1, <1>13, BoundAssumption DEF Die, Trouble, WorldType
  <2> QED
    BY <1>1, <1>2, <1>13, <2>1 DEF Die, AttemptType, WorldType
<1>14. CASE Resume
  <2>1. \/ stage' = "planning" /\ UNCHANGED <<at, got, proof>>
        \/ stage' = "executing" /\ StartPass
    BY <1>14 DEF Resume
  <2>2. AttemptType'
    BY <1>1, <1>14, <2>1, Beginnings DEF Resume, StartPass, AttemptType
  <2> QED
    BY <1>1, <1>2, <1>14, <2>2 DEF Resume, WorldType
<1>15. CASE Settle
  <2>1. PICK i \in Place : \E answer \in Answers(i) :
            /\ journal' = [journal EXCEPT ![i] = answer]
            /\ stage' = "executing" /\ at' = 1 /\ got' = NoResults
            /\ proof' = [read |-> "none", tested |->
                IF answer = "done" /\ Kind(i) = "test" THEN "attested" ELSE proof.tested]
    BY <1>15 DEF Settle
  <2>2. PICK answer \in {"done", "noeffect"} :
            /\ journal' = [journal EXCEPT ![i] = answer]
            /\ stage' = "executing" /\ at' = 1 /\ got' = NoResults
            /\ proof' = [read |-> "none", tested |->
                IF answer = "done" /\ Kind(i) = "test" THEN "attested" ELSE proof.tested]
    BY <2>1 DEF Answers
  <2>3. proof' \in Evidence
    BY <1>1, <2>2 DEF AttemptType, Evidence, Content
  <2>4. AttemptType'
    BY <1>1, <1>15, <2>2, <2>3, Beginnings DEF Settle, AttemptType
  <2>5. journal' \in [Place -> Rows]
    BY <1>1, <2>2 DEF WorldType, Rows
  <2> QED
    BY <1>1, <1>2, <1>15, <2>4, <2>5 DEF Settle, WorldType
<1>16. CASE Edit
  <2>1. edits' \in 0 .. MaxEdits
    BY <1>1, <1>16, BoundAssumption DEF Edit, WorldType
  <2> QED
    BY <1>1, <1>2, <1>16, <2>1 DEF Edit, AttemptType, WorldType
<1>17. CASE Judge
  <2>1. \/ stage' = "done" /\ UNCHANGED <<ckpt, at, got, spent, proof>>
        \/ \E action \in {"retry", "replan"} : Again(action, {})
    BY <1>17 DEF Judge
  <2>2. AttemptType'
    BY <1>1, <1>3, <2>1, AgainEffect DEF AttemptType
  <2> QED
    BY <1>1, <1>2, <1>17, <2>2 DEF Judge, WorldType
<1>18. CASE Over \/ UNCHANGED vars
  BY <1>1, <1>2, <1>18 DEF Over, vars, AttemptType, WorldType
<1> QED
  BY <1>4, <1>5, <1>6, <1>7, <1>8, <1>9, <1>10, <1>11, <1>12, <1>13, <1>14, <1>15, <1>16,
     <1>17, <1>18 DEF Next, Work

\* Tasks, rows, results and limits keep their shape, for any tasks and any limits.
THEOREM FileTaskTypeCorrect == Spec => []TypeOK
BY TypeInit, TypeStep, PTL DEF Spec

----------------------------------------------------------------------------
(* What a task that is done has been seen to have                          *)

\* The plan without arguments never gets beyond its step.
Bareness == Bare(task) => at = 1 /\ ckpt.skip = {}

\* Content comes from reading only.
ReadResults == \A i \in Place : got[i] \in Content => i \in Places({"read"})

\* The file that was read to be new is new, but for people; where there is one read,
\* it is the last.
ReadNew == (\E i \in Place : got[i] = "new") =>
    /\ edits = 0 => disk = "new"
    /\ task.form = "title" => proof.read = "new"

\* A test is never skipped, and who is past it, or finds its row, has its proof.
Tested == \A i \in Places({"test"}) :
    /\ i \notin ckpt.skip
    /\ at > i \/ journal[i] \in {"done", "left"} => proof.tested # "no"

Solid == Bareness /\ ReadResults /\ ReadNew /\ Tested

LEMMA TaskStays == ASSUME [Next]_vars PROVE task' = task
BY DEF Next, Work, MakePlan, Unsettled, Skip, Refuse, Look, Journaled, Write, Test, TestFails,
       Judge, Resume, Settle, Interrupt, Die, Edit, Over, vars

\* Whoever calls a tool has a plan with arguments.
LEMMA CallerHasPlan ==
    ASSUME TypeOK, Runs, Bareness, at \in ckpt.skip \/ Kind(at) # "bare"
    PROVE  ~Bare(task)
BY PlanFacts DEF Runs, Bareness

LEMMA SolidInit == Init => Solid
<1> SUFFICES ASSUME Init PROVE Solid
  OBVIOUS
<1>1. \A i \in Place : got[i] \notin Content
  BY DEF Init, NoResults, Content
<1>2. \A i \in Places({"test"}) : i \in Place
  BY TypeInit, PlanFacts DEF Places
<1>3. Tested
  BY <1>2 DEF Init, Tested, NoRows, Place
<1> QED
  BY <1>1, <1>3 DEF Init, Solid, Bareness, ReadResults, ReadNew, Content

\* A pass begins.
LEMMA PassBegins ==
    ASSUME TypeOK, Solid, task' = task, at' = 1, got' = NoResults,
           Bare(task) => ckpt'.skip = {},
           \A i \in Places({"test"}) :
                i \notin ckpt'.skip /\ (journal'[i] \in {"done", "left"} => proof'.tested # "no")
    PROVE  Solid'
<1>1. Bareness'
  BY DEF Bareness, Bare
<1>2. \A i \in Place : got'[i] \notin Content
  BY DEF NoResults, Content
<1>3. ReadResults' /\ ReadNew'
  BY <1>2 DEF ReadResults, ReadNew, Content
<1>4. Places({"test"})' = Places({"test"})
  BY DEF Places, Kind
<1>5. \A i \in Places({"test"}) : ~(at' > i)
  BY PlanFacts DEF Places, Place
<1>6. Tested'
  BY <1>4, <1>5 DEF Tested
<1> QED
  BY <1>1, <1>3, <1>6 DEF Solid

\* What the call has got and how the file is stay, and nothing is skipped or found
\* that was not before.
LEMMA PassStays ==
    ASSUME TypeOK, Solid, UNCHANGED <<task, at, got, proof>>,
           edits' # 0 \/ (edits' = edits /\ disk' \in {disk, "new"}),
           Bare(task) => ckpt'.skip = {},
           \A i \in Places({"test"}) :
                /\ i \notin ckpt'.skip
                /\ journal'[i] \in {"done", "left"} => journal[i] \in {"done", "left"}
    PROVE  Solid'
<1>1. Places({"test"})' = Places({"test"}) /\ Places({"read"})' = Places({"read"})
  BY DEF Places, Kind
<1>2. Bareness'
  BY DEF Solid, Bareness, Bare
<1>3. ReadResults'
  BY <1>1 DEF Solid, ReadResults
<1>4. ReadNew'
  BY DEF Solid, ReadNew
<1>5. Tested'
  BY <1>1 DEF Solid, Tested
<1> QED
  BY <1>2, <1>3, <1>4, <1>5 DEF Solid

\* A step of the plan is done.
LEMMA PassGoesOn ==
    ASSUME TypeOK, Solid, Runs, ~Bare(task), NEW result \in Results, Gets(result),
           UNCHANGED <<task, ckpt, edits>>,
           \/ result \notin Content /\ proof'.read = proof.read /\ disk' \in {disk, "new"}
           \/ Kind(at) = "read" /\ result = disk /\ proof'.read = disk /\ disk' = disk,
           proof.tested # "no" => proof'.tested # "no",
           Kind(at) = "test" => proof'.tested # "no",
           \A i \in Place : i # at => journal'[i] = journal[i]
    PROVE  Solid'
<1>1. Places({"test"})' = Places({"test"}) /\ Places({"read"})' = Places({"read"})
  BY DEF Places, Kind
<1>2. /\ at' = at + 1 /\ at \in Place /\ at \in DOMAIN Steps(task)
      /\ \A i \in Place : got'[i] = IF i = at THEN result ELSE got[i]
  BY GetsEffect, RunsPlace DEF Runs
<1>3. Bareness'
  BY DEF Bareness, Bare
<1>4. Kind(at) = "read" => at \in Places({"read"})
  BY <1>2 DEF Places
<1>5. ReadResults'
  BY <1>1, <1>2, <1>4 DEF Solid, ReadResults
<1>6. ReadNew'
  <2> SUFFICES ASSUME NEW i \in Place, got'[i] = "new"
               PROVE  /\ edits = 0 => disk' = "new"
                      /\ task.form = "title" => proof'.read = "new"
    BY DEF ReadNew
  <2>1. CASE i = at
    <3>1. result = "new" /\ "new" \in Content
      BY <1>2, <2>1 DEF Content
    <3> QED
      BY <3>1
  <2>2. CASE i # at
    <3>1. got[i] = "new"
      BY <1>2, <2>2
    <3>2. i \in Places({"read"})
      BY <3>1 DEF Solid, ReadResults, Content
    <3>3. edits = 0 => disk' = "new"
      BY <3>1 DEF Solid, ReadNew
    <3>4. task.form = "title" => proof'.read = proof.read
      BY <1>4, <2>2, <3>2, PlanFacts
    <3> QED
      BY <3>1, <3>3, <3>4 DEF Solid, ReadNew
  <2> QED
    BY <2>1, <2>2
<1>7. Tested'
  <2> SUFFICES ASSUME NEW i \in Places({"test"})
               PROVE  /\ i \notin ckpt.skip
                      /\ at' > i \/ journal'[i] \in {"done", "left"} => proof'.tested # "no"
    BY <1>1 DEF Tested
  <2>1. i \in Place /\ Kind(i) = "test"
    BY PlanFacts DEF Places
  <2>2. CASE i = at
    BY <2>1, <2>2 DEF Solid, Tested
  <2>3. CASE i # at
    <3>1. at' > i => at > i
      BY <1>2, <2>1, <2>3 DEF Place
    <3> QED
      BY <2>1, <2>3, <3>1 DEF Solid, Tested
  <2> QED
    BY <2>2, <2>3
<1> QED
  BY <1>3, <1>5, <1>6, <1>7 DEF Solid

\* An attempt ends.
LEMMA AttemptEnds ==
    ASSUME TypeOK, Solid, UNCHANGED <<task, disk, edits>>,
           NEW action \in {"retry", "replan"}, NEW skip \in SUBSET Place, Again(action, skip),
           Bare(task) => skip = {},
           \A i \in Places({"test"}) :
                /\ i \notin skip
                /\ journal'[i] \in {"done", "left"} => journal[i] \in {"done", "left"}
    PROVE  Solid'
<1>1. CASE UNCHANGED <<ckpt, at, got, proof>>
  <2>1. Bare(task) => ckpt'.skip = {}
    BY <1>1 DEF Solid, Bareness
  <2>2. \A i \in Places({"test"}) : i \notin ckpt'.skip
    BY <1>1 DEF Solid, Tested
  <2> QED
    BY <1>1, <2>1, <2>2, PassStays
<1>2. CASE /\ ckpt'.skip = skip /\ at' = 1 /\ got' = NoResults
           /\ proof'.tested = proof.tested
  <2>1. \A i \in Places({"test"}) : journal'[i] \in {"done", "left"} => proof'.tested # "no"
    BY <1>2 DEF Solid, Tested
  <2> QED
    BY <1>2, <2>1, PassBegins
<1> QED
  BY <1>1, <1>2, AgainEffect

LEMMA SolidStep ==
    ASSUME TypeOK, Solid, [Next]_vars
    PROVE  Solid'
<1>1. AttemptType /\ WorldType
  BY TypeParts
<1>2. task' = task
  BY TaskStays
<1>3. {} \in SUBSET Place
  OBVIOUS
<1>4. \A i \in Places({"test"}) : i \in Place /\ i \notin ckpt.skip
  BY PlanFacts DEF Places, Solid, Tested
<1>5. Bare(task) => ckpt.skip = {}
  BY DEF Solid, Bareness
<1>6. CASE MakePlan
  <2>1. ckpt'.skip = {} /\ at' = 1 /\ got' = NoResults /\ journal' = NoRows
    BY <1>6 DEF MakePlan
  <2>2. \A i \in Places({"test"}) : journal'[i] \notin {"done", "left"}
    BY <1>4, <2>1 DEF NoRows
  <2> QED
    BY <1>2, <2>1, <2>2, PassBegins
<1>7. CASE Unsettled
  <2>1. ckpt'.skip = {} /\ UNCHANGED <<at, got, proof, journal, disk, edits>>
    BY <1>7 DEF Unsettled
  <2> QED
    BY <1>2, <2>1, PassStays
<1>8. CASE Skip
  <2>1. /\ Runs /\ at \in ckpt.skip /\ Gets("resumed")
        /\ UNCHANGED <<ckpt, edits, proof, disk, journal>>
    BY <1>8 DEF Skip
  <2>2. ~Bare(task)
    BY <1>5, <2>1
  <2>3. Kind(at) # "test"
    BY <1>4, <2>1 DEF Places, Runs
  <2>4. "resumed" \in Results /\ "resumed" \notin Content
    BY DEF Results, Content
  <2> QED
    BY <1>2, <2>1, <2>2, <2>3, <2>4, PassGoesOn
<1>9. ASSUME NEW kinds, Takes(kinds)
      PROVE  /\ Runs /\ ~Bare(task) /\ Kind(at) \in kinds
             /\ 1 .. (at - 1) \in SUBSET Place
             /\ \A i \in Places({"test"}) : i \notin 1 .. (at - 1)
  <2>1. Runs /\ Kind(at) \in kinds /\ Kind(at) # "bare"
    BY <1>9 DEF Takes
  <2> QED
    BY <2>1, RunsPlace, CallerHasPlan DEF Solid
<1>10. CASE Refuse
  <2>1. Again("replan", {}) /\ UNCHANGED <<disk, edits, journal>>
    BY <1>10 DEF Refuse
  <2> QED
    BY <1>2, <1>3, <2>1, AttemptEnds
<1>11. CASE Look
  <2>1. Runs /\ ~Bare(task) /\ Kind(at) \in {"list", "read", "status", "diff"}
    BY <1>9, <1>11 DEF Look
  <2>2. UNCHANGED <<ckpt, edits, disk, journal>>
    BY <1>11 DEF Look
  <2>3. CASE UNCHANGED <<at, got, proof>>
    BY <1>2, <1>4, <1>5, <2>2, <2>3, PassStays
  <2>4. CASE /\ Gets(Seen(Kind(at)))
             /\ proof' = IF Kind(at) = "read" THEN [proof EXCEPT !.read = disk] ELSE proof
    <3>1. /\ Seen(Kind(at)) \in Results
          /\ Seen(Kind(at)) \in Content => Kind(at) = "read" /\ Seen(Kind(at)) = disk
      BY <1>1, <2>1, SeenType DEF WorldType
    <3>2. Kind(at) = "read" => Seen(Kind(at)) = disk
      <4>1. Seen("read") = disk
        BY DEF Seen
      <4> QED
        BY <4>1
    <3>3. /\ proof'.tested = proof.tested
          /\ proof'.read = IF Kind(at) = "read" THEN disk ELSE proof.read
      BY <1>1, <2>4 DEF AttemptType, Evidence
    <3>4. Kind(at) # "test"
      BY <2>1
    <3> QED
      BY <1>2, <2>1, <2>2, <2>4, <3>1, <3>2, <3>3, <3>4, PassGoesOn
  <2> QED
    BY <1>11, <2>3, <2>4 DEF Look
<1>12. CASE Journaled
  <2>1. Runs /\ ~Bare(task)
    BY <1>9, <1>12 DEF Journaled
  <2>2. ~Open /\ Gets("journaled") /\ UNCHANGED <<ckpt, edits, proof, disk, journal>>
    BY <1>12 DEF Journaled
  <2>3. at \in Place /\ journal[at] \in {"done", "left"}
    <3>1. at \in Place /\ journal[at] \in Rows
      BY <1>1, <2>1, RunsPlace DEF WorldType
    <3>2. journal[at] \notin Started
      BY <2>1, <3>1 DEF Runs, Pending
    <3> QED
      BY <2>2, <3>1, <3>2 DEF Open, Rows
  <2>4. Kind(at) = "test" => proof.tested # "no"
    BY <2>1, <2>3 DEF Solid, Tested, Places, Runs
  <2>5. "journaled" \in Results /\ "journaled" \notin Content
    BY DEF Results, Content
  <2> QED
    BY <1>2, <2>1, <2>2, <2>4, <2>5, PassGoesOn
<1>13. CASE Write
  <2>1. Runs /\ ~Bare(task) /\ Kind(at) = "write"
    BY <1>9, <1>13 DEF Write
  <2>2. /\ Gets("ok") /\ Row("done") /\ disk' = "new"
        /\ UNCHANGED <<ckpt, edits, proof>>
    BY <1>13 DEF Write
  <2>3. \A i \in Place : i # at => journal'[i] = journal[i]
    BY <2>1, <2>2, RowEffect DEF Rows
  <2>4. "ok" \in Results /\ "ok" \notin Content
    BY DEF Results, Content
  <2> QED
    BY <1>2, <2>1, <2>2, <2>3, <2>4, PassGoesOn
<1>14. CASE Test
  <2>1. Runs /\ ~Bare(task)
    BY <1>9, <1>14 DEF Test
  <2>2. /\ Gets("ok") /\ (Row("done") \/ Row("left"))
        /\ UNCHANGED <<ckpt, edits, disk>>
    BY <1>14 DEF Test
  <2>3. \A i \in Place : i # at => journal'[i] = journal[i]
    BY <2>1, <2>2, RowEffect DEF Rows
  <2>4. proof'.read = proof.read /\ proof'.tested = "passed"
    BY <1>1, <1>14 DEF Test, AttemptType, Evidence
  <2>5. "ok" \in Results /\ "ok" \notin Content
    BY DEF Results, Content
  <2> QED
    BY <1>2, <2>1, <2>2, <2>3, <2>4, <2>5, PassGoesOn
<1>15. CASE TestFails
  <2>1. /\ Runs /\ ~Bare(task) /\ 1 .. (at - 1) \in SUBSET Place
        /\ \A i \in Places({"test"}) : i \notin 1 .. (at - 1)
    BY <1>9, <1>15 DEF TestFails
  <2>2. /\ Row("failed") /\ Again("retry", 1 .. (at - 1)) /\ UNCHANGED <<disk, edits>>
    BY <1>15 DEF TestFails
  <2>3. \A i \in Place : journal'[i] \in {"done", "left"} => journal[i] \in {"done", "left"}
    BY <2>1, <2>2, RowEffect DEF Rows, Started
  <2> QED
    BY <1>2, <1>4, <2>1, <2>2, <2>3, AttemptEnds
<1>16. CASE Interrupt
  <2>1. /\ Runs /\ ~Bare(task)
        /\ \A i \in Places({"test"}) : i \notin 1 .. (at - 1)
    BY <1>9, <1>16 DEF Interrupt
  <2>2. PICK outcome \in {"happened", "missed"} :
            /\ Row(outcome)
            /\ disk' = IF outcome = "happened" /\ Kind(at) = "write" THEN "new" ELSE disk
    BY <1>16 DEF Interrupt
  <2>3. \A i \in Place : journal'[i] \in {"done", "left"} => journal[i] \in {"done", "left"}
    BY <2>1, <2>2, RowEffect DEF Rows, Started
  <2>4. \A i \in Places({"test"}) : i \notin ckpt'.skip
    <3>1. ckpt' = [skip |-> 1 .. (at - 1), fresh |-> FALSE] \/ UNCHANGED ckpt
      BY <1>16 DEF Interrupt
    <3>2. ckpt'.skip = 1 .. (at - 1) \/ UNCHANGED ckpt
      BY <3>1
    <3> QED
      BY <1>4, <2>1, <3>2
  <2>5. UNCHANGED <<at, got, proof, edits>> /\ disk' \in {disk, "new"}
    BY <1>16, <2>2 DEF Interrupt
  <2> QED
    BY <1>2, <1>4, <2>1, <2>3, <2>4, <2>5, PassStays
<1>17. CASE Die
  <2>1. UNCHANGED <<at, got, proof, edits, disk, ckpt, journal>>
    BY <1>17 DEF Die
  <2> QED
    BY <1>2, <1>4, <1>5, <2>1, PassStays
<1>18. CASE Resume
  <2>1. UNCHANGED <<edits, disk, ckpt, journal>>
    BY <1>18 DEF Resume
  <2>2. CASE UNCHANGED <<at, got, proof>>
    BY <1>2, <1>4, <1>5, <2>1, <2>2, PassStays
  <2>3. CASE StartPass
    <3>1. at' = 1 /\ got' = NoResults /\ proof'.tested = proof.tested
      BY <1>1, <2>3, Beginnings DEF StartPass, AttemptType
    <3>2. \A i \in Places({"test"}) : journal'[i] \in {"done", "left"} => proof'.tested # "no"
      BY <2>1, <3>1 DEF Solid, Tested
    <3> QED
      BY <1>2, <1>4, <1>5, <2>1, <3>1, <3>2, PassBegins
  <2> QED
    BY <1>18, <2>2, <2>3 DEF Resume
<1>19. CASE Settle
  <2>1. PICK i \in Place : \E answer \in Answers(i) :
            /\ journal' = [journal EXCEPT ![i] = answer]
            /\ stage' = "executing" /\ at' = 1 /\ got' = NoResults
            /\ proof' = [read |-> "none", tested |->
                IF answer = "done" /\ Kind(i) = "test" THEN "attested" ELSE proof.tested]
    BY <1>19 DEF Settle
  <2>2. PICK answer \in {"done", "noeffect"} :
            /\ journal' = [journal EXCEPT ![i] = answer]
            /\ stage' = "executing" /\ at' = 1 /\ got' = NoResults
            /\ proof' = [read |-> "none", tested |->
                IF answer = "done" /\ Kind(i) = "test" THEN "attested" ELSE proof.tested]
    BY <2>1 DEF Answers
  <2>3. \A j \in Places({"test"}) : journal'[j] \in {"done", "left"} => proof'.tested # "no"
    <3> SUFFICES ASSUME NEW j \in Places({"test"}), journal'[j] \in {"done", "left"}
                 PROVE  proof'.tested # "no"
      OBVIOUS
    <3>1. j \in Place /\ Kind(j) = "test"
      BY <1>4 DEF Places
    <3>2. CASE i = j
      BY <1>1, <2>2, <3>1, <3>2 DEF WorldType
    <3>3. CASE i # j
      <4>1. journal[j] \in {"done", "left"}
        BY <1>1, <2>2, <3>1, <3>3 DEF WorldType
      <4>2. proof.tested # "no"
        BY <4>1 DEF Solid, Tested
      <4> QED
        BY <2>2, <4>2
    <3> QED
      BY <3>2, <3>3
  <2>4. UNCHANGED ckpt
    BY <1>19 DEF Settle
  <2> QED
    BY <1>2, <1>4, <1>5, <2>2, <2>3, <2>4, PassBegins
<1>20. CASE Edit
  <2>1. edits' # 0 /\ UNCHANGED <<at, got, proof, ckpt, journal>>
    BY <1>1, <1>20, BoundAssumption DEF Edit, WorldType
  <2> QED
    BY <1>2, <1>4, <1>5, <2>1, PassStays
<1>21. CASE Judge
  <2>1. UNCHANGED <<disk, journal, edits>>
    BY <1>21 DEF Judge
  <2>2. \/ UNCHANGED <<ckpt, at, got, proof>>
        \/ \E action \in {"retry", "replan"} : Again(action, {})
    BY <1>21 DEF Judge
  <2>3. CASE UNCHANGED <<ckpt, at, got, proof>>
    BY <1>2, <1>4, <1>5, <2>1, <2>3, PassStays
  <2>4. ASSUME NEW action \in {"retry", "replan"}, Again(action, {})
        PROVE  Solid'
    BY <1>2, <1>3, <2>1, <2>4, AttemptEnds
  <2> QED
    BY <2>2, <2>3, <2>4
<1>22. CASE Over \/ UNCHANGED vars
  <2>1. UNCHANGED <<at, got, proof, edits, disk, ckpt, journal>>
    BY <1>22 DEF Over, vars
  <2> QED
    BY <1>2, <1>4, <1>5, <2>1, PassStays
<1> QED
  BY <1>6, <1>7, <1>8, <1>10, <1>11, <1>12, <1>13, <1>14, <1>15, <1>16, <1>17, <1>18, <1>19,
     <1>20, <1>21, <1>22 DEF Next, Work

\* A task is done by the verdict only, and then has what it has been seen to have.
LEMMA DoneStep ==
    ASSUME TypeOK, Solid, DoneIsProven, [Next]_vars, stage' = "done"
    PROVE  DoneIsProven'
<1>1. AttemptType
  BY TypeParts
<1>2. CASE stage = "done"
  <2>1. UNCHANGED vars
    BY <1>2 DEF Next, Work, MakePlan, Unsettled, Skip, Refuse, Look, Journaled, Write, Test,
           TestFails, Judge, Resume, Settle, Interrupt, Die, Edit, Over, Runs, Takes
  <2> QED
    BY <1>2, <2>1 DEF DoneIsProven, vars
<1>3. ASSUME NEW action \in {"retry", "replan"}, NEW skip \in SUBSET Place, Again(action, skip)
      PROVE  FALSE
  BY <1>3, AgainEffect
<1>4. {} \in SUBSET Place
  OBVIOUS
<1>5. CASE stage # "done"
  <2>1. ~TestFails
    <3> SUFFICES ASSUME TestFails PROVE FALSE
      OBVIOUS
    <3>1. Runs /\ Again("retry", 1 .. (at - 1))
      BY DEF TestFails, Takes
    <3> QED
      BY <1>3, <3>1, RunsPlace
  <2>2. ~Refuse
    BY <1>3, <1>4 DEF Refuse
  <2>3. Judge
    BY <1>5, <2>1, <2>2
       DEF Next, Work, MakePlan, Unsettled, Skip, Look, Journaled, Write, Test, Resume, Settle,
           Interrupt, Die, Edit, Over, vars
  <2>4. ContentOk /\ UNCHANGED <<ckpt, at, got, spent, proof>>
    BY <1>3, <1>4, <2>3 DEF Judge
  <2>5. at > Len(Steps(task)) /\ UNCHANGED <<task, disk, edits>>
    BY <2>3 DEF Judge
  <2>6. ~Bare(task)
    BY <1>1, <2>5, PlanFacts DEF Solid, Bareness
  <2>7. First(Places({"read"})) \in Place
    BY <2>6, PlanFacts DEF Places
  <2>8. \E i \in Place : got[i] = "new"
    BY <2>4, <2>7 DEF ContentOk
  <2>9. (edits = 0 => disk = "new") /\ (task.form = "title" => proof.read = "new")
    BY <2>8 DEF Solid, ReadNew
  <2>10. task.test => proof.tested # "no"
    <3> SUFFICES ASSUME task.test PROVE proof.tested # "no"
      OBVIOUS
    <3>1. Len(Steps(task)) \in Places({"test"})
      BY <2>6, PlanFacts
    <3> QED
      BY <2>5, <3>1 DEF Solid, Tested
  <2> QED
    BY <2>4, <2>5, <2>9, <2>10 DEF DoneIsProven
<1> QED
  BY <1>2, <1>5

\* A task that is done has its file as it should be but for people, was seen to have it,
\* and its test passed or a person vouched for it: through deaths, lost calls and edits, for
\* any tasks and any limits.
THEOREM FileTaskDoneIsProven == Spec => []DoneIsProven
<1>1. Init => DoneIsProven
  BY DEF Init, DoneIsProven
<1>2. TypeOK /\ Solid /\ DoneIsProven /\ [Next]_vars => DoneIsProven'
  <2> SUFFICES ASSUME TypeOK, Solid, DoneIsProven, [Next]_vars
               PROVE  DoneIsProven'
    OBVIOUS
  <2>1. CASE stage' = "done"
    BY <2>1, DoneStep
  <2>2. CASE stage' # "done"
    BY <2>2 DEF DoneIsProven
  <2> QED
    BY <2>1, <2>2
<1> QED
  BY <1>1, <1>2, TypeInit, TypeStep, SolidInit, SolidStep, PTL DEF Spec

====
