---- MODULE MCFileTask ----
(* FileTask for TLC: all forms of tasks, with the attributes that matter for  *)
(* each; those that do not matter for a task have one value.                  *)
EXTENDS FileTask

MCTools == {{"filesystem"} \cup ts : ts \in SUBSET {"git", "test_runner"}}
    \cup {{"git", "sqlite"}, {"git"}, {}}

Runnable(t) ==
    Plannable(t) /\ t.form # "prose" /\ "filesystem" \in t.tools /\ ~t.dry /\ t.covered

MCTasks == {t \in [form : {"title", "declared", "prose"}, tools : MCTools, flaw : {"none", "context", "change", "command"},
                   test : BOOLEAN, covered : BOOLEAN, dry : BOOLEAN, head : Content,
                   start : Content, visible : BOOLEAN, leaves : BOOLEAN, steady : BOOLEAN] :
    /\ ~t.test => t.steady /\ ~t.leaves
    /\ "git" \notin t.tools => t.head = "old" /\ t.visible
    /\ ~Runnable(t) => t.head = "old" /\ t.start = "old" /\ t.visible /\ t.steady /\ ~t.leaves
    /\ t.flaw = "change" => t.form = "declared"
    /\ t.flaw = "command" => t.test /\ t.form # "prose"
    /\ t.dry => t.covered
    /\ t.flaw # "none" \/ "filesystem" \notin t.tools => ~t.dry /\ t.covered}
====
