---- MODULE TaskStatus ----
(* The task status graph of storage/task_store.py: which status may follow   *)
(* which, and the approval that planning and execution need on top.          *)

Status == {"created", "ready", "planning", "executing", "validating",
           "waiting", "done", "failed", "cancelled"}

Terminal == {"done", "failed", "cancelled"}

\* The statuses in which some call is, or was, at work on the task.
Active == {"planning", "executing", "validating"}

From(status, targets) == {status} \X targets

\* TRANSITIONS; every status that is not terminal may also fail or be cancelled.
Edges ==
    UNION {
        From("created", {"ready"}),
        From("ready", {"planning"}),
        From("planning", {"executing", "waiting"}),
        From("executing", {"validating", "planning", "waiting"}),
        From("validating", {"done", "executing", "planning", "waiting"}),
        From("waiting", {"planning", "executing", "validating"}),
        (Status \ Terminal) \X {"failed", "cancelled"} }

\* TaskStore.transition raises ValueError in every other case.
CanMove(from, to, approved) ==
    /\ <<from, to>> \in Edges
    /\ to \in {"planning", "executing"} => approved

====
