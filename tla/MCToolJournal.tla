---- MODULE MCToolJournal ----
(* ToolJournal for TLC: a plan that reads, writes and tests, and a second one  *)
(* whose steps have the same ids; the short plans have two steps.             *)
EXTENDS ToolJournal, TLC

CONSTANTS p1, p2

MCPlan == {p1, p2}

MCKind == [p \in MCPlan |->
    IF p = p1 THEN <<"read", "effect", "test">> ELSE <<"read", "test", "effect">>]

MCShortKind == [p \in MCPlan |->
    IF p = p1 THEN <<"effect", "test">> ELSE <<"read", "effect">>]

Symmetry == Permutations(Worker)

====
