---- MODULE MCStepApproval ----
(* StepApproval for TLC: which steps need a grant.                          *)
EXTENDS StepApproval, TLC

CONSTANTS p1, p2

\* One plan with a free step before the one that needs a grant, and one in which
\* one grant is followed by the need of another.
MCNeeds == p1 :> {2} @@ p2 :> {1, 2}

====
