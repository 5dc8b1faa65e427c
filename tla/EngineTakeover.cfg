\* Three calls: a run and two resumes that take over from one another.
SPECIFICATION Spec
CONSTANTS
    Call = {c1, c2, c3}
    None = None
    MaxRetries = 1
    MaxReplans = 1
    MaxCycles = 2
    Reasons = {"blocked"}
    RunWaiting = FALSE
    SlowClaims = FALSE
SYMMETRY Symmetry
INVARIANT
    ExecutionIsRecoverable
PROPERTY
    BudgetNeverReset
