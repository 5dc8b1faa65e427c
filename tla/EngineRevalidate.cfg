\* A process dies while it validates.
SPECIFICATION Spec
CONSTANTS
    Call = {c1, c2}
    None = None
    MaxRetries = 1
    MaxReplans = 1
    MaxCycles = 2
    Reasons = {"auto"}
    RunWaiting = FALSE
    SlowClaims = FALSE
SYMMETRY Symmetry
INVARIANT
    ResumedValidationStarts
