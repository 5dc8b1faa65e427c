\* Every kind of wait under every schedule, one retry and one replan.
SPECIFICATION Spec
CONSTANTS
    Call = {c1, c2}
    None = None
    MaxRetries = 1
    MaxReplans = 1
    MaxCycles = 2
    Reasons = {"auto", "human", "review", "approval", "blocked"}
    RunWaiting = TRUE
    SlowClaims = TRUE
SYMMETRY Symmetry
INVARIANTS
    TypeOK
    WaitingIsResumable
PROPERTIES
    WaitRespected
    KeepsLifecycle
