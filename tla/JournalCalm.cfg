\* Claimed workers, verdicts about calls that are over.
SPECIFICATION Spec
CONSTANTS
    Worker = {w1, w2}
    None = None
    p1 = p1
    p2 = p2
    Plan <- MCPlan
    Steps = 3
    Kind <- MCKind
    MaxCycles = 2
    MaxRefuted = 1
    RunWaiting = FALSE
    LateCalls = FALSE
SYMMETRY Symmetry
CHECK_DEADLOCK FALSE
INVARIANTS
    TypeOK
    EffectOnce
