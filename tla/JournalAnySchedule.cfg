\* Unclaimed workers and calls that land late.
SPECIFICATION Spec
CONSTANTS
    Worker = {w1, w2}
    None = None
    p1 = p1
    p2 = p2
    Plan <- MCPlan
    Steps = 2
    Kind <- MCShortKind
    MaxCycles = 2
    MaxRefuted = 1
    RunWaiting = TRUE
    LateCalls = TRUE
SYMMETRY Symmetry
CHECK_DEADLOCK FALSE
INVARIANTS
    OneOpenRow
    NoBlindRepeat
    OutcomeDecidable
    ExecutedMeansPerformed
