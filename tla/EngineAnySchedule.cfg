\* Fair calls under every schedule: unclaimed runs, slow claims, crashes.
SPECIFICATION FairSpec
CONSTANTS
    Call = {c1, c2}
    None = None
    MaxRetries = 1
    MaxReplans = 1
    MaxCycles = 2
    Reasons = {"auto", "blocked"}
    RunWaiting = TRUE
    SlowClaims = TRUE
INVARIANTS
    OneRunningAttempt
    OneOwner
    TerminalClean
PROPERTY
    CallsReturn
