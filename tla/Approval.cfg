SPECIFICATION FairSpec
CONSTANTS
    Worker = {w1, w2}
    None = None
    p1 = p1
    p2 = p2
    Plan = {p1, p2}
    Steps = 2
    Needs <- MCNeeds
    MaxCycles = 2
    MaxWaits = 3
    MaxFaults = 1
INVARIANTS
    TypeOK
    CallsAreGranted
    OneCallPerGrant
PROPERTIES
    GrantsLeadOn
CHECK_DEADLOCK FALSE
