CONSTANTS
    Tasks <- MCTasks
    MaxCycles = 3
    MaxRetries = 2
    MaxReplans = 2
    MaxTrouble = 2
    MaxEdits = 1
SPECIFICATION FairSpec
INVARIANTS TypeOK DoneIsProven
PROPERTY SuitableIsDone
