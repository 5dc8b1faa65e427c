\* Two questions, two publishing processes.
SPECIFICATION FairSpec
CONSTANTS
    Interaction = {q1, q2}
    Answer = {yes, secret}
    Secret = {secret}
    Publisher = {p1, p2}
    None = None
    Limit = 2
    MaxFaults = 2
    MaxEdits = 1
INVARIANTS
    TypeOK
    OnePending
    NoteIsDecision
    BlockedForCause
PROPERTIES
    EditKept
    KeepsRecord
    Settles
