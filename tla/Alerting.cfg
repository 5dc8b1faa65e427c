SPECIFICATION FairSpec
CONSTANTS
  Checks = 2
  Never = Never
  Cooldown = 1
  Repeat = 2
  Escalation = 1
INVARIANTS TypeOK NotifiedIsTold
PROPERTIES KeepsAlarm FailureIsTold
