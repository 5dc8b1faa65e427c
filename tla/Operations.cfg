SPECIFICATION FairSystem
CONSTANTS
  MaxBackups = 3
  Never = Never
  Keep = 1
  BackupAge = 1
  DrillAge = 1
  MaxFaults = 2
INVARIANTS TypeOK NewestIsKept NamedWasProven ReceiptIsListed
PROPERTIES ReceiptNeverGoesBack LossIsTold
