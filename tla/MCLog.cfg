SPECIFICATION FairSpec
CONSTANTS
  l1 = l1
  l2 = l2
  Logs <- TwoLogs
  MaxOut <- Outputs
  Disks = {"ok", "ro", "full"}
  Faults = {"partial", "leak", "reexec", "rotate"}
INVARIANTS
    LogsSound
PROPERTIES
    EarlyOutputKept
    ListDrains
CHECK_DEADLOCK FALSE
