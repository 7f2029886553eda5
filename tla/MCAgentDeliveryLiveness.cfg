SPECIFICATION FairAgentSpec
CONSTANTS
  Deliveries = {d1, d2}
  Claims = {c1}
  NoClaim = NoClaim
  Jobs = {j1}
  NoJob = NoJob
  TargetCount = 1
  MaxSnapshotDays = 1
  MaxCopyDays = 1
  AttemptMultiplier = 2
  MaxActive = 2
  MaxDirtyDays = 1
  RetentionDays = 0
  LastDay = 0
  DeliveryRetention = 1
  SnapshotLease = 1
  Debounce = 1
  Dispatch = 1
  FirstCheck = 1
  CheckDelay = 1
  MaxStatusChecks = 1
  MaxRecoveryChecks = 1
  MaxSequence = 3
  MaxGeneration = 1
  MaxFaults = 1
PROPERTIES
  DeliverySettles
