SPECIFICATION RunnerSpec
CHECK_DEADLOCK FALSE
CONSTANTS
  Deliveries = {d1}
  Claims = {c1, c2}
  NoClaim = NoClaim
  Jobs = {j1, j2}
  NoJob = NoJob
  TargetCount = 1
  MaxSnapshotDays = 2
  MaxCopyDays = 1
  AttemptMultiplier = 2
  MaxActive = 1
  MaxDirtyDays = 2
  RetentionDays = 1
  LastDay = 2
  DeliveryRetention = 1
  SnapshotLease = 1
  Debounce = 1
  Dispatch = 1
  FirstCheck = 1
  CheckDelay = 1
  MaxStatusChecks = 2
  MaxRecoveryChecks = 1
  MaxSequence = 2
  MaxGeneration = 2
  MaxFaults = 2
SYMMETRY Symmetry
INVARIANTS
  CopiesSound
  PublishedIsCopied
  OwnerIsCurrent
  WorkHasAlarm
PROPERTIES
  ForgottenIsPublished
  GenerationIsFenced
