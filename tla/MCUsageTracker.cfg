SPECIFICATION Spec
CONSTANTS
  Configs <- MCConfigs
  Counts = {1}
  Unknown = Unknown
  Legacy = 2
  MaxPending = 3
  PageSize = 2
  MaxTime = 4
  MaxFaults = 1
INVARIANTS
  UsageIsKept
  WithinEntitlement
PROPERTIES
  UsageIsReported
