SPECIFICATION BatcherSpec
CONSTANTS
  Messages <- MCMessages
  TracesOf <- MCTracesOf
  Calls <- MCCalls
  Modes <- MCModes
  Bytes <- MCBytes
  MaxBytes = 7
  BatchSize = 2
  Unparseable = {"c"}
  NoHash = NoHash
  MaxFaults = 1
  MaxCrashes = 1
INVARIANTS
  AckedIsKept
  WrittenOnce
  RecordsSound
  WorkHasWaker
CHECK_DEADLOCK FALSE
