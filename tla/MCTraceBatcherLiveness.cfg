SPECIFICATION FairBatcherSpec
CONSTANTS
  Messages <- MCMessages
  TracesOf <- FewTracesOf
  Calls <- FewCalls
  Modes <- DualOnly
  Bytes <- FewBytes
  MaxBytes = 8
  BatchSize = 2
  Unparseable = {"b"}
  NoHash = NoHash
  MaxFaults = 1
  MaxCrashes = 1
PROPERTIES
  ShardDrains
CHECK_DEADLOCK FALSE
