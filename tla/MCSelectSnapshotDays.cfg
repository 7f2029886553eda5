SPECIFICATION Spec
CONSTANTS
  Days <- FourDays
  MaxSnapshotDays = 2
INVARIANTS
  ResultIsTheSelection
  NewestIsTaken
CHECK_DEADLOCK FALSE
