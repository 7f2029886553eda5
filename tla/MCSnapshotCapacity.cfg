SPECIFICATION Spec
CHECK_DEADLOCK FALSE
CONSTANTS
  Orgs = {o1, o2, o3}
  MaxSnapshots = 2
  MaxGeneration = 2
  MaxCopies = 1
  NoKey = NoKey
SYMMETRY Symmetry
INVARIANTS
  CopyHasSlot
  SlotsSound
PROPERTIES
  SlotsOutliveGenerations
