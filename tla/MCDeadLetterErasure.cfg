SPECIFICATION Spec
CHECK_DEADLOCK FALSE
CONSTANTS
  m1 = m1
  m2 = m2
  m3 = m3
  m4 = m4
  b1 = b1
  b2 = b2
  Messages <- FourMessages
  OurMessages <- TwoOurs
  OffContract <- OneOfEach
  Bodies <- TwoBodies
  Limit = 1
  BodyLimit = 1
  MaxFaults = 2
SYMMETRY Symmetry
INVARIANTS
  SweepIsExact
