SPECIFICATION Spec
CONSTANTS
  MaxFaults = 3
  MaxSeq = 5
  Window = 3
INVARIANTS
  AnswersAreOwn
  OwedExactly
  BlameBounded
PROPERTY
  UnitEnds
CHECK_DEADLOCK FALSE
