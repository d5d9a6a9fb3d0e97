SPECIFICATION Spec
CONSTANTS
  MaxFaults = 1
  MaxSeq = 4
  Window = 2
INVARIANT
  OneUnitPerBreak
CHECK_DEADLOCK FALSE
