SPECIFICATION Spec
CONSTANTS
  a = a
  b = b
  c = c
CHECK_DEADLOCK FALSE
PROPERTIES
  EveryRequestEnds
