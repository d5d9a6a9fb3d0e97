SPECIFICATION Spec
CONSTANTS
  a = a
  b = b
  c = c
  Clients = {a, b}
  Inputs <- TwoInputs
  CapTokens = 4
  PhaseTokens = 2
  ChanCap = 1
  MaxChats = 1
  MaxGroup = 1
  MayLeave = {a}
  MayStop = TRUE
  MayFail = TRUE
CHECK_DEADLOCK FALSE
PROPERTIES
  EveryRequestAnswered
INVARIANTS
  NoMissedWake
  CapCountsUnfinished
