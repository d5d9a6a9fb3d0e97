SPECIFICATION Spec
CONSTANTS
  a = a
  b = b
  c = c
  d = d
  Reqs = {a, b, c, d}
  Room = 13
  Ctx = 20
  NSlots = 2
  NScratch = 1
  Headroom = 6
  GrowStep = 12
  GrowAt = 0
  Spare = 0
  MaxChunks = 1
  MaxRun = 1
  MaxSends = 4
  MayCancel = {b}
  FirstMayEnd = {}
  Marker = {}
  Faults = {}
  Prompt <- PassPrompt
  MaxNew <- PassMaxNew
CHECK_DEADLOCK FALSE
PROPERTIES
  StarvedNotPassed
