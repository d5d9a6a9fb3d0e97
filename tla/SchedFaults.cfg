SPECIFICATION Spec
CONSTANTS
  a = a
  b = b
  c = c
  d = d
  Reqs = {a, b, c, d}
  Room = 8
  Ctx = 11
  NSlots = 2
  NScratch = 2
  Headroom = 1
  GrowStep = 3
  GrowAt = 0
  Spare = 0
  MaxChunks = 2
  MaxRun = 2
  MaxSends = 3
  MayCancel = {a}
  FirstMayEnd = {a}
  Marker = {}
  Faults = {"reserve", "start", "prefill", "decode"}
  Prompt <- OddPrompt
  MaxNew <- OddMaxNew
CHECK_DEADLOCK FALSE
INVARIANTS
  NobodyLost
  NothingLeaks
