SPECIFICATION Spec
CONSTANTS
  p1 = p1
  p2 = p2
  s1 = s1
  Nobody = Nobody
  Left = Left
  Keys = {1, 2}
  Pids = {p1, p2}
  Sessions = {s1}
  CapBytes = 3
  PerLineage = 1
  Worlds <- OverlapOrFaults
INVARIANTS
  Durable
  AccountedFor
  MapsAgree
  NewestStays
  ResumesSound
CHECK_DEADLOCK FALSE
