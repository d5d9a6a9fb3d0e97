SPECIFICATION Spec
CONSTANTS
  a = a
  b = b
  c = c
  d = d
  Keys = {a, b, c, d}
  Layers <- TheLayers
  LayerSize = 1
  SmallPicks = 1
  MainSlots = 2
  StageSlots = 1
  Reserve = 1
  Headroom = 1
  Band = 1
  MaxWords = 1
  MaxRestores = 1
  MaxAdmits = 0
  MaxInFlight = 2
  MaxReleases = 1
SYMMETRY Alike
INVARIANTS
  HeldIsPinned
  NoSurprise
  NoRevoke
