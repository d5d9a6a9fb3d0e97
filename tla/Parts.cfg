SPECIFICATION PartsSpec
CONSTANTS
  SwaWindow = 3
  RawRows = 7
  MaxRows = 4
  NStores = 3
  Ratio <- MCRatio
  MaxPos = 13
  NRows = 7
  NSlots = 2
  NLayers = 1
  Ids <- MCIds
  Lanes <- MCLanes
  PickSizes = {0, 2}
  Scan = 1
  NStages = 1
  MaxAdmit = 2
  InflightMax = 2
  MaxUnits = 2
  MaxFaults = 1
  BufRows = 6
  MaxChunk = 4
  NRings = 2
  RingRows = 3
  Block = 1
  ChunkRows = 2
  MaxSpec = 2
  RingModes = {"solo", "all"}
  Prompts = {2}
  MaxKv = 6
  MaxHeirs = 2
  MaxSpoilt = 1
  e1 = e1
  e2 = e2
  e3 = e3
  laneA = laneA
  laneB = laneB
SYMMETRY Alike
INVARIANTS
  RowsSeeTheirWindow
  FiresPoolTheirGroup
  CompRowsAreGroups
  StepFits
  Canonical
  MatchesPartMove
  DraftsSeeNewestRows
  MoesReadTheirExperts
  ExpertsOnce
PROPERTIES
  ImplementsAllocator
CHECK_DEADLOCK FALSE
