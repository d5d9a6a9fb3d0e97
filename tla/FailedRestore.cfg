SPECIFICATION CallsSpec
CONSTANTS
  NSlots = 3
  NStores = 1
  MaxCtx = 3
  Faults = {"move", "restore", "fill"}
  RequestFaults = {"restore"}
  Ratio <- MCRatio
  RowsCap <- MCRowsCap
  LentRows <- MCLentRows
INVARIANTS
  StreamsDecodeOwnRows
