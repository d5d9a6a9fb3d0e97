SPECIFICATION CallsSpec
CONSTANTS
  NSlots = 3
  NStores = 2
  MaxCtx = 3
  Faults = {"move", "restore", "fill"}
  RequestFaults = {"fill"}
  Ratio <- TwoStoreRatio
  RowsCap <- TwoStoreCap
  LentRows <- TwoStoreLent
INVARIANTS
  StreamsDecodeOwnRows
  EverySlotOwned
  TypeOK
  RegionsDisjoint
  FreeExact
  RowsIntact
  GrowRunFound
  RowsTrackPosition
  GrownHoldsContext
PROPERTIES
  CompactionGathersFreeRows
