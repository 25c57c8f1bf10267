SPECIFICATION Spec
CONSTANTS
  k1 = k1
  k2 = k2
  GRU = GRU
  HW = HW
  l1 = l1
  l2 = l2
  Absent = Absent
  Half = 32768
  Key <- MC_Key
  Type <- MC_Type
  Loop <- OneLoop
  Forecasts <- MC_Forecasts
  Configs <- ConfigsEdit
  Counts <- MC_Counts
  MaxReplica = 2
INVARIANTS
  TypeOK
  ChanHasRoom
  RangeIsExclusive
  NeverOverscales
  NeverPanics
PROPERTIES
  LowersOnlyWhenRaced
  TicksAreRounds
CHECK_DEADLOCK FALSE
