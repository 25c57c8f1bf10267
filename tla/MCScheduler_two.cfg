SPECIFICATION Spec
CONSTANTS
  k1 = k1
  k2 = k2
  GRU = GRU
  HW = HW
  l1 = l1
  l2 = l2
  Absent = Absent
  Half = 32768
  Key <- MC_Key
  Type <- MC_Type
  Loop <- TwoLoops
  Forecasts <- MC_ForecastsHW
  Configs <- ConfigsMixed
  Counts <- CountsOne
  MaxReplica = 2
INVARIANTS
  RangeIsExclusive
  ChanHasRoom
PROPERTIES
  LowersOnlyWhenRaced
  TicksAreRounds
CHECK_DEADLOCK FALSE
