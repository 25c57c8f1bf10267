SPECIFICATION Spec
CONSTANTS
  k1 = k1
  k2 = k2
  GRU = GRU
  HW = HW
  l1 = l1
  l2 = l2
  Absent = Absent
  Half = 32768
  Key <- MC_Key
  Type <- MC_Type
  Loop <- OneLoop
  Forecasts <- MC_Forecasts
  Configs <- ConfigsHW
  Counts <- CountsBig
  MaxReplica = 2
PROPERTY
  UpToNeverLowers
CHECK_DEADLOCK FALSE
