SPECIFICATION Spec
CONSTANTS
  k1 = k1
  k2 = k2
  c1 = c1
  c2 = c2
  GRU = GRU
  HW = HW
  a1 = a1
  a2 = a2
  Absent = Absent
  Key <- MC_Key
  Conf <- MC_Conf
  Type <- MC_Type
  Attr <- MC_Attr
  Unbuildable <- MC_Unbuildable
  Specs <- SpecsGood
  MaxRv = 3
  MaxFaults = 1
  MaxCrashes = 0
INVARIANT
  OneSchedulerPerInstance
CHECK_DEADLOCK FALSE
