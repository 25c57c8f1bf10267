SPECIFICATION Spec
CONSTANTS
  a = a
  b = b
  k1 = k1
  p = p
  q = q
  bad = bad
  Absent = Absent
  Name <- MC_Name
  Key <- MC_Key
  Address <- MC_Address
  Invalid <- MC_Invalid
  Specs <- MC_Specs
  MaxGen = 2
INVARIANT
  WorkersUseOwnServer
SYMMETRY
  Symmetry
CHECK_DEADLOCK FALSE
