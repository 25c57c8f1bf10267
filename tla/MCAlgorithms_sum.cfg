SPECIFICATION Spec
CONSTANTS
  Half = 1024
  MaxModels = 3
  Horizon = 2
  StartReplica = 25
  Bits = 13
  MaxExp = 15
  Values <- MC_Values
  Targets <- MC_Targets
  MaxLen = 1
  Samples <- MC_Samples
  Params <- MC_Params
INVARIANT
  AddSliceIsSum
CHECK_DEADLOCK FALSE
