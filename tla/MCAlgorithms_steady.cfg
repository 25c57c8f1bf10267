SPECIFICATION Spec
CONSTANTS
  Half = 1024
  MaxModels = 3
  Horizon = 2
  StartReplica = 25
  Bits = 13
  MaxExp = 15
  Values <- MC_Values
  Targets <- MC_Targets
  MaxLen = 5
  Samples <- MC_Samples
  Params <- MC_Params
INVARIANT
  SteadyIsLeast
CHECK_DEADLOCK FALSE
