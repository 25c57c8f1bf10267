SPECIFICATION Spec
CONSTANTS
  gru = gru
  hw = hw
  Reader <- OneGRU
  Calls <- PredictGRU
  Check <- MC_Check
  Window <- MC_Window
  TrainSize <- MC_Train
  MaxSample = 6
INVARIANT
  EnoughForWindow
CHECK_DEADLOCK FALSE
