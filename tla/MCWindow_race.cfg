SPECIFICATION Spec
CONSTANTS
  gru = gru
  hw = hw
  Reader <- TwoRs
  Calls <- AllCalls
  Check <- MC_Check
  Window <- MC_Window
  TrainSize <- MC_Train
  MaxSample = 4
INVARIANTS
  TypeOK
  DataIsConsecutive
  CopyIsConsecutive
  EnoughUnlessRobbed
PROPERTY
  UsesAdvance
CHECK_DEADLOCK FALSE
