SPECIFICATION Spec
CONSTANTS
  g1 = g1
  g2 = g2
  Absent = Absent
  Predictor <- Two
  Layers <- MC_Layers
  DefLayers = 2
  Backlog = 1
  MaxTrain <- MC_MaxTrain
  MayFail = TRUE
  ShortReads = TRUE
  Prompt = FALSE
INVARIANTS
  TypeOK
  WaitingIsServed
  FilesHaveOwnLayers
  StrayOnlyWhenDisturbed
  ReadyIsTrained
PROPERTY
  CallsReturn
CHECK_DEADLOCK FALSE
