SPECIFICATION Spec
CONSTANTS
  g1 = g1
  g2 = g2
  Absent = Absent
  Predictor <- Two
  Layers <- MC_Layers
  DefLayers = 2
  Backlog = 1
  MaxTrain <- MC_MaxTrain
  MayFail = FALSE
  ShortReads = FALSE
  Prompt = TRUE
INVARIANT
  AnswersReachTheirModel
CHECK_DEADLOCK FALSE
