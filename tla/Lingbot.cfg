SPECIFICATION Spec
CONSTANTS
  Ranks = {r0, r1}
  TrainSteps = 2
  NumEpochs = 5
  SaveSteps = 3
  SaveEpochs = 2
  KeepLast = 2
  ExtraFirst = TRUE
  MaxCrashes = 3
INVARIANTS
  RanksAgree
  FinalReadable
PROPERTIES
  LossBounded
CHECK_DEADLOCK FALSE
