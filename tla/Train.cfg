SPECIFICATION Spec
CONSTANTS
  MaxEpoch = 4
  StepsPerEpoch = 2
  MaxTrainingStep = 7
  SaveFreqEpoch = 1
  KeepLast = 2
  MaxLoss = 3
  MaxStarts = 3
INVARIANTS
  SelfContainedUnlessCut
  BestIsKept
  ResumesWhatWasSaved
CHECK_DEADLOCK FALSE
