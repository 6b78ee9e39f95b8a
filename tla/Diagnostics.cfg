SPECIFICATION FairSpec
CONSTANTS
  EvalEpisodes = 2
  MaxSteps = 2
  QueueSize = 1
  MayFail = TRUE
  MaxEvents = 2
INVARIANTS
  ReportedOnce
  VideoWhole
PROPERTIES
  EvaluationReturns
CHECK_DEADLOCK FALSE
