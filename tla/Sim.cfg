SPECIFICATION SimFairSpec
CONSTANTS
  EvalEpisodes = 2
  MaxSteps = 2
  FirstWaits = 2
  Pokes = TRUE
  MayStop = TRUE
  MayFail = TRUE
  MaxPauses = 1
INVARIANTS
  StartsOnReadyScene
  SuccessIsEarned
PROPERTIES
  EvaluationEnds
CHECK_DEADLOCK FALSE
