CONSTANTS
  Scripts = {"classic", "lingbot-v2", "openpi", "lingbot-v1", "v1 alone", "a100"}
  RunPrefixes = {0}
  Target = 2
  MaxLaunches = 2
  MaxSignals = 1
  MaxPreemptions = 1
SPECIFICATION CloudSpec
INVARIANTS
  SuccessDelivers
PROPERTIES
  ResumesWhole
  StateSurvives
CHECK_DEADLOCK FALSE
