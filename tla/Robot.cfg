CONSTANTS
    IntentSteps = 2
    MinClose = 3
    MinOpen = 1
    NumKeys = 2
    Freq <- MCFreq
    Percent = 100
    MaxDt = 1
    Chunk = 2
    Averaged = 1
    Setups <- MCSetups
    Episodes = 2
    MaxGap = 2
SPECIFICATION Spec
INVARIANTS
  
  NoFlutter
  ActsOnOwnEpisode
  HandFollowsLatch
CHECK_DEADLOCK FALSE
