SPECIFICATION FairSpec
CONSTANTS
  RtcEnabled = TRUE
  ExecuteSteps = 1
  OpenLoopHorizon = 3
  QueueThreshold = 2
  ExecutionHorizon = 2
  ChunkLengths = {1, 4}
  MaxPeriods = 4
  MaxEpisodes = 2
INVARIANTS
  QueueAligned
  SentIsHeld
  PutNeverBlocks
  PrefixIsCommitted
PROPERTIES
  StreamSpec
  CallsEnd
