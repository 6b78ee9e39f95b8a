CONSTANTS
  End = 6
  RawDirs <- MCRawDirs
  Drop = 1
  Jump = 2
  ChunkSize = 1
  WholeBody = TRUE
  MainTimeline = "head"
  MaxFailures = 1
  MaxRuns = 2
SPECIFICATION ConversionSpec
INVARIANTS
  ChunkedIsWhole
  EpisodesAreWhole
  MissingReported
CHECK_DEADLOCK FALSE
