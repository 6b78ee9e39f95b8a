CONSTANTS
  CloseAbove = 0
  EventWindow = 3
  MinHold = 2
  Baseline = 2
  Settled = 1
  Margin = 1
  MinResponse = 4
  MaxDelay = 2
  Bags = {1, 2}
  Tasks = {"task1", "task2", "task3", "beijing"}
  Settings = {0, 1}
  Samplings <- MCSamplings
  Converted <- MCConverted
  MaxLaunches = 4
  MaxRecordings = 1
CONSTRAINT Bounds
SPECIFICATION Spec
INVARIANTS
  NothingStale
  ManifestMeansComplete
PROPERTIES
  OldOutputSurvives
CHECK_DEADLOCK FALSE
